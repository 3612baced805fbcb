---------------------------- MODULE StoreProofs ----------------------------
(***************************************************************************)
(* What armada-store guarantees for every catalog, every set of apps and   *)
(* every disk: a replacement never takes the old packaging away before the *)
(* new one is there and its shortcut is owed, and no job is lost or kept   *)
(* twice between the list, the queue and the worker.                       *)
(***************************************************************************)
EXTENDS StorePanel, SequenceTheorems, TLAPS

Named == {"none", "one", "two"}

TypePart ==
  /\ kind \in [Apps -> Kinds]
  /\ disk \in [Apps -> SUBSET {"rival", "one", "two"}]
  /\ record \in [Apps -> Named]
  /\ shortcut \in [Apps -> Nat]

\* The steps of a job after what it installs is on the disk, and of those the
\* steps after a replacement made its shortcut owed.
After == {"override", "record one", "owe", "conflicts", "listing", "remove"}
Owing == {"conflicts", "listing", "remove"}

\* Only a plugin is published under a second name.
InstalledPart ==
  worker \in Apps =>
    /\ Launchable(worker) /\ step \in After => "one" \in disk[worker]
    /\ step = "record two" => ~Launchable(worker)

\* Only an app that can be launched has a rival to remove.
RivalPart == worker \in Apps /\ step = "remove" => Launchable(worker)

OwedPart ==
  worker \in Apps /\ step \in Owing /\ shortcut[worker] = Old => worker \in pending

\* No shortcut that is made anew starts the rival.
AddedPart == \A c \in adding : c.id \in NewIds

IInv == TypePart /\ InstalledPart /\ RivalPart /\ OwedPart /\ AddedPart

LEMMA Ids == NewIds \subseteq Nat /\ Old \notin NewIds /\ 0 \in Nat /\ 0 # Old
  BY DEF NewIds, Old

LEMMA AddedNew == \A apps : \A c \in AddToSteam(apps) : c.id \in NewIds
<1>1. \A a : NewId(a) \in NewIds
  <2>1. \A a : \E id \in NewIds : id # shortcut[a]
    BY DEF NewIds
  <2> QED
    BY <2>1 DEF NewId
<1> QED
  BY <1>1 DEF AddToSteam

LEMMA InitIInv == PanelInit => IInv
<1> SUFFICES ASSUME PanelInit PROVE IInv
  OBVIOUS
<1> USE StoreAssumption DEF PanelInit, Init
<1>1. TypePart
  <2>1. kind \in [Apps -> Kinds]
    OBVIOUS
  <2>2. disk \in [Apps -> SUBSET {"rival", "one", "two"}]
    OBVIOUS
  <2>3. record \in [Apps -> Named] /\ shortcut \in [Apps -> Nat]
    BY DEF Named, Old
  <2> QED
    BY <2>1, <2>2, <2>3 DEF TypePart
<1>2. InstalledPart /\ RivalPart /\ OwedPart /\ AddedPart
  BY DEF InstalledPart, RivalPart, OwedPart, AddedPart, After, Owing
<1> QED
  BY <1>1, <1>2 DEF IInv

\* What every step of the worker leaves alone.
LEMMA WorkStep ==
  ASSUME IInv, Work, UNCHANGED panel
  PROVE  IInv'
<1> USE DEF IInv, TypePart, InstalledPart, RivalPart, OwedPart, AddedPart, After,
        Owing, panel, store, cache, Launchable, Named, At, Kinds
<1> USE DEF Goes, End, Ends, Fails, Cancelled, FlatpakCut, DownloadCut, Spend,
        Installs, Recording
<1>1. CASE Take
  BY <1>1, StoreAssumption DEF Take
<1>2. CASE Begin
  BY <1>2 DEF Begin
<1>3. CASE InstallFlatpak
  BY <1>3 DEF InstallFlatpak
<1>4. CASE Override
  BY <1>4 DEF Override, AddPending
<1>5. CASE Owe
  BY <1>5 DEF Owe, AddPending
<1>6. CASE PublishAppimage
  BY <1>6 DEF PublishAppimage, Publish
<1>7. CASE PublishPlugin
  <2>1. PICK n \in {"one", "two"} : Publish(n)
    BY <1>7 DEF PublishPlugin, Names
  <2>2. ~Launchable(worker) /\ step = "publish"
    BY <1>7 DEF PublishPlugin
  <2>3. UNCHANGED <<kind, record, shortcut, pending>> /\ (worker' = worker \/ step' = "take")
    BY <2>1 DEF Publish
  <2>4. disk' \in [Apps -> SUBSET {"rival", "one", "two"}]
    <3>1. disk' = disk \/ disk' = [disk EXCEPT ![worker] = disk[worker] \union {n}]
      BY <2>1 DEF Publish
    <3>2. worker \in Apps /\ disk[worker] \union {n} \in SUBSET {"rival", "one", "two"}
      BY <1>7 DEF PublishPlugin
    <3> QED
      BY <3>1, <3>2
  <2>5. step' \in {"take", "record one", "record two"}
    BY <2>1 DEF Publish
  <2> QED
    BY <2>2, <2>3, <2>4, <2>5
<1>8. CASE \E n \in {"one", "two"} : Record(n)
  <2>1. PICK n \in {"one", "two"} : Record(n)
    BY <1>8
  <2>2. TypePart'
    BY <2>1 DEF Record, RecordAs
  <2>3. InstalledPart'
    BY <2>1 DEF Record
  <2> QED
    BY <2>1, <2>2, <2>3 DEF Record
<1>9. CASE FindConflicts
  BY <1>9 DEF FindConflicts, Conflicts, RivalKind
<1>10. CASE RemoveConflict
  BY <1>10 DEF RemoveConflict, RecordAs
<1>11. CASE PostInstall
  BY <1>11 DEF PostInstall
<1>12. CASE Unpend
  BY <1>12 DEF Unpend
<1>13. CASE Erase
  BY <1>13 DEF Erase, EraseFlatpak, EraseAppimage, ErasePlugin, Removes
<1>14. CASE Unrecord
  BY <1>14 DEF Unrecord, RecordAs
<1> QED
  BY <1>1, <1>2, <1>3, <1>4, <1>5, <1>6, <1>7, <1>8, <1>9, <1>10, <1>11, <1>12,
     <1>13, <1>14 DEF Work

LEMMA StepIInv ==
  ASSUME IInv, [Next]_vars
  PROVE  IInv'
<1> USE DEF IInv, TypePart, InstalledPart, RivalPart, OwedPart, AddedPart,
        Owing, panel, store, cache, list, Launchable
<1>1. CASE Backend /\ UNCHANGED panel
  <2>1. CASE Work
    BY <1>1, <2>1, WorkStep
  <2>2. CASE Refresh \/ ReadFlatpaks \/ Stamp \/ Age
    BY <1>1, <2>2 DEF Refresh, ReadFlatpaks, Stamp, Age
  <2> QED
    BY <1>1, <2>1, <2>2 DEF Backend
<1>2. CASE Close \/ PollReads
  BY <1>2 DEF Close, PollReads, backend
<1>3. CASE PollEnds
  <2>1. \E apps : adding' \subseteq adding \union AddToSteam(apps)
    BY <1>3 DEF PollEnds
  <2>2. AddedPart'
    BY <2>1, AddedNew
  <2> QED
    BY <1>3, <2>2 DEF PollEnds
<1>4. CASE RecordShortcut
  <2>1. PICK c \in adding : /\ shortcut' = [shortcut EXCEPT ![c.app] = c.id]
                            /\ pending' = pending \ {c.app}
                            /\ adding' = adding \ {c}
                            /\ UNCHANGED <<kind, disk, record, worker, step>>
    BY <1>4 DEF RecordShortcut
  <2>2. c.id \in Nat /\ c.id # Old
    BY Ids
  <2>3. shortcut' \in [Apps -> Nat]
    BY <2>1, <2>2
  <2>4. \A a \in Apps : shortcut'[a] = Old => shortcut[a] = Old /\ a # c.app
    BY <2>1, <2>2
  <2> QED
    BY <2>1, <2>3, <2>4
<1>5. CASE BackEndRestarts
  BY <1>5 DEF BackEndRestarts, BackendRestarts, After
<1>6. CASE FrontEndRestarts
  BY <1>6 DEF FrontEndRestarts
<1>7. CASE \E a \in Apps : DropOldShortcut(a)
  <2>1. PICK a \in Apps : shortcut' \in {shortcut, [shortcut EXCEPT ![a] = 0]}
    BY <1>7 DEF DropOldShortcut, ClearShortcut
  <2>2. UNCHANGED <<kind, disk, record, worker, step, pending, adding>>
    BY <1>7 DEF DropOldShortcut
  <2>3. /\ shortcut' \in [Apps -> Nat]
        /\ \A b \in Apps : shortcut'[b] = Old => shortcut[b] = Old
    BY <2>1, Ids
  <2> QED
    BY <2>2, <2>3
<1>8. CASE \E a \in Apps : MenuCancels(a)
  BY <1>8 DEF MenuCancels, Cancel
<1>9. CASE \E a \in Apps : MenuAdds(a)
  <2>1. AddedPart'
    BY <1>9, AddedNew DEF MenuAdds
  <2> QED
    BY <1>9, <2>1 DEF MenuAdds
<1>10. CASE \E a \in Apps : MenuRemoves(a)
  <2>1. PICK a \in Apps : shortcut' = [shortcut EXCEPT ![a] = 0] /\ pending' = pending \ {a}
    BY <1>10 DEF MenuRemoves
  <2>2. UNCHANGED <<kind, disk, record, worker, step, adding>>
    BY <1>10 DEF MenuRemoves
  <2>3. /\ shortcut' \in [Apps -> Nat]
        /\ \A b \in Apps : shortcut'[b] = Old => shortcut[b] = Old /\ b # a
    BY <2>1, Ids
  <2> QED
    BY <2>1, <2>2, <2>3
<1>11. CASE \E a \in Apps : \E action \in {"install", "replace", "uninstall"} :
              MenuStarts(a, action)
  BY <1>11 DEF MenuStarts, Start, After
<1>12. CASE UNCHANGED vars
  BY <1>12 DEF vars, code, backend
<1> QED
  BY <1>1, <1>2, <1>3, <1>4, <1>5, <1>6, <1>7, <1>8, <1>9, <1>10, <1>11, <1>12
     DEF Next, Step

THEOREM Invariance == Spec => []IInv
  BY InitIInv, StepIInv, PTL DEF Spec

\* A replacement takes the packaging that is there away only once the new one is
\* on the disk and, where a shortcut to the old one is recorded, a new one owed.
THEOREM ReplacementSafe == Spec => ReplacementOwed
<1> DEFINE Owed(a) == "rival" \in disk[a] \ disk'[a] =>
                        "one" \in disk[a] /\ (shortcut[a] = Old => a \in pending)
<1>1. IInv /\ [Next]_vars => [\A a \in Apps : Owed(a)]_vars
  <2> SUFFICES ASSUME IInv, [Next]_vars, NEW a \in Apps, "rival" \in disk[a] \ disk'[a]
               PROVE  "one" \in disk[a] /\ (shortcut[a] = Old => a \in pending)
    OBVIOUS
  <2>1. RemoveConflict
    <3>1. Work
      BY DEF Next, Step, Backend, vars, code, backend, panel, store, cache, list, Refresh,
         ReadFlatpaks, Stamp, Age, Close, PollReads, PollEnds, RecordShortcut,
         BackEndRestarts, BackendRestarts, FrontEndRestarts, DropOldShortcut,
         MenuCancels, Cancel, MenuAdds, MenuRemoves, MenuStarts, Start
    <3> QED
      <4>1. "rival" \notin {"one", "two", "none"} /\ record[a] # "rival"
        BY DEF IInv, TypePart, Named
      <4>2. ~(Take \/ Begin \/ Override \/ Owe \/ FindConflicts \/ PostInstall
                \/ Unpend \/ Unrecord)
        BY DEF Take, Begin, Override, Owe, FindConflicts, PostInstall, Unpend, Unrecord
      <4>3. ~(InstallFlatpak \/ PublishAppimage \/ PublishPlugin)
        BY DEF InstallFlatpak, PublishAppimage, PublishPlugin, Publish, At, IInv, TypePart
      <4>4. ~Erase
        BY <4>1 DEF Erase, EraseFlatpak, EraseAppimage, ErasePlugin, Removes, At, IInv,
                   TypePart
      <4>5. ASSUME NEW n, Record(n) PROVE FALSE
        BY <4>1, <4>5 DEF Record, At, IInv, TypePart
      <4> QED
        BY <3>1, <4>2, <4>3, <4>4, <4>5 DEF Work
  <2>2. a = worker /\ step = "remove"
    BY <2>1 DEF RemoveConflict, At, IInv, TypePart
  <2> QED
    BY <2>2 DEF IInv, InstalledPart, RivalPart, OwedPart, After, Owing
<1> QED
  BY <1>1, Invariance, PTL DEF Spec, ReplacementOwed
-----------------------------------------------------------------------------
(* The job list.                                                           *)

Actions == {"install", "replace", "uninstall"}

ListPart ==
  /\ jobs \in [Apps -> [action : Actions \union {"none"}, cancel : BOOLEAN,
                        phase : {"none", "queued", "running"}]]
  /\ queue \in Seq(Apps)
  /\ worker \in Apps \union {"idle", "gone"}
  /\ JobsOK

LEMMA NotApps == "idle" \notin Apps /\ "gone" \notin Apps
  BY StoreAssumption

LEMMA RemoveAtFacts ==
  ASSUME NEW S, NEW s \in Seq(S), NEW i \in DOMAIN s
  PROVE  /\ RemoveAt(s, i) \in Seq(S)
         /\ Len(RemoveAt(s, i)) = Len(s) - 1
         /\ \A k \in 1..(Len(s) - 1) :
              RemoveAt(s, i)[k] = IF k < i THEN s[k] ELSE s[k + 1]
<1> DEFINE l == SubSeq(s, 1, i - 1)
           r == SubSeq(s, i + 1, Len(s))
<1>1. i \in 1..Len(s) /\ Len(s) \in Nat
  OBVIOUS
<1>2. /\ l \in Seq(S) /\ Len(l) = i - 1 /\ \A k \in 1..(i - 1) : l[k] = s[k]
  BY <1>1, SubSeqProperties
<1>3. /\ r \in Seq(S) /\ Len(r) = Len(s) - i
      /\ \A k \in 1..(Len(s) - i) : r[k] = s[i + k]
  BY <1>1, SubSeqProperties
<1> HIDE DEF l, r
<1>4. l \o r \in Seq(S) /\ Len(l \o r) = Len(s) - 1
  BY <1>1, <1>2, <1>3, ConcatProperties
<1>5. ASSUME NEW k \in 1..(Len(s) - 1)
      PROVE  (l \o r)[k] = IF k < i THEN s[k] ELSE s[k + 1]
  <2>1. (l \o r)[k] = IF k <= Len(l) THEN l[k] ELSE r[k - Len(l)]
    BY <1>1, <1>2, <1>3, ConcatProperties
  <2> QED
    BY <1>1, <1>2, <1>3, <2>1
<1> QED
  BY <1>4, <1>5 DEF RemoveAt, l, r

LEMMA InitList == PanelInit => ListPart
<1> SUFFICES ASSUME PanelInit PROVE ListPart
  OBVIOUS
<1> USE DEF PanelInit, Init, NoJob
<1>1. /\ jobs = [a \in Apps |-> NoJob] /\ queue = <<>> /\ worker = "gone"
  OBVIOUS
<1>2. JobsOK
  BY <1>1, NotApps DEF JobsOK, IsInjective, Contains, Active
<1> QED
  BY <1>1, <1>2 DEF ListPart

\* start()
LEMMA StartList ==
  ASSUME ListPart, NEW a \in Apps, NEW action \in Actions, Start(a, action)
  PROVE  ListPart'
<1> USE DEF ListPart
<1>1. jobs[a] = NoJob /\ ~Contains(queue, a) /\ worker # a
  BY DEF Start, Active, JobsOK
<1>2. /\ jobs' = [jobs EXCEPT ![a] = [action |-> action, phase |-> "queued", cancel |-> FALSE]]
      /\ queue' = Append(queue, a)
      /\ worker' = IF worker = "gone" THEN "idle" ELSE worker
  BY DEF Start
<1>3. /\ queue' \in Seq(Apps) /\ Len(queue') = Len(queue) + 1 /\ Len(queue) \in Nat
      /\ \A i \in 1..Len(queue) : queue'[i] = queue[i]
      /\ queue'[Len(queue) + 1] = a
  BY <1>2
<1>4. \A b : Contains(queue', b) <=> Contains(queue, b) \/ b = a
  BY <1>3 DEF Contains
<1>5. IsInjective(queue')
  <2>1. \A i \in 1..Len(queue) : queue[i] # a
    BY <1>1 DEF Contains
  <2>2. \A i, j \in 1..Len(queue) : queue[i] = queue[j] => i = j
    BY DEF JobsOK, IsInjective
  <2>3. DOMAIN queue' = 1..(Len(queue) + 1)
    BY <1>3
  <2> QED
    BY <1>3, <2>1, <2>2, <2>3 DEF IsInjective
<1>6. \A b \in Apps : Active(b)' <=> Active(b) \/ b = a
  BY <1>2 DEF Active, NoJob
<1>7. \A b \in Apps : worker' = b <=> worker = b
  BY <1>2, NotApps
<1>8. worker' # "gone"
  BY <1>2
<1>9. JobsOK'
  BY <1>1, <1>4, <1>5, <1>6, <1>7, <1>8 DEF JobsOK
<1> QED
  BY <1>2, <1>3, <1>9

\* cancel()
LEMMA CancelList ==
  ASSUME ListPart, NEW a \in Apps, Cancel(a)
  PROVE  ListPart'
<1> USE DEF ListPart
<1>1. worker' = worker /\ jobs[a] # NoJob
  BY DEF Cancel, list, Active
<1>2. CASE jobs[a].phase = "queued" /\ Contains(queue, a)
  <2>1. PICK i \in DOMAIN queue : queue[i] = a /\ queue' = RemoveAt(queue, i)
    BY <1>2 DEF Cancel
  <2>2. jobs' = [jobs EXCEPT ![a] = NoJob]
    BY <1>2 DEF Cancel
  <2>3. /\ queue' \in Seq(Apps) /\ Len(queue') = Len(queue) - 1
        /\ \A k \in 1..(Len(queue) - 1) : queue'[k] = IF k < i THEN queue[k] ELSE queue[k + 1]
    BY <2>1, RemoveAtFacts
  <2>4. i \in 1..Len(queue) /\ Len(queue) \in Nat /\ DOMAIN queue' = 1..(Len(queue) - 1)
    BY <2>3
  <2>5. \A j, k \in 1..Len(queue) : queue[j] = queue[k] => j = k
    BY DEF JobsOK, IsInjective
  <2> DEFINE from(k) == IF k < i THEN k ELSE k + 1
  <2>14. \A k \in 1..Len(queue') : from(k) \in 1..Len(queue) /\ queue'[k] = queue[from(k)]
    BY <2>3, <2>4
  <2>15. \A j, k \in 1..Len(queue') : from(j) = from(k) => j = k
    BY <2>3, <2>4
  <2> HIDE DEF from
  <2>6. IsInjective(queue')
    <3>1. DOMAIN queue' = 1..Len(queue')
      BY <2>3, <2>4
    <3> QED
      BY <2>5, <2>14, <2>15, <3>1 DEF IsInjective
  <2>7. ~Contains(queue', a)
    BY <2>1, <2>3, <2>4, <2>5 DEF Contains
  <2>8. \A b : b # a => (Contains(queue', b) <=> Contains(queue, b))
    <3> SUFFICES ASSUME NEW b, b # a
                 PROVE  Contains(queue', b) <=> Contains(queue, b)
      OBVIOUS
    <3>1. ASSUME NEW k \in 1..Len(queue), queue[k] = b
          PROVE  \E j \in 1..Len(queue') : queue'[j] = b
      <4>1. CASE k < i
        <5>1. k \in 1..Len(queue') /\ queue'[k] = queue[k]
          BY <2>3, <2>4, <4>1
        <5> QED
          BY <3>1, <5>1
      <4>2. CASE k > i
        <5>1. k - 1 \in 1..Len(queue') /\ queue'[k - 1] = queue[k]
          BY <2>3, <2>4, <4>2
        <5> QED
          BY <3>1, <5>1
      <4>3. k # i
        BY <2>1, <3>1
      <4> QED
        BY <2>4, <4>1, <4>2, <4>3
    <3>2. ASSUME NEW k \in 1..Len(queue'), queue'[k] = b
          PROVE  \E j \in 1..Len(queue) : queue[j] = b
      BY <2>14, <3>2
    <3> QED
      BY <3>1, <3>2 DEF Contains
  <2>9. \A b \in Apps : Active(b)' <=> Active(b) /\ b # a
    BY <2>2 DEF Active
  <2>10. worker # a
    BY <1>2 DEF JobsOK
  <2>11. jobs' \in [Apps -> [action : Actions \union {"none"}, cancel : BOOLEAN,
                            phase : {"none", "queued", "running"}]]
    BY <2>2 DEF NoJob
  <2>12. queue' # <<>> => queue # <<>>
    BY <2>3, <2>4
  <2>13. JobsOK'
    BY <1>1, <2>6, <2>7, <2>8, <2>9, <2>10, <2>12 DEF JobsOK
  <2> QED
    BY <1>1, <2>3, <2>11, <2>13
<1>3. CASE ~(jobs[a].phase = "queued" /\ Contains(queue, a))
  <2>1. jobs' = [jobs EXCEPT ![a].cancel = TRUE] /\ queue' = queue
    BY <1>3 DEF Cancel
  <2>2. /\ jobs' \in [Apps -> [action : Actions \union {"none"}, cancel : BOOLEAN,
                               phase : {"none", "queued", "running"}]]
        /\ jobs'[a].cancel = TRUE /\ \A b \in Apps : b # a => jobs'[b] = jobs[b]
    BY <2>1
  <2>3. \A b \in Apps : Active(b)' <=> Active(b)
    BY <1>1, <2>2 DEF Active, NoJob
  <2>4. JobsOK'
    BY <1>1, <2>1, <2>3 DEF JobsOK
  <2> QED
    BY <1>1, <2>1, <2>2, <2>4
<1> QED
  BY <1>2, <1>3

LEMMA TakeList ==
  ASSUME ListPart, Take
  PROVE  ListPart'
<1> USE DEF ListPart
<1>1. worker = "idle" /\ jobs' = jobs
  BY DEF Take
<1>2. CASE queue = <<>>
  <2>1. queue' = queue /\ worker' = "gone"
    BY <1>2 DEF Take
  <2>2. JobsOK'
    BY <1>1, <1>2, <2>1, NotApps DEF JobsOK, Active
  <2> QED
    BY <1>1, <2>1, <2>2
<1>3. CASE queue # <<>>
  <2>1. worker' = queue[1] /\ queue' = Tail(queue)
    BY <1>3 DEF Take
  <2>2. /\ queue' \in Seq(Apps) /\ Len(queue') = Len(queue) - 1
        /\ \A i \in 1..(Len(queue) - 1) : queue'[i] = queue[i + 1]
        /\ Len(queue) \in Nat \ {0} /\ queue[1] \in Apps
    BY <1>3, <2>1
  <2>3. \A j, k \in 1..Len(queue) : queue[j] = queue[k] => j = k
    BY DEF JobsOK, IsInjective
  <2>4. IsInjective(queue')
    <3>1. \A i \in 1..Len(queue') : i + 1 \in 1..Len(queue) /\ queue'[i] = queue[i + 1]
      BY <2>2
    <3>2. DOMAIN queue' = 1..Len(queue') /\ Len(queue') \in Nat
      BY <2>2
    <3> QED
      BY <2>3, <3>1, <3>2 DEF IsInjective
  <2>5. ~Contains(queue', queue[1])
    <3>1. \A i \in 1..Len(queue') : /\ i + 1 \in 1..Len(queue) /\ i + 1 # 1
                                    /\ queue'[i] = queue[i + 1]
      BY <2>2
    <3>2. 1 \in 1..Len(queue)
      BY <2>2
    <3> QED
      BY <2>3, <3>1, <3>2 DEF Contains
  <2>6. \A b : Contains(queue, b) <=> Contains(queue', b) \/ b = queue[1]
    <3>1. ASSUME NEW b, NEW k \in 1..Len(queue), queue[k] = b, b # queue[1]
          PROVE  \E j \in 1..Len(queue') : queue'[j] = b
      <4>1. k - 1 \in 1..Len(queue') /\ queue'[k - 1] = queue[k]
        BY <2>2, <3>1
      <4> QED
        BY <3>1, <4>1
    <3>2. ASSUME NEW b, NEW k \in 1..Len(queue'), queue'[k] = b
          PROVE  \E j \in 1..Len(queue) : queue[j] = b
      <4>1. k + 1 \in 1..Len(queue) /\ queue'[k] = queue[k + 1]
        BY <2>2, <3>2
      <4> QED
        BY <3>2, <4>1
    <3>3. 1 \in 1..Len(queue)
      BY <2>2
    <3> QED
      BY <3>1, <3>2, <3>3 DEF Contains
  <2>7. \A b \in Apps : Active(b)' <=> Active(b)
    BY <1>1 DEF Active
  <2>8. JobsOK'
    BY <1>1, <2>1, <2>2, <2>4, <2>5, <2>6, <2>7, NotApps DEF JobsOK
  <2> QED
    BY <1>1, <2>1, <2>2, <2>8
<1> QED
  BY <1>2, <1>3

LEMMA EndList ==
  ASSUME ListPart, worker \in Apps, End, queue' = queue
  PROVE  ListPart'
<1> USE DEF ListPart
<1>1. jobs' = [jobs EXCEPT ![worker] = NoJob] /\ worker' = "idle"
  BY DEF End
<1>2. \A b \in Apps : Active(b)' <=> Active(b) /\ b # worker
  BY <1>1 DEF Active
<1>3. JobsOK'
  BY <1>1, <1>2, NotApps DEF JobsOK
<1>4. jobs' \in [Apps -> [action : Actions \union {"none"}, cancel : BOOLEAN,
                          phase : {"none", "queued", "running"}]]
  BY <1>1 DEF NoJob
<1> QED
  BY <1>1, <1>3, <1>4

LEMMA BeginList ==
  ASSUME ListPart, Begin
  PROVE  ListPart'
<1> USE DEF ListPart
<1>1. /\ jobs' = [jobs EXCEPT ![worker].phase = "running"]
      /\ queue' = queue /\ worker' = worker /\ worker \in Apps
  BY DEF Begin, At
<1>2. jobs' \in [Apps -> [action : Actions \union {"none"}, cancel : BOOLEAN,
                          phase : {"none", "queued", "running"}]]
  BY <1>1
<1>3. jobs'[worker].phase = "running" /\ \A b \in Apps : b # worker => jobs'[b] = jobs[b]
  BY <1>1
<1>4. Active(worker)' /\ Active(worker)
  <2>1. jobs'[worker] # NoJob
    BY <1>3 DEF NoJob
  <2> QED
    BY <1>1, <2>1 DEF Active, JobsOK
<1>5. \A b \in Apps : Active(b)' <=> Active(b)
  BY <1>1, <1>3, <1>4 DEF Active
<1>6. JobsOK'
  BY <1>1, <1>5 DEF JobsOK
<1> QED
  BY <1>1, <1>2, <1>6

LEMMA KeptList ==
  ASSUME ListPart, UNCHANGED <<jobs, queue, worker>>
  PROVE  ListPart'
BY DEF ListPart, JobsOK, Active

LEMMA WorkList ==
  ASSUME ListPart, Work
  PROVE  ListPart'
<1> USE DEF Goes, Fails, Ends, Cancelled, FlatpakCut, DownloadCut, At
<1>1. CASE Take
  BY <1>1, TakeList
<1>2. CASE Begin
  BY <1>2, BeginList
<1>3. \/ Take \/ Begin
      \/ worker \in Apps /\ End /\ queue' = queue
      \/ UNCHANGED <<jobs, queue, worker>>
  <2>1. CASE InstallFlatpak \/ Override \/ Owe
    BY <2>1 DEF InstallFlatpak, Override, Owe
  <2>2. CASE PublishAppimage \/ PublishPlugin
    BY <2>2 DEF PublishAppimage, PublishPlugin, Publish
  <2>3. CASE \E n \in {"one", "two"} : Record(n)
    BY <2>3 DEF Record
  <2>4. CASE FindConflicts \/ RemoveConflict
    BY <2>4 DEF FindConflicts, RemoveConflict
  <2>5. CASE PostInstall \/ Unpend \/ Erase \/ Unrecord
    BY <2>5 DEF PostInstall, Unpend, Erase, EraseFlatpak, EraseAppimage, ErasePlugin,
             Removes, Unrecord
  <2> QED
    BY <2>1, <2>2, <2>3, <2>4, <2>5 DEF Work
<1> QED
  BY <1>1, <1>2, <1>3, EndList, KeptList

LEMMA RestartList ==
  ASSUME ListPart, BackendRestarts
  PROVE  ListPart'
<1>1. jobs' = [a \in Apps |-> NoJob] /\ queue' = <<>> /\ worker' = "gone"
  BY DEF BackendRestarts
<1>2. JobsOK'
  BY <1>1, NotApps DEF JobsOK, IsInjective, Contains, Active
<1> QED
  BY <1>1, <1>2 DEF ListPart, NoJob

LEMMA StepList ==
  ASSUME ListPart, [Next]_vars
  PROVE  ListPart'
<1>1. CASE Work
  BY <1>1, WorkList
<1>2. CASE Refresh \/ ReadFlatpaks \/ Stamp \/ Age
  BY <1>2, KeptList DEF Refresh, ReadFlatpaks, Stamp, Age, list
<1>3. CASE Close \/ PollReads \/ PollEnds \/ RecordShortcut \/ FrontEndRestarts
  BY <1>3, KeptList DEF Close, PollReads, PollEnds, RecordShortcut, FrontEndRestarts,
     backend, list
<1>4. CASE BackEndRestarts
  BY <1>4, RestartList DEF BackEndRestarts
<1>5. CASE \E a \in Apps : DropOldShortcut(a) \/ MenuAdds(a) \/ MenuRemoves(a)
  BY <1>5, KeptList DEF DropOldShortcut, MenuAdds, MenuRemoves, list
<1>6. ASSUME NEW a \in Apps, MenuCancels(a) PROVE ListPart'
  BY <1>6, CancelList DEF MenuCancels
<1>7. ASSUME NEW a \in Apps, NEW action \in Actions, MenuStarts(a, action)
      PROVE  ListPart'
  BY <1>7, StartList DEF MenuStarts
<1>8. CASE UNCHANGED vars
  BY <1>8, KeptList DEF vars, code, backend, list
<1> QED
  BY <1>1, <1>2, <1>3, <1>4, <1>5, <1>6, <1>7, <1>8 DEF Next, Step, Backend, Actions

\* The job list, the queue and the worker agree: start(), cancel(), the hand-off
\* of _run() and a restart neither lose an accepted job nor keep one twice.
THEOREM JobsAgree == Spec => []JobsOK
<1>1. ListPart => JobsOK
  BY DEF ListPart
<1> QED
  BY <1>1, InitList, StepList, PTL DEF Spec
=============================================================================
