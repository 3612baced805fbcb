-------------------------- MODULE AndroidBaseProofs --------------------------
(***************************************************************************)
(* What replacing the Android base guarantees for any number of            *)
(* replacements, hooks and images: the base, its digest and latest.json    *)
(* agree whenever the lock is free, "failed_original_restored" is true     *)
(* when it is written, and a kernel update builds from the base its        *)
(* configuration named.                                                    *)
(***************************************************************************)
EXTENDS AndroidBase, TLAPS

Pcs == ReplacerPcs \union HookPcs

\* A replacement keeps copies of real images while it has something to restore.
KeepPcs == {"build"} \union Committing \union RollingBack
KeptPart ==
  \A r \in Replacers : pc[r] \in KeepPcs =>
    kept[r].stock \in Images /\ kept[r].config \in Images

Typed == TypeOK /\ pc \in [Procs -> Pcs] /\ KeptPart

PcPart == /\ pc \in [Procs -> Pcs]
          /\ \A r \in Replacers : pc[r] \in ReplacerPcs
          /\ \A h \in Hooks : pc[h] \in HookPcs
LockPart == /\ \A p \in Procs : NeedsLock(p) <=> lock = p
            /\ lock \in Procs \union {NoOne}

DataPart ==
  /\ stock \in Images /\ config \in Images /\ latest \in Images \union {NoImage}
  /\ seen \in [Procs -> Images \union {NoImage}]
  /\ kept \in [Replacers -> [stock : Images \union {NoImage},
                             config : Images \union {NoImage},
                             latest : Images \union {NoImage}]]
  /\ fresh \in [Replacers -> BOOLEAN]
  /\ commit \in [Replacers -> BOOLEAN]
  /\ child \in [Replacers -> BOOLEAN]
  /\ status \in [Replacers -> Statuses]
  /\ torn \in BOOLEAN

LEMMA InitTyped == Init => Typed
<1> SUFFICES ASSUME Init PROVE Typed
  OBVIOUS
<1> QED
  BY BaseAssumption DEF Init, Typed, TypeOK, Procs, Pcs, ReplacerPcs, HookPcs, KeptPart,
     KeepPcs, Committing, RollingBack, Statuses,
     NothingKept, NeedsLock

LEMMA ForgetTyped ==
  ASSUME DataPart, NEW p \in Procs, Forget(p)
  PROVE  /\ seen' \in [Procs -> Images \union {NoImage}]
         /\ kept' \in [Replacers -> [stock : Images \union {NoImage},
                                    config : Images \union {NoImage},
                                    latest : Images \union {NoImage}]]
         /\ fresh' \in [Replacers -> BOOLEAN]
         /\ commit' \in [Replacers -> BOOLEAN]
<1>1. seen' \in [Procs -> Images \union {NoImage}]
  BY DEF DataPart, Forget
<1>2. kept' \in [Replacers -> [stock : Images \union {NoImage},
                              config : Images \union {NoImage},
                              latest : Images \union {NoImage}]]
  BY DEF DataPart, Forget, NothingKept
<1>3. fresh' \in [Replacers -> BOOLEAN] /\ commit' \in [Replacers -> BOOLEAN]
  BY DEF DataPart, Forget
<1> QED
  BY <1>1, <1>2, <1>3

LEMMA FreshTyped ==
  ASSUME DataPart, NEW r \in Replacers, BuilderSucceeds(r) \/ BuilderFails(r)
  PROVE  fresh' \in [Replacers -> BOOLEAN] /\ child' \in [Replacers -> BOOLEAN]
<1> DEFINE b == ~Orphaned(r)
<1>1. b \in BOOLEAN
  OBVIOUS
<1>2. fresh' = fresh \/ fresh' = [fresh EXCEPT ![r] = b]
  BY DEF BuilderSucceeds, BuilderFails
<1> HIDE DEF b
<1>3. fresh' \in [Replacers -> BOOLEAN]
  BY <1>1, <1>2 DEF DataPart
<1> QED
  BY <1>3 DEF DataPart, BuilderSucceeds, BuilderFails, BuilderEnds

LEMMA ReplacerTyped ==
  ASSUME Typed, NEW r \in Replacers, Begin(r) \/ Replace(r) \/ Kill(r)
  PROVE  Typed'
<1> USE BaseAssumption DEF Typed, TypeOK, Procs, Pcs, ReplacerPcs, HookPcs, KeptPart,
     KeepPcs, Committing, RollingBack, Statuses,
        NothingKept, NeedsLock, Goto, Unlock, Exit, Forget,
        local
<1>1. CASE Begin(r)
  BY <1>1 DEF Begin
<1>2. CASE Lock(r)
  <2>1. CASE config = seen[r] /\ stock = seen[r]
    <3>1. PcPart'
      BY <1>2, <2>1 DEF PcPart, Lock
    <3>2. LockPart'
      BY <1>2, <2>1 DEF LockPart, Lock
    <3>3. KeptPart'
      BY <1>2, <2>1 DEF Lock
    <3>4. DataPart'
      BY <1>2, <2>1 DEF DataPart, Lock
    <3> QED
      BY <3>1, <3>2, <3>3, <3>4 DEF PcPart, LockPart, DataPart
  <2>2. CASE ~(config = seen[r] /\ stock = seen[r])
    <3>1. PcPart'
      BY <1>2, <2>2 DEF PcPart, Lock
    <3>2. LockPart'
      BY <1>2, <2>2 DEF LockPart, Lock
    <3>3. KeptPart'
      BY <1>2, <2>2 DEF Lock
    <3>4. DataPart'
      <4>1. Forget(r) /\ UNCHANGED <<stock, config, latest, child, status, torn>>
        BY <1>2, <2>2 DEF Lock
      <4> QED
        BY <4>1, ForgetTyped DEF DataPart
    <3> QED
      BY <3>1, <3>2, <3>3, <3>4 DEF PcPart, LockPart, DataPart
  <2> QED
    BY <2>1, <2>2
<1>3. CASE Backup(r)
  BY <1>3 DEF Backup
<1>4. CASE Refuse(r)
  BY <1>4 DEF Refuse
<1>5. CASE BuilderSucceeds(r) \/ BuilderFails(r)
  <2>1. CASE Orphaned(r)
    <3>1. PcPart'
      BY <1>5, <2>1 DEF PcPart, BuilderSucceeds, BuilderFails, BuilderEnds, Orphaned
    <3>2. LockPart'
      BY <1>5, <2>1 DEF LockPart, BuilderSucceeds, BuilderFails, BuilderEnds, Orphaned
    <3>3. KeptPart'
      BY <1>5, <2>1 DEF BuilderSucceeds, BuilderFails, BuilderEnds, Orphaned
    <3>4. DataPart'
      <4>1. /\ latest' = Input[r] \/ latest' = latest
            /\ UNCHANGED <<stock, config, seen, kept, commit, status, torn>>
        BY <1>5 DEF BuilderSucceeds, BuilderFails, BuilderEnds
      <4> QED
        BY <1>5, <4>1, FreshTyped DEF DataPart
    <3> QED
      BY <3>1, <3>2, <3>3, <3>4 DEF PcPart, LockPart, DataPart
  <2>2. CASE ~Orphaned(r)
    <3>1. PcPart'
      BY <1>5, <2>2 DEF PcPart, BuilderSucceeds, BuilderFails, BuilderEnds
    <3>2. LockPart'
      BY <1>5, <2>2 DEF LockPart, BuilderSucceeds, BuilderFails, BuilderEnds
    <3>3. KeptPart'
      BY <1>5, <2>2 DEF BuilderSucceeds, BuilderFails, BuilderEnds
    <3>4. DataPart'
      <4>1. /\ latest' = Input[r] \/ latest' = latest
            /\ UNCHANGED <<stock, config, seen, kept, commit, status, torn>>
        BY <1>5 DEF BuilderSucceeds, BuilderFails, BuilderEnds
      <4> QED
        BY <1>5, <4>1, FreshTyped DEF DataPart
    <3> QED
      BY <3>1, <3>2, <3>3, <3>4 DEF PcPart, LockPart, DataPart
  <2> QED
    BY <2>1, <2>2
<1>6. CASE Built(r)
  BY <1>6 DEF Built
<1>7. CASE CheckLatest(r)
  BY <1>7 DEF CheckLatest
<1>8. CASE CommitStock(r)
  BY <1>8 DEF CommitStock
<1>9. CASE CommitConfig(r)
  BY <1>9 DEF CommitConfig
<1>10. CASE Complete(r)
  BY <1>10 DEF Complete
<1>11. CASE Fails(r) \/ Interrupted(r)
  <2>1. pc' = [pc EXCEPT ![r] = "restoreStock"] \/ pc' = [pc EXCEPT ![r] = "restoreLatest"]
    BY <1>11 DEF Fails, Interrupted, ToRollback
  <2>2. child' \in [Replacers -> BOOLEAN]
    BY <1>11 DEF Fails, Interrupted
  <2>3. UNCHANGED <<stock, config, latest, lock, seen, kept, fresh, commit, status, torn>>
    BY <1>11 DEF Fails, Interrupted
  <2>4. pc[r] \in KeepPcs /\ NeedsLock(r)
    BY <1>11 DEF Fails, Interrupted
  <2> QED
    BY <2>1, <2>2, <2>3, <2>4
<1>12. CASE RestoreStock(r)
  BY <1>12 DEF RestoreStock
<1>13. CASE RestoreConfig(r)
  BY <1>13 DEF RestoreConfig
<1>14. CASE RestoreLatest(r)
  BY <1>14 DEF RestoreLatest
<1>15. CASE MarkFailed(r)
  BY <1>15 DEF MarkFailed
<1>16. CASE RollbackFails(r)
  BY <1>16 DEF RollbackFails
<1>17. CASE Kill(r)
  BY <1>17 DEF Kill
<1> QED
  BY <1>1, <1>2, <1>3, <1>4, <1>5, <1>6, <1>7, <1>8, <1>9, <1>10, <1>11, <1>12,
     <1>13, <1>14, <1>15, <1>16, <1>17 DEF Replace

LEMMA OtherTyped ==
  ASSUME Typed, (\E h \in Hooks : HookBegin(h) \/ Hook(h)) \/ PowerLoss \/ UNCHANGED vars
  PROVE  Typed'
<1> USE BaseAssumption DEF Typed, TypeOK, Procs, Pcs, ReplacerPcs, HookPcs, KeptPart,
     KeepPcs, Committing, RollingBack, Statuses,
        NothingKept, NeedsLock, Goto, Unlock, Exit, Forget, local
<1>1. ASSUME NEW h \in Hooks, HookBegin(h)
      PROVE  Typed'
  BY <1>1 DEF HookBegin
<1>2. ASSUME NEW h \in Hooks, HookLock(h)
      PROVE  Typed'
  BY <1>2 DEF HookLock
<1>3. ASSUME NEW h \in Hooks, HookSucceeds(h) \/ HookFails(h)
      PROVE  Typed'
  <2>1. latest' \in Images \union {NoImage}
    BY <1>3 DEF HookSucceeds, HookFails
  <2> QED
    <3>1. PcPart'
      BY <1>3 DEF PcPart, HookSucceeds, HookFails
    <3>2. LockPart'
      BY <1>3 DEF LockPart, HookSucceeds, HookFails
    <3>3. KeptPart'
      BY <1>3 DEF HookSucceeds, HookFails
    <3>4. DataPart'
      BY <1>3, <2>1 DEF DataPart, HookSucceeds, HookFails
    <3> QED
      BY <3>1, <3>2, <3>3, <3>4 DEF PcPart, LockPart, DataPart
<1>4. CASE PowerLoss
  BY <1>4 DEF PowerLoss
<1>5. CASE UNCHANGED vars
  BY <1>5 DEF vars
<1> QED
  BY <1>1, <1>2, <1>3, <1>4, <1>5 DEF Hook
-----------------------------------------------------------------------------
(* The invariant.  What the holder of the lock kept is consistent with what *)
(* is installed, stage by stage.                                           *)

Sound == stock = config /\ latest \in {config, NoImage}

Back(r) == stock = kept[r].stock /\ config = kept[r].config

\* What a replacement kept was sound, and it is what is installed until the
\* commit begins and once the rollback has restored it.
Stage(r) ==
  /\ child[r] => pc[r] \in {"build", "dead"}
  /\ pc[r] = "dead" => torn
  /\ pc[r] = "backup" => seen[r] = stock /\ config = stock /\ (~torn => Sound)
  /\ pc[r] \in KeepPcs =>
       /\ kept[r].stock = kept[r].config
       /\ ~torn => kept[r].latest \in {kept[r].config, NoImage}
  /\ pc[r] \in {"build", "checkLatest"} =>
       /\ Back(r) /\ ~commit[r]
       /\ fresh[r] => latest = Input[r]
  /\ pc[r] \in {"commitStock", "commitConfig", "verify"} => commit[r] /\ latest = Input[r]
  /\ pc[r] = "commitStock" => Back(r)
  /\ pc[r] \in {"commitConfig", "verify"} => stock = Input[r]
  /\ pc[r] = "verify" => config = Input[r]
  /\ pc[r] \in {"restoreConfig", "restoreLatest", "mark"} => stock = kept[r].stock
  /\ pc[r] \in {"restoreLatest", "mark"} => config = kept[r].config
  /\ pc[r] = "mark" => latest = kept[r].latest

\* Nobody but a replacement that holds the lock makes them differ.
FreePart == lock \notin Replacers /\ ~torn => Sound

HookPart == \A h \in Hooks : pc[h] = "build" => stock = seen[h]

IInv == Typed /\ FreePart /\ HookPart /\ \A r \in Replacers : Stage(r)

LEMMA InitIInv == Init => IInv
<1> SUFFICES ASSUME Init PROVE IInv
  OBVIOUS
<1> QED
  BY InitTyped, BaseAssumption DEF Init, IInv, FreePart, Sound, HookPart, Stage, KeepPcs,
     Committing, RollingBack, Procs

\* Without the lock a replacement has nothing to answer for.
LEMMA Outside ==
  ASSUME NEW r \in Replacers, pc[r] \in {"idle", "wait"}, ~child[r]
  PROVE  Stage(r)
BY DEF Stage, KeepPcs, Committing, RollingBack

LEMMA Excluded ==
  ASSUME IInv, NEW r \in Replacers, lock # r
  PROVE  pc[r] \in {"idle", "wait"} /\ ~child[r]
BY DEF IInv, Typed, TypeOK, NeedsLock, Procs, Stage

\* The holder's steps leave the others outside.
LEMMA OthersOutside ==
  ASSUME IInv, NEW r \in Replacers, NEW q \in Replacers, lock # q,
         pc'[q] = pc[q], child'[q] = child[q]
  PROVE  Stage(q)'
<1>1. pc'[q] \in {"idle", "wait"} /\ ~child'[q]
  BY Excluded
<1> QED
  BY <1>1 DEF Stage, KeepPcs, Committing, RollingBack

\* Steps that touch nothing the holder relies on.
LEMMA HolderUntouched ==
  ASSUME NEW q \in Replacers, Stage(q), UNCHANGED <<stock, config, latest, torn>>,
         pc'[q] = pc[q], child'[q] = child[q], seen'[q] = seen[q], kept'[q] = kept[q],
         fresh'[q] = fresh[q], commit'[q] = commit[q]
  PROVE  Stage(q)'
BY DEF Stage, Back, Sound

\* What a replacement's step leaves alone of the other processes.
LEMMA ReplacerFrame ==
  ASSUME Typed, NEW r \in Replacers, Begin(r) \/ Replace(r) \/ Kill(r),
         NEW q \in Procs, q # r
  PROVE  pc'[q] = pc[q] /\ seen'[q] = seen[q]
BY DEF Typed, TypeOK, Begin, Replace, Kill, Lock, Backup, Refuse, BuilderSucceeds,
   BuilderFails, BuilderEnds, Built, CheckLatest, CommitStock, CommitConfig, Complete,
   Fails, Interrupted, ToRollback, RestoreStock, RestoreConfig, RestoreLatest,
   MarkFailed, RollbackFails, Goto, Exit, Forget, local

LEMMA ReplacerFrame2 ==
  ASSUME Typed, NEW r \in Replacers, Begin(r) \/ Replace(r) \/ Kill(r),
         NEW q \in Replacers, q # r
  PROVE  child'[q] = child[q]
BY DEF Typed, TypeOK, Begin, Replace, Kill, Lock, Backup, Refuse, BuilderSucceeds,
   BuilderFails, BuilderEnds, Built, CheckLatest, CommitStock, CommitConfig, Complete,
   Fails, Interrupted, ToRollback, RestoreStock, RestoreConfig, RestoreLatest,
   MarkFailed, RollbackFails, Goto, Exit, Forget, local

\* A step of the replacement r that ends with r still, or just, holding the lock.
LEMMA ReplacerStage ==
  ASSUME IInv, Typed', NEW r \in Replacers, Begin(r) \/ Replace(r) \/ Kill(r)
  PROVE  Stage(r)' /\ FreePart'
<1> USE BaseAssumption DEF IInv, Typed, TypeOK, Procs, NeedsLock, Stage, FreePart, Sound,
        Back, KeepPcs, Committing, RollingBack, Goto, Unlock, Exit, Forget, local
<1>1. CASE Begin(r)
  BY <1>1 DEF Begin
<1>2. CASE Lock(r)
  BY <1>2 DEF Lock
<1>3. CASE Backup(r)
  BY <1>3 DEF Backup
<1>4. CASE Refuse(r)
  BY <1>4 DEF Refuse
<1>5. CASE BuilderSucceeds(r)
  BY <1>5 DEF BuilderSucceeds, BuilderEnds, Orphaned
<1>6. CASE BuilderFails(r)
  BY <1>6 DEF BuilderFails, BuilderEnds, Orphaned
<1>7. CASE Built(r)
  BY <1>7 DEF Built
<1>8. CASE CheckLatest(r)
  BY <1>8 DEF CheckLatest
<1>9. CASE CommitStock(r)
  BY <1>9 DEF CommitStock
<1>10. CASE CommitConfig(r)
  BY <1>10 DEF CommitConfig
<1>11. CASE Complete(r)
  BY <1>11 DEF Complete
<1>12. CASE Fails(r)
  BY <1>12 DEF Fails, ToRollback
<1>13. CASE Interrupted(r)
  BY <1>13 DEF Interrupted, ToRollback
<1>14. CASE RestoreStock(r)
  BY <1>14 DEF RestoreStock
<1>15. CASE RestoreConfig(r)
  BY <1>15 DEF RestoreConfig
<1>16. CASE RestoreLatest(r)
  BY <1>16 DEF RestoreLatest
<1>17. CASE MarkFailed(r)
  BY <1>17 DEF MarkFailed
<1>18. CASE RollbackFails(r)
  BY <1>18 DEF RollbackFails
<1>19. CASE Kill(r)
  <2>1. UNCHANGED <<stock, config, latest, child, status>> /\ lock = r
    BY <1>19 DEF Kill
  <2>2. torn' \/ pc[r] = "backup"
    BY <1>19 DEF Kill
  <2>3. CASE child[r]
    <3>1. pc'[r] = "dead" /\ torn'
      BY <1>19, <2>2, <2>3 DEF Kill
    <3> QED
      BY <3>1
  <2>4. CASE ~child[r]
    <3>1. pc'[r] = "idle" /\ ~child'[r]
      BY <1>19, <2>1, <2>4 DEF Kill
    <3>2. torn = FALSE /\ pc[r] = "backup" => Sound
      OBVIOUS
    <3>3. torn' \in BOOLEAN /\ torn \in BOOLEAN
      OBVIOUS
    <3>4. torn => torn'
      BY <1>19 DEF Kill
    <3> QED
      BY <2>1, <2>2, <3>1, <3>2, <3>3, <3>4
  <2> QED
    BY <2>3, <2>4
<1> QED
  BY <1>1, <1>2, <1>3, <1>4, <1>5, <1>6, <1>7, <1>8, <1>9, <1>10, <1>11, <1>12,
     <1>13, <1>14, <1>15, <1>16, <1>17, <1>18, <1>19 DEF Replace

LEMMA ReplacerStep ==
  ASSUME IInv, NEW r \in Replacers, Begin(r) \/ Replace(r) \/ Kill(r)
  PROVE  IInv'
<1>1. Typed'
  BY ReplacerTyped DEF IInv
<1>2. Stage(r)' /\ FreePart'
  BY <1>1, ReplacerStage
<1>3. CASE lock = r
  <2>1. HookPart'
    <3>1. \A h \in Hooks : pc'[h] = pc[h] /\ pc[h] # "build"
      BY <1>3, ReplacerFrame, BaseAssumption DEF IInv, Typed, TypeOK, NeedsLock, Procs
    <3> QED
      BY <3>1 DEF HookPart
  <2>2. ASSUME NEW q \in Replacers, q # r
        PROVE  Stage(q)'
    BY <1>3, <2>2, ReplacerFrame, ReplacerFrame2, OthersOutside DEF IInv, Procs
  <2> QED
    BY <1>1, <1>2, <2>1, <2>2 DEF IInv
<1>4. CASE lock # r
  <2>1. Begin(r) \/ Lock(r)
    BY <1>4 DEF IInv, Typed, TypeOK, NeedsLock, Procs, Stage, Replace, Kill, Backup,
       Refuse, BuilderSucceeds, BuilderFails, BuilderEnds, Built, CheckLatest,
       CommitStock, CommitConfig, Complete, Fails, Interrupted, RestoreStock,
       RestoreConfig, RestoreLatest, MarkFailed, RollbackFails, Committing, RollingBack
  <2>2. UNCHANGED <<stock, config, latest, torn>>
    BY <2>1 DEF Begin, Lock
  <2>3. HookPart'
    BY <2>2, ReplacerFrame, BaseAssumption DEF IInv, HookPart, Procs
  <2>4. ASSUME NEW q \in Replacers, q # r
        PROVE  kept'[q] = kept[q] /\ fresh'[q] = fresh[q] /\ commit'[q] = commit[q]
    BY <2>1, <2>4 DEF Begin, Lock, Exit, Forget, local, IInv, Typed, TypeOK
  <2>5. ASSUME NEW q \in Replacers, q # r
        PROVE  Stage(q)'
    BY <2>2, <2>4, <2>5, ReplacerFrame, ReplacerFrame2, HolderUntouched DEF IInv, Procs
  <2> QED
    BY <1>1, <1>2, <2>3, <2>5 DEF IInv
<1> QED
  BY <1>3, <1>4

LEMMA HookStep ==
  ASSUME IInv, NEW h \in Hooks, HookBegin(h) \/ Hook(h)
  PROVE  IInv'
<1>1. Typed'
  BY OtherTyped DEF IInv
<1>2. UNCHANGED <<stock, config, torn>>
  BY DEF HookBegin, Hook, HookLock, HookSucceeds, HookFails
<1>3. /\ \A q \in Procs : q # h => pc'[q] = pc[q] /\ seen'[q] = seen[q]
      /\ pc'[h] = "build" => stock = seen[h] /\ seen'[h] = seen[h]
  BY DEF HookBegin, Hook, HookLock, HookSucceeds, HookFails, Goto, Exit, Forget, local,
     IInv, Typed, TypeOK, Procs
<1>4. HookPart'
  BY <1>2, <1>3 DEF HookPart, IInv, Procs
<1>5. \A q \in Replacers : /\ kept'[q] = kept[q] /\ fresh'[q] = fresh[q]
                           /\ commit'[q] = commit[q] /\ child'[q] = child[q]
  BY BaseAssumption DEF HookBegin, Hook, HookLock, HookSucceeds, HookFails, Exit, Forget,
     local, IInv, Typed, TypeOK
<1>6. FreePart' /\ (latest' = latest \/ lock = h)
  BY <1>2, BaseAssumption DEF HookBegin, Hook, HookLock, HookSucceeds, HookFails, Unlock,
     FreePart, Sound, IInv, Typed, TypeOK, NeedsLock, Procs
<1>7. ASSUME NEW q \in Replacers
      PROVE  Stage(q)'
  <2>1. pc'[q] = pc[q] /\ seen'[q] = seen[q]
    BY <1>3, BaseAssumption DEF Procs
  <2>2. CASE latest' = latest
    BY <2>1, <2>2, <1>2, <1>5, HolderUntouched DEF IInv
  <2>3. CASE lock = h
    BY <2>1, <2>3, <1>5, OthersOutside, BaseAssumption
  <2> QED
    BY <2>2, <2>3, <1>6
<1> QED
  BY <1>1, <1>4, <1>6, <1>7 DEF IInv

LEMMA StepIInv ==
  ASSUME IInv, [Next]_vars
  PROVE  IInv'
<1>1. CASE \E r \in Replacers : Begin(r) \/ Replace(r) \/ Kill(r)
  BY <1>1, ReplacerStep
<1>2. CASE \E h \in Hooks : HookBegin(h) \/ Hook(h)
  BY <1>2, HookStep
<1>3. CASE PowerLoss
  <2>1. Typed'
    BY <1>3, OtherTyped DEF IInv
  <2>2. \A p \in Procs : pc'[p] = "idle"
    BY <1>3 DEF PowerLoss
  <2>3. \A r \in Replacers : Stage(r)'
    BY <1>3, <2>2 DEF PowerLoss, Stage, KeepPcs, Committing, RollingBack, Procs
  <2>4. HookPart'
    BY <2>2 DEF HookPart, Procs
  <2>5. FreePart'
    <3>1. UNCHANGED <<stock, config, latest>>
      BY <1>3 DEF PowerLoss
    <3>2. torn' \/ (~torn /\ \A r \in Replacers : pc[r] \in {"idle", "wait", "backup"})
      BY <1>3 DEF PowerLoss
    <3>3. CASE lock \in Replacers
      BY <3>1, <3>2, <3>3 DEF IInv, FreePart, Sound, Stage, Typed, TypeOK, NeedsLock, Procs
    <3>4. CASE lock \notin Replacers
      BY <3>1, <3>2, <3>4 DEF IInv, FreePart, Sound
    <3> QED
      BY <3>3, <3>4
  <2> QED
    BY <2>1, <2>3, <2>4, <2>5 DEF IInv
<1>4. CASE UNCHANGED vars
  <2>1. Typed'
    BY <1>4, OtherTyped DEF IInv
  <2> QED
    BY <2>1, <1>4 DEF vars, IInv, FreePart, Sound, HookPart, Stage, Back
<1> QED
  BY <1>1, <1>2, <1>3, <1>4 DEF Next

THEOREM Invariance == Spec => []IInv
  BY InitIInv, StepIInv, PTL DEF Spec
-----------------------------------------------------------------------------
\* The lock has one holder, and every variable its range.
THEOREM TypeCorrect == Spec => []TypeOK
<1>1. IInv => TypeOK
  BY DEF IInv, Typed
<1> QED
  BY <1>1, Invariance, PTL

\* While the lock is free the base file has the digest config.json names, unless
\* a replacement was killed in the middle or could not roll back.
THEOREM ConfigMatches == Spec => []ConfigMatchesBase
<1>1. IInv => ConfigMatchesBase
  BY BaseAssumption DEF IInv, FreePart, Sound, ConfigMatchesBase
<1> QED
  BY <1>1, Invariance, PTL

\* And latest.json never points to a candidate of another base.
THEOREM LatestMatches == Spec => []LatestMatchesBase
<1>1. IInv => LatestMatchesBase
  BY BaseAssumption DEF IInv, FreePart, Sound, LatestMatchesBase
<1> QED
  BY <1>1, Invariance, PTL

\* "failed_original_restored" is written only when the builder is gone and the
\* base, the configuration and the latest pointer are what was found.
THEOREM OriginalRestored == Spec => FailedMeansOriginal
<1>1. IInv /\ [Next]_vars => [\A r \in Replacers : OriginalBack(r)]_vars
  <2> SUFFICES ASSUME IInv, [Next]_vars, NEW r \in Replacers,
                      status[r] # "restored", status'[r] = "restored"
               PROVE  ~child'[r] /\ [stock |-> stock', config |-> config',
                                     latest |-> latest'] = kept[r]
    BY DEF OriginalBack
  <2>1. MarkFailed(r)
    BY DEF IInv, Typed, TypeOK, Next, vars, PowerLoss, HookBegin, Hook, HookLock,
       HookSucceeds, HookFails, Begin, Replace, Kill, Lock, Backup, Refuse,
       BuilderSucceeds, BuilderFails, BuilderEnds, Built, CheckLatest, CommitStock,
       CommitConfig, Complete, Fails, Interrupted, RestoreStock, RestoreConfig,
       RestoreLatest, MarkFailed, RollbackFails
  <2>2. pc[r] = "mark" /\ UNCHANGED <<stock, config, latest, child>>
    BY <2>1 DEF MarkFailed
  <2>3. stock = kept[r].stock /\ config = kept[r].config /\ latest = kept[r].latest
        /\ ~child[r]
    BY <2>2 DEF IInv, Stage
  <2> QED
    BY <2>2, <2>3 DEF IInv, Typed, TypeOK
<1> QED
  BY <1>1, Invariance, PTL DEF Spec, FailedMeansOriginal

\* A kernel update builds from the base that the configuration it read names.
THEOREM BuildsConfigured == Spec => HookBuildsConfiguredBase
<1> DEFINE Right(h) == /\ latest' = seen[h] /\ stock = seen[h]
                       /\ ~torn => config = seen[h]
<1>1. IInv /\ [Next]_vars => [\A h \in Hooks : HookBuilt(h) => Right(h)]_vars
  <2> SUFFICES ASSUME IInv, [Next]_vars, NEW h \in Hooks, HookBuilt(h)
               PROVE  Right(h)
    OBVIOUS
  <2>1. pc[h] = "build" /\ lock = h
    BY DEF HookBuilt, IInv, Typed, TypeOK, NeedsLock, Procs
  <2>2. stock = seen[h] /\ (~torn => config = seen[h])
    BY <2>1, BaseAssumption DEF IInv, HookPart, FreePart, Sound
  <2>3. HookSucceeds(h)
    <3>1. CASE \E r \in Replacers : Begin(r) \/ Replace(r) \/ Kill(r)
      BY <3>1, <2>1, ReplacerFrame, BaseAssumption DEF HookBuilt, IInv, Procs
    <3>2. CASE PowerLoss \/ UNCHANGED vars
      BY <3>2 DEF PowerLoss, vars, HookBuilt
    <3>3. ASSUME NEW g \in Hooks, HookBegin(g) \/ Hook(g) PROVE HookSucceeds(h)
      BY <3>3, <2>1 DEF HookBuilt, HookBegin, Hook, HookLock, HookSucceeds, HookFails,
         IInv, Typed, TypeOK, NeedsLock, Procs
    <3> QED
      BY <3>1, <3>2, <3>3 DEF Next
  <2> QED
    BY <2>2, <2>3 DEF HookSucceeds
<1> QED
  BY <1>1, Invariance, PTL DEF Spec, HookBuildsConfiguredBase
=============================================================================
