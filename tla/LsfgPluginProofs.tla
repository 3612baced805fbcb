--------------------------- MODULE LsfgPluginProofs ---------------------------
(***************************************************************************)
(* What the frame generation plugin guarantees for any games, apps and     *)
(* branches and any number of failures, crashes and changes by others:     *)
(* between the methods the wrapper is the one its state describes, and     *)
(* what the plugin put in place is taken down in an order that never       *)
(* leaves behind what it could not find again.                             *)
(***************************************************************************)
EXTENDS LsfgPlugin, FiniteSetTheorems, SequenceTheorems, TLAPS

\* The states of the workarounds, and what the two files may be.
Docs == [Games -> {"none"} \union States]
Sidecars == [is : {"absent", "old", "new"}, apps : Docs]
Wrappers == [is : {"absent", "foreign", "ours"}, apps : Docs]

\* The steps: those that a method may undo, those that undo them, and all.
Things == Apps \union Branches
            \union {"apps", "branches", "plugin", "all", "conf", "layer", "cli",
                    "legacy", "write", "new", "old", "purge", "pass"}
Undoing == ({"reset", "forget"} \X Apps) \union ({"unprofile"} \X Things)
Acting  == {"extension", "install", "own", "reset", "prepare", "record", "apply",
            "store", "profile", "put", "config", "adreno"} \X Things
OfApps     == {"reset", "forget"} \X Apps
OfBranches == {"remove", "disown"} \X Branches
Steps == ({"gate", "remove", "disown", "sidecar", "wrapper", "erase", "gone", "forget",
           "unprofile"} \X Things) \union Acting

Adr      == <<"adreno", "conf">>
SideNew  == <<"sidecar", "new">>
SideOld  == <<"sidecar", "old">>
SidePurge == <<"sidecar", "purge">>
WrapNew  == <<"wrapper", "new">>
WrapOld  == <<"wrapper", "old">>
WrapAs(w) == <<"wrapper", w>>
GateA    == <<"gate", "apps">>
GateB    == <<"gate", "branches">>
AllOut   == <<"unprofile", "all">>
Layer    == <<"erase", "layer">>
Cli      == <<"erase", "cli">>
ConfOut  == <<"erase", "conf">>
Leave    == <<"gone", "plugin">>

Ops == [todo : Seq(Steps), undo : Seq(Steps), doc : Docs, back : Sidecars \X Wrappers,
        ws : {"none"} \union States, failed : BOOLEAN]

TypePart ==
  /\ prepared = [a \in Apps |-> prepared[a]] /\ override = [a \in Apps |-> override[a]]
  /\ owned \subseteq Branches
  /\ sidecar \in Sidecars /\ wrapper \in Wrappers /\ op \in Ops
-----------------------------------------------------------------------------
(* Where a method stands.                                                  *)

Settled == torn \/ Follows(sidecar, wrapper)
BackAgrees == torn \/ Follows(op.back[1], op.back[2])

\* An app is forgotten right after its override was reset.
ForgetsReset(todo) ==
  \A i \in DOMAIN todo : todo[i][1] = "forget" =>
    i > 1 /\ todo[i - 1] = <<"reset", todo[i][2]>>
ForgetsReset1(todo, ov) ==
  \A i \in DOMAIN todo : todo[i][1] = "forget" =>
    IF i = 1 THEN ov[todo[1][2]] = "none" ELSE todo[i - 1] = <<"reset", todo[i][2]>>

\* A method that changes neither of the two files, and one that is undone.
InMethod ==
  /\ op.todo \in Seq(Acting) /\ op.undo \in Seq(Undoing)
  /\ ForgetsReset(op.undo) /\ Settled
InUndoing ==
  /\ op.todo \in Seq(Undoing) /\ op.undo = <<>>
  /\ ForgetsReset1(op.todo, override) /\ Settled

\* The wrapper is written again, or both are written.
InRepair ==
  /\ op.todo \in {<<Adr, WrapNew>>, <<WrapNew>>} /\ op.undo = <<>>
  /\ op.doc = Document
InPair ==
  /\ op.todo \in {<<Adr, SideNew, WrapNew>>, <<SideNew, WrapNew>>}
  /\ op.undo = <<SideOld, WrapOld>> /\ op.back = <<sidecar, wrapper>>
InHalf ==
  /\ op.todo = <<WrapNew>> /\ op.undo = <<SideOld, WrapOld>>
  /\ sidecar = [is |-> "new", apps |-> op.doc] /\ wrapper = op.back[2]
InRestore ==
  /\ op.todo = <<SideOld, WrapOld>> /\ op.undo = <<>>
  /\ wrapper = op.back[2] /\ BackAgrees
InRestored ==
  /\ op.todo = <<WrapOld>> /\ op.undo = <<>>
  /\ sidecar = op.back[1] /\ wrapper = op.back[2] /\ BackAgrees

\* Two steps for each thing, one thing after the other.
Pairs(p, first, second) ==
  \A i \in DOMAIN p :
    /\ p[i][1] = first => i + 1 \in DOMAIN p /\ p[i + 1] = <<second, p[i][2]>>
    /\ p[i][1] = second /\ i + 1 \in DOMAIN p =>
         p[i + 1][1] = first /\ p[i + 1][2] # p[i][2]

\* Cleaning up, of which the end is left.
EraseEnd(u) == <<Layer, Cli, ConfOut>> \o u
SideEnd(u)  == <<SidePurge>> \o EraseEnd(u)
WrapEnd(w, u) == <<WrapAs(w)>> \o SideEnd(u)
AllEnd(w, u) == <<AllOut>> \o WrapEnd(w, u)
BranchEnd(q, w, u) == q \o (<<GateB>> \o AllEnd(w, u))
AppEnd(p, q, w, u) == p \o (<<GateA>> \o BranchEnd(q, w, u))

NoApps == \A a \in Apps : prepared[a] = "no"
NoProfiles == \A a \in Apps : profiles[a] = "none"
Pends(x, p) == \E i \in DOMAIN p : p[i] = x

Ends == {<<>>, <<Leave>>}

CleansApps(p, q, w) ==
  /\ op.todo = AppEnd(p, q, w, op.undo) /\ Settled
  /\ Pairs(p, "reset", "forget") /\ Pairs(q, "remove", "disown")
  /\ p # <<>> /\ p[1][1] = "forget" => override[p[1][2]] = "none"
  /\ \A a \in Apps : prepared[a] # "no" => op.failed \/ Pends(<<"forget", a>>, p)
  /\ \A b \in owned : Pends(<<"disown", b>>, q)
CleansBranches(q, w) ==
  /\ op.todo = BranchEnd(q, w, op.undo) /\ Settled
  /\ Pairs(q, "remove", "disown") /\ NoApps
  /\ \A b \in owned : op.failed \/ Pends(<<"disown", b>>, q)
CleansProfiles(w) == op.todo = AllEnd(w, op.undo) /\ NoApps /\ owned = {} /\ Settled
CleansWrapper(w) ==
  op.todo = WrapEnd(w, op.undo) /\ NoApps /\ owned = {} /\ NoProfiles /\ Settled
CleansSidecar == op.todo = SideEnd(op.undo) /\ NoApps /\ owned = {} /\ NoProfiles
CleansFiles ==
  /\ op.todo \in {EraseEnd(op.undo), <<Cli, ConfOut>> \o op.undo, <<ConfOut>> \o op.undo}
  /\ NoApps /\ owned = {} /\ NoProfiles /\ sidecar.is = "absent" /\ Settled

InCleanup ==
  /\ op.undo \in Ends
  /\ \/ \E w \in {"purge", "pass"} :
          \/ \E p \in Seq(OfApps), q \in Seq(OfBranches) : CleansApps(p, q, w)
          \/ \E q \in Seq(OfBranches) : CleansBranches(q, w)
          \/ CleansProfiles(w) \/ CleansWrapper(w)
     \/ CleansSidecar \/ CleansFiles
IsLeaving == op.todo = <<Leave>> /\ op.undo \in Ends

PlanPart ==
  IF loaded
  THEN \/ InMethod \/ InUndoing \/ InRepair \/ InPair \/ InHalf \/ InRestore \/ InRestored
       \/ InCleanup \/ IsLeaving
  ELSE op = Idle

IInv == TypePart /\ PlanPart
-----------------------------------------------------------------------------
(* Sequences.                                                              *)

LEMMA ConsIs ==
  ASSUME NEW S, NEW x \in S, NEW s \in Seq(S)
  PROVE  /\ <<x>> \o s \in Seq(S) /\ <<x>> \o s # <<>>
         /\ Head(<<x>> \o s) = x /\ Tail(<<x>> \o s) = s
<1>1. <<x>> \in Seq(S) /\ Len(<<x>>) = 1 /\ <<x>>[1] = x
  OBVIOUS
<1>2. /\ <<x>> \o s \in Seq(S) /\ Len(<<x>> \o s) = 1 + Len(s)
      /\ \A i \in 1 .. 1 + Len(s) :
           (<<x>> \o s)[i] = IF i <= 1 THEN <<x>>[i] ELSE s[i - 1]
  BY <1>1, ConcatProperties
<1>3. Len(s) \in Nat
  OBVIOUS
<1>4. <<x>> \o s # <<>> /\ (<<x>> \o s)[1] = x
  BY <1>1, <1>2, <1>3, EmptySeq
<1>5. /\ Head(<<x>> \o s) = x
      /\ Tail(<<x>> \o s) \in Seq(S) /\ Len(Tail(<<x>> \o s)) = Len(s)
      /\ \A i \in 1 .. Len(s) : Tail(<<x>> \o s)[i] = s[i]
  <2> DEFINE t == <<x>> \o s
  <2>1. t \in Seq(S) /\ t # <<>> /\ Len(t) = 1 + Len(s)
        /\ \A i \in 1 .. 1 + Len(s) : t[i] = IF i <= 1 THEN x ELSE s[i - 1]
    BY <1>1, <1>2, <1>4
  <2> HIDE DEF t
  <2>2. Head(t) = t[1]
    BY <2>1
  <2>3. /\ Tail(t) \in Seq(S) /\ Len(Tail(t)) = Len(t) - 1
        /\ \A i \in 1 .. Len(Tail(t)) : Tail(t)[i] = t[i + 1]
    BY <2>1, HeadTailProperties
  <2>4. \A i \in 1 .. Len(s) : Tail(t)[i] = s[i]
    BY <1>3, <2>1, <2>3
  <2> QED
    BY <1>3, <2>1, <2>2, <2>3, <2>4 DEF t
<1>6. Tail(<<x>> \o s) = s
  BY <1>5, SeqEqual
<1> QED
  BY <1>2, <1>4, <1>5, <1>6

LEMMA PrefixIs ==
  ASSUME NEW S, NEW p \in Seq(S), NEW s \in Seq(S), p # <<>>
  PROVE  /\ p \o s \in Seq(S) /\ p \o s # <<>>
         /\ Head(p \o s) = p[1] /\ p[1] \in S
         /\ Tail(p \o s) = Tail(p) \o s /\ Tail(p) \in Seq(S)
<1>1. p = <<p[1]>> \o Tail(p) /\ p[1] \in S /\ Tail(p) \in Seq(S)
  <2>1. p[1] \in S /\ Tail(p) \in Seq(S) /\ Len(Tail(p)) = Len(p) - 1 /\ Len(p) \in Nat \ {0}
        /\ \A i \in 1 .. Len(Tail(p)) : Tail(p)[i] = p[i + 1]
    BY HeadTailProperties, EmptySeq, ElementOfSeq
  <2> DEFINE x == p[1]  t == Tail(p)
  <2> HIDE DEF x, t
  <2>2. <<x>> \in Seq(S) /\ Len(<<x>>) = 1 /\ <<x>>[1] = x
    BY <2>1 DEF x
  <2>3. /\ <<x>> \o t \in Seq(S) /\ Len(<<x>> \o t) = 1 + Len(t)
        /\ \A i \in 1 .. 1 + Len(t) :
             (<<x>> \o t)[i] = IF i <= 1 THEN <<x>>[i] ELSE t[i - 1]
    BY <2>1, <2>2, ConcatProperties DEF t
  <2>4. Len(<<x>> \o t) = Len(p) /\ \A i \in 1 .. Len(p) : p[i] = (<<x>> \o t)[i]
    BY <2>1, <2>2, <2>3 DEF x, t
  <2>5. p = <<x>> \o t
    BY <2>3, <2>4, SeqEqual
  <2> QED
    BY <2>1, <2>5 DEF x, t
<1>2. <<p[1]>> \in Seq(S)
  BY <1>1
<1>3. p \o s = <<p[1]>> \o (Tail(p) \o s) /\ Tail(p) \o s \in Seq(S)
  BY <1>1, <1>2, ConcatAssociative, ConcatProperties
<1> QED
  BY <1>1, <1>3, ConsIs

LEMMA NotIn ==
  ASSUME NEW S, NEW s \in Seq(S), NEW x, x \notin S
  PROVE  ~Contains(s, x)
<1>1. \A i \in 1 .. Len(s) : s[i] \in S
  BY ElementOfSeq
<1> QED
  BY <1>1 DEF Contains

LEMMA IsIn ==
  ASSUME NEW S, NEW p \in Seq(S), NEW x \in S, NEW s \in Seq(S)
  PROVE  Contains(p \o (<<x>> \o s), x)
<1>1. <<x>> \o s \in Seq(S) /\ <<x>> \o s # <<>> /\ Head(<<x>> \o s) = x
  BY ConsIs
<1> DEFINE t == <<x>> \o s
<1> HIDE DEF t
<1>2. t \in Seq(S) /\ Len(t) \in Nat \ {0} /\ t[1] = x
  BY <1>1, EmptySeq DEF t
<1>3. /\ Len(p \o t) = Len(p) + Len(t)
      /\ \A i \in 1 .. Len(p) + Len(t) :
           (p \o t)[i] = IF i <= Len(p) THEN p[i] ELSE t[i - Len(p)]
  BY <1>2, ConcatProperties
<1>4. Len(p) + 1 \in 1 .. Len(p \o t) /\ (p \o t)[Len(p) + 1] = x
  BY <1>2, <1>3
<1> QED
  BY <1>4 DEF Contains, t
-----------------------------------------------------------------------------
(* Plans.                                                                  *)

Late == {"unprofile", "wrapper", "sidecar", "erase", "gone"} \X Things

LEMMA StepSets ==
  /\ Late \subseteq Steps /\ Acting \subseteq Steps /\ Undoing \subseteq Steps
  /\ OfApps \subseteq Steps /\ OfBranches \subseteq Steps
  /\ GateA \in Steps /\ GateB \in Steps /\ GateB \notin Late
  /\ GateB \notin Acting /\ GateB \notin Undoing
  /\ \A w \in {"purge", "pass"} : WrapAs(w) \in Late
  /\ {AllOut, SidePurge, Layer, Cli, ConfOut, Leave} \subseteq Late
  /\ {Adr, SideNew, SideOld, WrapNew, WrapOld} \subseteq Steps
BY DEF Late, Acting, Undoing, OfApps, OfBranches, Steps, Things, GateA, GateB, WrapAs,
       AllOut, SidePurge, Layer, Cli, ConfOut, Leave, Adr, SideNew, SideOld, WrapNew,
       WrapOld

LEMMA EndSeq ==
  ASSUME NEW u \in Ends
  PROVE  u \in Seq(Late) /\ u \in Seq(Steps)
<1>1. <<Leave>> \in Seq(Late) /\ <<>> \in Seq(Late)
  BY StepSets
<1>2. <<Leave>> \in Seq(Steps) /\ <<>> \in Seq(Steps)
  BY <1>1, StepSets, SeqMonotonic
<1> QED
  BY <1>1, <1>2 DEF Ends

LEMMA TwoSteps ==
  ASSUME NEW x, NEW y
  PROVE  <<x, y>> = <<x>> \o <<y>>
<1> DEFINE S == {x, y}  s == <<x>>  t == <<y>>  r == <<x, y>>
<1>1. /\ s \in Seq(S) /\ Len(s) = 1 /\ s[1] = x
      /\ t \in Seq(S) /\ Len(t) = 1 /\ t[1] = y
      /\ r \in Seq(S) /\ Len(r) = 2 /\ r[1] = x /\ r[2] = y
  OBVIOUS
<1> HIDE DEF S, s, t, r
<1>2. /\ s \o t \in Seq(S) /\ Len(s \o t) = Len(s) + Len(t)
      /\ \A i \in 1 .. Len(s) + Len(t) :
           (s \o t)[i] = IF i <= Len(s) THEN s[i] ELSE t[i - Len(s)]
  BY <1>1, ConcatProperties
<1>3. r = s \o t
  BY <1>1, <1>2, SeqEqual
<1> QED
  BY <1>3 DEF s, t, r

LEMMA Flat ==
  ASSUME NEW u \in Seq(Late)
  PROVE  /\ <<Cli, ConfOut>> \o u = <<Cli>> \o (<<ConfOut>> \o u)
         /\ EraseEnd(u) = <<Layer>> \o (<<Cli, ConfOut>> \o u)
<1>1. /\ <<Layer>> \in Seq(Late) /\ <<Cli>> \in Seq(Late) /\ <<ConfOut>> \in Seq(Late)
      /\ <<Cli, ConfOut>> \in Seq(Late)
  BY StepSets
<1>2. <<Cli, ConfOut>> = <<Cli>> \o <<ConfOut>>
  BY TwoSteps
<1>3. <<Layer, Cli, ConfOut>> = <<Layer>> \o <<Cli, ConfOut>>
  OBVIOUS
<1>4. (<<Cli>> \o <<ConfOut>>) \o u = <<Cli>> \o (<<ConfOut>> \o u)
  BY <1>1, ConcatAssociative
<1>5. (<<Layer>> \o <<Cli, ConfOut>>) \o u = <<Layer>> \o (<<Cli, ConfOut>> \o u)
  BY <1>1, ConcatAssociative
<1> QED
  BY <1>2, <1>3, <1>4, <1>5 DEF EraseEnd

LEMMA EndPlans ==
  ASSUME NEW u \in Ends, NEW w \in {"purge", "pass"}
  PROVE  /\ <<ConfOut>> \o u \in Seq(Late) /\ <<Cli, ConfOut>> \o u \in Seq(Late)
         /\ EraseEnd(u) \in Seq(Late) /\ SideEnd(u) \in Seq(Late)
         /\ WrapEnd(w, u) \in Seq(Late) /\ AllEnd(w, u) \in Seq(Late)
<1> USE StepSets, ConsIs
<1>1. u \in Seq(Late)
  BY EndSeq
<1>2. <<ConfOut>> \o u \in Seq(Late)
  BY <1>1
<1>8. Layer \in Late /\ Cli \in Late
  BY StepSets
<1>3. <<Cli, ConfOut>> \o u \in Seq(Late)
  <2>1. <<Cli, ConfOut>> \o u = <<Cli>> \o (<<ConfOut>> \o u)
    BY <1>1, Flat
  <2> QED
    BY <1>2, <1>8, <2>1
<1>4. EraseEnd(u) \in Seq(Late)
  <2>1. EraseEnd(u) = <<Layer>> \o (<<Cli, ConfOut>> \o u)
    BY <1>1, Flat
  <2> QED
    BY <1>3, <1>8, <2>1
<1>5. SideEnd(u) \in Seq(Late)
  BY <1>4 DEF SideEnd
<1>6. WrapEnd(w, u) \in Seq(Late)
  BY <1>5 DEF WrapEnd
<1>7. AllEnd(w, u) \in Seq(Late)
  BY <1>6 DEF AllEnd
<1> QED
  BY <1>2, <1>3, <1>4, <1>5, <1>6, <1>7

\* What is left after the first step of each of them.
LEMMA EndTails ==
  ASSUME NEW u \in Ends, NEW w \in {"purge", "pass"}
  PROVE  /\ \A t \in {AllEnd(w, u), WrapEnd(w, u), SideEnd(u), EraseEnd(u),
                       <<Cli, ConfOut>> \o u, <<ConfOut>> \o u} : t # <<>>
         /\ Head(AllEnd(w, u)) = AllOut /\ Tail(AllEnd(w, u)) = WrapEnd(w, u)
         /\ Head(WrapEnd(w, u)) = WrapAs(w) /\ Tail(WrapEnd(w, u)) = SideEnd(u)
         /\ Head(SideEnd(u)) = SidePurge /\ Tail(SideEnd(u)) = EraseEnd(u)
         /\ Head(EraseEnd(u)) = Layer /\ Tail(EraseEnd(u)) = <<Cli, ConfOut>> \o u
         /\ Head(<<Cli, ConfOut>> \o u) = Cli
         /\ Tail(<<Cli, ConfOut>> \o u) = <<ConfOut>> \o u
         /\ Head(<<ConfOut>> \o u) = ConfOut /\ Tail(<<ConfOut>> \o u) = u
<1> USE ConsIs
<1>1. /\ u \in Seq(Late) /\ <<ConfOut>> \o u \in Seq(Late)
      /\ <<Cli, ConfOut>> \o u \in Seq(Late) /\ EraseEnd(u) \in Seq(Late)
      /\ SideEnd(u) \in Seq(Late) /\ WrapEnd(w, u) \in Seq(Late)
  BY EndSeq, EndPlans
<1>8. /\ Layer \in Late /\ Cli \in Late /\ ConfOut \in Late
      /\ AllOut \in Late /\ SidePurge \in Late /\ WrapAs(w) \in Late
  BY StepSets
<1>9. /\ <<Cli, ConfOut>> \o u = <<Cli>> \o (<<ConfOut>> \o u)
      /\ EraseEnd(u) = <<Layer>> \o (<<Cli, ConfOut>> \o u)
  BY <1>1, Flat
<1>2. /\ AllEnd(w, u) # <<>>
      /\ Head(AllEnd(w, u)) = AllOut /\ Tail(AllEnd(w, u)) = WrapEnd(w, u)
  BY <1>1, <1>8 DEF AllEnd
<1>3. /\ WrapEnd(w, u) # <<>>
      /\ Head(WrapEnd(w, u)) = WrapAs(w) /\ Tail(WrapEnd(w, u)) = SideEnd(u)
  BY <1>1, <1>8 DEF WrapEnd
<1>4. /\ SideEnd(u) # <<>>
      /\ Head(SideEnd(u)) = SidePurge /\ Tail(SideEnd(u)) = EraseEnd(u)
  BY <1>1, <1>8 DEF SideEnd
<1>5. /\ EraseEnd(u) # <<>>
      /\ Head(EraseEnd(u)) = Layer /\ Tail(EraseEnd(u)) = <<Cli, ConfOut>> \o u
  BY <1>1, <1>8, <1>9
<1>6. /\ <<Cli, ConfOut>> \o u # <<>>
      /\ Head(<<Cli, ConfOut>> \o u) = Cli
      /\ Tail(<<Cli, ConfOut>> \o u) = <<ConfOut>> \o u
  BY <1>1, <1>8, <1>9
<1>7. /\ <<ConfOut>> \o u # <<>>
      /\ Head(<<ConfOut>> \o u) = ConfOut /\ Tail(<<ConfOut>> \o u) = u
  BY <1>1, <1>8
<1> QED
  BY <1>2, <1>3, <1>4, <1>5, <1>6, <1>7

LEMMA CleanPlans ==
  ASSUME NEW u \in Ends, NEW w \in {"purge", "pass"},
         NEW p \in Seq(OfApps), NEW q \in Seq(OfBranches)
  PROVE  /\ p \in Seq(Steps) /\ q \in Seq(Steps) /\ AllEnd(w, u) \in Seq(Steps)
         /\ <<GateB>> \o AllEnd(w, u) \in Seq(Steps)
         /\ BranchEnd(q, w, u) \in Seq(Steps)
         /\ <<GateA>> \o BranchEnd(q, w, u) \in Seq(Steps)
         /\ AppEnd(p, q, w, u) \in Seq(Steps)
         /\ Contains(AppEnd(p, q, w, u), GateB) /\ Contains(BranchEnd(q, w, u), GateB)
<1>1. p \in Seq(Steps) /\ q \in Seq(Steps) /\ AllEnd(w, u) \in Seq(Steps)
  BY EndPlans, StepSets, SeqMonotonic
<1>2. <<GateB>> \o AllEnd(w, u) \in Seq(Steps)
  BY <1>1, StepSets, ConsIs
<1>3. BranchEnd(q, w, u) \in Seq(Steps)
  BY <1>1, <1>2, ConcatProperties DEF BranchEnd
<1>4. <<GateA>> \o BranchEnd(q, w, u) \in Seq(Steps)
  BY <1>3, StepSets, ConsIs
<1>5. AppEnd(p, q, w, u) \in Seq(Steps)
  BY <1>1, <1>4, ConcatProperties DEF AppEnd
<1>6. Contains(BranchEnd(q, w, u), GateB)
  BY <1>1, StepSets, IsIn DEF BranchEnd
<1>7. Contains(AppEnd(p, q, w, u), GateB)
  <2> DEFINE r == p \o (<<GateA>> \o q)
  <2>1. <<GateA>> \in Seq(Steps) /\ <<GateA>> \o q \in Seq(Steps) /\ r \in Seq(Steps)
    BY <1>1, StepSets, ConcatProperties
  <2>2. AppEnd(p, q, w, u) = r \o (<<GateB>> \o AllEnd(w, u))
    BY <1>1, <1>2, <1>3, <2>1, ConcatAssociative DEF AppEnd, BranchEnd
  <2> QED
    BY <1>1, <2>1, <2>2, StepSets, IsIn
<1> QED
  BY <1>1, <1>2, <1>3, <1>4, <1>5, <1>6, <1>7

LEMMA TailIs ==
  ASSUME NEW S, NEW p \in Seq(S), p # <<>>
  PROVE  /\ Tail(p) \in Seq(S) /\ 1 \in DOMAIN p /\ Head(p) = p[1] /\ p[1] \in S
         /\ DOMAIN Tail(p) \subseteq Nat \ {0}
         /\ \A i \in Nat \ {0} : i \in DOMAIN Tail(p) <=> i + 1 \in DOMAIN p
         /\ \A i \in DOMAIN Tail(p) : Tail(p)[i] = p[i + 1]
         /\ Tail(p) # <<>> => 1 \in DOMAIN Tail(p) /\ 2 \in DOMAIN p
<1>1. /\ Tail(p) \in Seq(S) /\ Len(Tail(p)) = Len(p) - 1 /\ Len(p) \in Nat \ {0}
      /\ \A i \in 1 .. Len(Tail(p)) : Tail(p)[i] = p[i + 1]
  BY HeadTailProperties, EmptySeq
<1>2. DOMAIN p = 1 .. Len(p) /\ p[1] \in S
  BY <1>1, LenProperties, ElementOfSeq
<1> DEFINE t == Tail(p)
<1>3. DOMAIN t = 1 .. Len(t) /\ (t # <<>> => Len(t) \in Nat \ {0})
  BY <1>1, LenProperties, EmptySeq
<1>4. Head(p) = p[1]
  OBVIOUS
<1> HIDE DEF t
<1> QED
  BY <1>1, <1>2, <1>3, <1>4 DEF t

LEMMA PairsTail ==
  ASSUME NEW S, NEW p \in Seq(S), p # <<>>, NEW first, NEW second, first # second,
         Pairs(p, first, second)
  PROVE  /\ Pairs(Tail(p), first, second)
         /\ p[1][1] = first => Tail(p) # <<>> /\ Tail(p)[1] = <<second, p[1][2]>>
         /\ p[1][1] = second /\ Tail(p) # <<>> =>
              Tail(p)[1][1] = first /\ Tail(p)[1][2] # p[1][2]
<1> DEFINE t == Tail(p)
<1>1. /\ 1 \in DOMAIN p /\ DOMAIN t \subseteq Nat \ {0}
      /\ \A i \in Nat \ {0} : i \in DOMAIN t <=> i + 1 \in DOMAIN p
      /\ \A i \in DOMAIN t : t[i] = p[i + 1]
      /\ t # <<>> => 1 \in DOMAIN t
  BY TailIs
<1>2. DOMAIN <<>> = {}
  OBVIOUS
<1> HIDE DEF t
<1>3. Pairs(t, first, second)
  <2> SUFFICES ASSUME NEW i \in DOMAIN t
               PROVE  /\ t[i][1] = first => i + 1 \in DOMAIN t /\ t[i + 1] = <<second, t[i][2]>>
                      /\ t[i][1] = second /\ i + 1 \in DOMAIN t =>
                           t[i + 1][1] = first /\ t[i + 1][2] # t[i][2]
    BY DEF Pairs
  <2>1. PICK k \in Nat \ {0} : k = i + 1
    BY <1>1
  <2>2. k \in DOMAIN p /\ t[i] = p[k]
    BY <1>1, <2>1
  <2>3. /\ k \in DOMAIN t <=> k + 1 \in DOMAIN p
        /\ k \in DOMAIN t => t[k] = p[k + 1]
    BY <1>1
  <2>4. /\ p[k][1] = first => k + 1 \in DOMAIN p /\ p[k + 1] = <<second, p[k][2]>>
        /\ p[k][1] = second /\ k + 1 \in DOMAIN p =>
             p[k + 1][1] = first /\ p[k + 1][2] # p[k][2]
    BY <2>2 DEF Pairs
  <2>5. t[i][1] = first => k \in DOMAIN t /\ t[k] = <<second, t[i][2]>>
    BY <2>2, <2>3, <2>4
  <2>6. t[i][1] = second /\ k \in DOMAIN t => t[k][1] = first /\ t[k][2] # t[i][2]
    BY <2>2, <2>3, <2>4
  <2> QED
    BY <2>1, <2>5, <2>6, Zenon
<1>6. 1 + 1 = 2 /\ 1 \in Nat \ {0}
  OBVIOUS
<1>7. /\ p[1][1] = first => 2 \in DOMAIN p /\ p[2] = <<second, p[1][2]>>
      /\ p[1][1] = second /\ 2 \in DOMAIN p =>
           p[2][1] = first /\ p[2][2] # p[1][2]
  BY <1>1, <1>6 DEF Pairs
<1>8. (1 \in DOMAIN t <=> 2 \in DOMAIN p) /\ (1 \in DOMAIN t => t[1] = p[2])
  BY <1>1, <1>6
<1>4. p[1][1] = first => t # <<>> /\ t[1] = <<second, p[1][2]>>
  BY <1>2, <1>7, <1>8
<1>5. p[1][1] = second /\ t # <<>> => t[1][1] = first /\ t[1][2] # p[1][2]
  BY <1>1, <1>7, <1>8
<1> QED
  BY <1>3, <1>4, <1>5 DEF t

\* A step that is left out still pends, unless it was the first.
LEMMA PendsTail ==
  ASSUME NEW S, NEW p \in Seq(S), p # <<>>, NEW x, Pends(x, p), p[1] # x
  PROVE  Pends(x, Tail(p))
<1>1. PICK i \in DOMAIN p : p[i] = x
  BY DEF Pends
<1>2. i \in Nat \ {0} /\ i # 1
  BY <1>1, LenProperties
<1>3. i - 1 \in Nat \ {0} /\ (i - 1) + 1 = i
  BY <1>2
<1>4. i - 1 \in DOMAIN Tail(p) /\ Tail(p)[i - 1] = p[i]
  BY <1>1, <1>3, TailIs
<1> QED
  BY <1>1, <1>4 DEF Pends

LEMMA NothingPends ==
  \A x : ~Pends(x, <<>>)
<1>1. DOMAIN <<>> = {}
  OBVIOUS
<1> QED
  BY <1>1 DEF Pends

\* How a step may leave the method that is under way.
LEMMA GoesOp ==
  ASSUME op \in Ops, op.todo # <<>>, Goes
  PROVE  /\ op' \in Ops /\ op'.todo = Tail(op.todo)
         /\ Tail(op.todo) # <<>> =>
              /\ op'.undo = op.undo /\ op'.doc = op.doc /\ op'.back = op.back
              /\ op'.failed = op.failed /\ op'.ws = op.ws
         /\ Tail(op.todo) = <<>> => op' = Idle
<1>1. Tail(op.todo) \in Seq(Steps)
  BY HeadTailProperties DEF Ops
<1>2. Idle \in Ops
  BY EmptySeq DEF Idle, Ops, Sidecars, Wrappers, Docs, Absent, None
<1> DEFINE o == [op EXCEPT !.todo = Tail(@)]
<1>3. /\ o \in Ops /\ o.todo = Tail(op.todo) /\ o.undo = op.undo /\ o.doc = op.doc
      /\ o.back = op.back /\ o.failed = op.failed /\ o.ws = op.ws
  BY <1>1 DEF Ops
<1>4. op' = IF o.todo = <<>> THEN Idle ELSE o
  BY DEF Goes, Planned
<1>5. Idle.todo = <<>>
  BY DEF Idle
<1> HIDE DEF o
<1> QED
  BY <1>2, <1>3, <1>4, <1>5

LEMMA StopsOp ==
  ASSUME op \in Ops, NEW x, Stops(x), ~Contains(op.todo, GateB) \/ x = "gate"
  PROVE  /\ op' \in Ops /\ op'.todo = op.undo /\ op'.undo = <<>>
         /\ op.undo # <<>> => op'.doc = op.doc /\ op'.back = op.back
         /\ op.undo = <<>> => op' = Idle
<1>1. Idle \in Ops /\ Idle.todo = <<>> /\ Idle.undo = <<>>
  BY EmptySeq DEF Idle, Ops, Sidecars, Wrappers, Docs, Absent, None
<1> DEFINE o == [op EXCEPT !.todo = op.undo, !.undo = <<>>]
<1>2. /\ o \in Ops /\ o.todo = op.undo /\ o.undo = <<>> /\ o.doc = op.doc
      /\ o.back = op.back
  BY EmptySeq DEF Ops
<1>3. op' = IF o.todo = <<>> THEN Idle ELSE o
  BY DEF Stops, Planned, GateB
<1> HIDE DEF o
<1> QED
  BY <1>1, <1>2, <1>3

LEMMA SkipOp ==
  ASSUME op \in Ops, NEW x, Stops(x), Contains(op.todo, GateB), x # "gate",
         Rest(x) \in Seq(Steps), Rest(x) # <<>>
  PROVE  /\ op' \in Ops /\ op'.todo = Rest(x) /\ op'.undo = op.undo /\ op'.failed
<1> DEFINE o == [op EXCEPT !.todo = Rest(x), !.failed = TRUE]
<1>1. o \in Ops /\ o.todo = Rest(x) /\ o.undo = op.undo /\ o.failed
  BY DEF Ops
<1>2. op' = IF o.todo = <<>> THEN Idle ELSE o
  BY DEF Stops, Planned, GateB
<1> HIDE DEF o
<1> QED
  BY <1>1, <1>2

LEMMA AppEndIs ==
  ASSUME NEW u \in Ends, NEW w \in {"purge", "pass"},
         NEW p \in Seq(OfApps), NEW q \in Seq(OfBranches)
  PROVE  /\ AppEnd(p, q, w, u) # <<>>
         /\ p # <<>> => /\ Head(AppEnd(p, q, w, u)) = p[1] /\ p[1] \in OfApps
                        /\ Tail(AppEnd(p, q, w, u)) = AppEnd(Tail(p), q, w, u)
                        /\ Tail(p) \in Seq(OfApps)
         /\ p = <<>> => /\ Head(AppEnd(p, q, w, u)) = GateA
                        /\ Tail(AppEnd(p, q, w, u)) = BranchEnd(q, w, u)
<1> DEFINE r == <<GateA>> \o BranchEnd(q, w, u)
<1>1. /\ p \in Seq(Steps) /\ r \in Seq(Steps) /\ GateA \in Steps
      /\ BranchEnd(q, w, u) \in Seq(Steps)
  BY CleanPlans, StepSets
<1>2. r # <<>> /\ Head(r) = GateA /\ Tail(r) = BranchEnd(q, w, u)
  BY <1>1, ConsIs
<1>3. AppEnd(p, q, w, u) = p \o r
  BY DEF AppEnd
<1> HIDE DEF r
<1>4. CASE p # <<>>
  <2>1. /\ p \o r # <<>> /\ Head(p \o r) = p[1] /\ Tail(p \o r) = Tail(p) \o r
    BY <1>1, <1>4, PrefixIs
  <2>2. p[1] \in OfApps /\ Tail(p) \in Seq(OfApps)
    BY <1>4, TailIs
  <2>3. AppEnd(Tail(p), q, w, u) = Tail(p) \o r
    BY DEF AppEnd, r
  <2> QED
    BY <1>3, <1>4, <2>1, <2>2, <2>3
<1>5. CASE p = <<>>
  <2>1. p \o r = r
    BY <1>1, <1>5, ConcatEmptySeq
  <2> QED
    BY <1>2, <1>3, <1>5, <2>1
<1> QED
  BY <1>4, <1>5

LEMMA AppEndEmpty ==
  ASSUME NEW u \in Ends, NEW w \in {"purge", "pass"}, NEW q \in Seq(OfBranches)
  PROVE  Tail(AppEnd(<<>>, q, w, u)) = BranchEnd(q, w, u)
<1> DEFINE r == <<GateA>> \o BranchEnd(q, w, u)
<1>1. <<>> \in Seq(OfApps)
  BY EmptySeq
<1>2. BranchEnd(q, w, u) \in Seq(Steps)
  BY <1>1, CleanPlans
<1>3. r \in Seq(Steps) /\ Tail(r) = BranchEnd(q, w, u)
  BY <1>2, StepSets, ConsIs
<1>4. AppEnd(<<>>, q, w, u) = <<>> \o r
  BY DEF AppEnd
<1> HIDE DEF r
<1>5. <<>> \o r = r
  BY <1>3, ConcatEmptySeq
<1> QED
  BY <1>3, <1>4, <1>5

LEMMA BranchEndIs ==
  ASSUME NEW u \in Ends, NEW w \in {"purge", "pass"}, NEW q \in Seq(OfBranches)
  PROVE  /\ BranchEnd(q, w, u) # <<>>
         /\ q # <<>> => /\ Head(BranchEnd(q, w, u)) = q[1] /\ q[1] \in OfBranches
                        /\ Tail(BranchEnd(q, w, u)) = BranchEnd(Tail(q), w, u)
                        /\ Tail(q) \in Seq(OfBranches)
         /\ q = <<>> => /\ Head(BranchEnd(q, w, u)) = GateB
                        /\ Tail(BranchEnd(q, w, u)) = AllEnd(w, u)
<1> DEFINE r == <<GateB>> \o AllEnd(w, u)
<1>1. /\ q \in Seq(Steps) /\ r \in Seq(Steps) /\ GateB \in Steps
      /\ AllEnd(w, u) \in Seq(Steps)
  BY EndPlans, StepSets, SeqMonotonic, ConsIs
<1>2. r # <<>> /\ Head(r) = GateB /\ Tail(r) = AllEnd(w, u)
  BY <1>1, ConsIs
<1>3. BranchEnd(q, w, u) = q \o r
  BY DEF BranchEnd
<1> HIDE DEF r
<1>4. CASE q # <<>>
  <2>1. /\ q \o r # <<>> /\ Head(q \o r) = q[1] /\ Tail(q \o r) = Tail(q) \o r
    BY <1>1, <1>4, PrefixIs
  <2>2. q[1] \in OfBranches /\ Tail(q) \in Seq(OfBranches)
    BY <1>4, TailIs
  <2>3. BranchEnd(Tail(q), w, u) = Tail(q) \o r
    BY DEF BranchEnd, r
  <2> QED
    BY <1>3, <1>4, <2>1, <2>2, <2>3
<1>5. CASE q = <<>>
  <2>1. q \o r = r
    BY <1>1, <1>5, ConcatEmptySeq
  <2> QED
    BY <1>2, <1>3, <1>5, <2>1
<1> QED
  BY <1>4, <1>5
-----------------------------------------------------------------------------
(* Which plan a step belongs to.                                           *)

\* The first step of each plan.
LEMMA Heads ==
  ASSUME op \in Ops, op.todo # <<>>
  PROVE  /\ InMethod => Head(op.todo) \in Acting
         /\ InUndoing => Head(op.todo) \in Undoing
         /\ InRepair => Head(op.todo) \in {Adr, WrapNew}
         /\ InPair => Head(op.todo) \in {Adr, SideNew}
         /\ InHalf => Head(op.todo) = WrapNew
         /\ InRestore => Head(op.todo) = SideOld
         /\ InRestored => Head(op.todo) = WrapOld
         /\ IsLeaving => Head(op.todo) = Leave
<1>1. \A S : op.todo \in Seq(S) => Head(op.todo) \in S
  BY TailIs
<1>2. InMethod => Head(op.todo) \in Acting
  BY <1>1 DEF InMethod
<1>3. InUndoing => Head(op.todo) \in Undoing
  BY <1>1 DEF InUndoing
<1> QED
  BY <1>2, <1>3 DEF InRepair, InPair, InHalf, InRestore, InRestored, IsLeaving

LEMMA CleaningHeads ==
  ASSUME op \in Ops, op.undo \in Ends, NEW w \in {"purge", "pass"}
  PROVE  /\ \A p \in Seq(OfApps), q \in Seq(OfBranches) : CleansApps(p, q, w) =>
              Head(op.todo) \in OfApps \union {GateA}
         /\ \A q \in Seq(OfBranches) : CleansBranches(q, w) =>
              Head(op.todo) \in OfBranches \union {GateB}
         /\ CleansProfiles(w) => Head(op.todo) = AllOut
         /\ CleansWrapper(w) => Head(op.todo) = WrapAs(w)
         /\ CleansSidecar => Head(op.todo) = SidePurge
         /\ CleansFiles => Head(op.todo) \in {Layer, Cli, ConfOut}
<1>1. ASSUME NEW p \in Seq(OfApps), NEW q \in Seq(OfBranches), CleansApps(p, q, w)
      PROVE  Head(op.todo) \in OfApps \union {GateA}
  BY <1>1, AppEndIs DEF CleansApps
<1>2. ASSUME NEW q \in Seq(OfBranches), CleansBranches(q, w)
      PROVE  Head(op.todo) \in OfBranches \union {GateB}
  BY <1>2, BranchEndIs DEF CleansBranches
<1>3. CleansProfiles(w) => Head(op.todo) = AllOut
  BY EndTails DEF CleansProfiles
<1>4. CleansWrapper(w) => Head(op.todo) = WrapAs(w)
  BY EndTails DEF CleansWrapper
<1>5. CleansSidecar => Head(op.todo) = SidePurge
  BY EndTails DEF CleansSidecar
<1>6. CleansFiles => Head(op.todo) \in {Layer, Cli, ConfOut}
  BY EndTails DEF CleansFiles
<1> QED
  BY <1>1, <1>2, <1>3, <1>4, <1>5, <1>6

ActingKinds == {"extension", "install", "own", "reset", "prepare", "record", "apply",
                "store", "profile", "put", "config", "adreno"}

\* What a step that is next says about the method.
LEMMA Where ==
  ASSUME IInv, NEW s, NEW x, At(s, x)
  PROVE  /\ loaded /\ op \in Ops /\ op.todo # <<>> /\ Head(op.todo) = <<s, x>>
         /\ \/ InMethod /\ s \in ActingKinds
            \/ InUndoing /\ s \in {"reset", "forget", "unprofile"}
            \/ InRepair /\ (s = "adreno" \/ (s = "wrapper" /\ x = "new"))
            \/ InPair /\ (s = "adreno" \/ (s = "sidecar" /\ x = "new"))
            \/ InHalf /\ s = "wrapper" /\ x = "new"
            \/ InRestore /\ s = "sidecar" /\ x = "old"
            \/ InRestored /\ s = "wrapper" /\ x = "old"
            \/ InCleanup /\ s \in {"reset", "forget", "gate", "remove", "disown", "unprofile",
                                   "wrapper", "sidecar", "erase"}
            \/ IsLeaving /\ s = "gone"
<1>1. op \in Ops /\ op.todo # <<>> /\ Head(op.todo) = <<s, x>>
  BY DEF IInv, TypePart, At
<1>2. loaded
  BY <1>1 DEF IInv, PlanPart, Idle
<1>3. InMethod => s \in ActingKinds
  BY <1>1, Heads DEF Acting, ActingKinds
<1>4. InUndoing => s \in {"reset", "forget", "unprofile"}
  BY <1>1, Heads DEF Undoing
<1>5. /\ InRepair => s = "adreno" \/ (s = "wrapper" /\ x = "new")
      /\ InPair => s = "adreno" \/ (s = "sidecar" /\ x = "new")
  <2>1. InRepair => <<s, x>> \in {Adr, WrapNew}
    BY <1>1, Heads
  <2>2. InPair => <<s, x>> \in {Adr, SideNew}
    BY <1>1, Heads
  <2> QED
    BY <2>1, <2>2 DEF Adr, WrapNew, SideNew
<1>6. /\ InHalf => s = "wrapper" /\ x = "new"
      /\ InRestore => s = "sidecar" /\ x = "old"
      /\ InRestored => s = "wrapper" /\ x = "old"
      /\ IsLeaving => s = "gone"
  BY <1>1, Heads DEF WrapNew, SideOld, WrapOld, Leave
<1>7. InCleanup => s \in {"reset", "forget", "gate", "remove", "disown", "unprofile",
                         "wrapper", "sidecar", "erase"}
  <2> SUFFICES ASSUME InCleanup
               PROVE  s \in {"reset", "forget", "gate", "remove", "disown", "unprofile",
                             "wrapper", "sidecar", "erase"}
    OBVIOUS
  <2>1. op.undo \in Ends
    BY DEF InCleanup
  <2>2. CleansSidecar => s = "sidecar"
    BY <1>1, <2>1, CleaningHeads DEF SidePurge
  <2>3. CleansFiles => s = "erase"
    BY <1>1, <2>1, CleaningHeads DEF Layer, Cli, ConfOut
  <2>4. ASSUME NEW w \in {"purge", "pass"}
        PROVE  /\ CleansProfiles(w) => s = "unprofile"
               /\ CleansWrapper(w) => s = "wrapper"
    BY <1>1, <2>1, CleaningHeads DEF AllOut, WrapAs
  <2>5. ASSUME NEW w \in {"purge", "pass"}, NEW q \in Seq(OfBranches), CleansBranches(q, w)
        PROVE  s \in {"remove", "disown", "gate"}
    BY <1>1, <2>1, <2>5, CleaningHeads DEF OfBranches, GateB
  <2>6. ASSUME NEW w \in {"purge", "pass"}, NEW p \in Seq(OfApps), NEW q \in Seq(OfBranches),
               CleansApps(p, q, w)
        PROVE  s \in {"reset", "forget", "gate"}
    <3>1. <<s, x>> \in OfApps \union {GateA}
      BY <1>1, <2>1, <2>6, CleaningHeads
    <3> QED
      BY <3>1 DEF OfApps, GateA
  <2> QED
    BY <2>2, <2>3, <2>4, <2>5, <2>6 DEF InCleanup
<1> QED
  BY <1>1, <1>2, <1>3, <1>4, <1>5, <1>6, <1>7 DEF IInv, PlanPart

LEMMA WhereActing ==
  ASSUME IInv, NEW s \in ActingKinds \ {"reset", "adreno"}, NEW x, At(s, x)
  PROVE  InMethod
BY Where DEF ActingKinds

\* Cleaning up, where a step is next that concerns an app or a branch.
CleansApp(s, x) ==
  \E w \in {"purge", "pass"}, p \in Seq(OfApps), q \in Seq(OfBranches) :
    CleansApps(p, q, w) /\ p # <<>> /\ p[1] = <<s, x>>
CleansBranch(s, x) ==
  \E w \in {"purge", "pass"}, q \in Seq(OfBranches) :
    CleansBranches(q, w) /\ q # <<>> /\ q[1] = <<s, x>>

\* Cleaning up, by its next step.
LEMMA WhereCleans ==
  ASSUME IInv, InCleanup, NEW s, NEW x, At(s, x)
  PROVE  /\ op.undo \in Ends
         /\ s \in {"reset", "forget"} => CleansApp(s, x)
         /\ s = "gate" /\ x = "apps" =>
              \E w \in {"purge", "pass"}, q \in Seq(OfBranches) : CleansApps(<<>>, q, w)
         /\ s \in {"remove", "disown"} => CleansBranch(s, x)
         /\ s = "gate" /\ x = "branches" =>
              \E w \in {"purge", "pass"} : CleansBranches(<<>>, w)
         /\ s = "unprofile" => x = "all" /\ \E w \in {"purge", "pass"} : CleansProfiles(w)
         /\ s = "wrapper" => x \in {"purge", "pass"} /\ CleansWrapper(x)
         /\ s = "sidecar" => x = "purge" /\ CleansSidecar
         /\ s = "erase" => x \in {"layer", "cli", "conf"} /\ CleansFiles
<1>1. op \in Ops /\ op.todo # <<>> /\ Head(op.todo) = <<s, x>> /\ op.undo \in Ends
  BY Where DEF InCleanup
<1>2. CleansSidecar => s = "sidecar" /\ x = "purge"
  BY <1>1, CleaningHeads DEF SidePurge
<1>3. CleansFiles => s = "erase" /\ x \in {"layer", "cli", "conf"}
  BY <1>1, CleaningHeads DEF Layer, Cli, ConfOut
<1>4. ASSUME NEW w \in {"purge", "pass"}
      PROVE  /\ CleansProfiles(w) => s = "unprofile" /\ x = "all"
             /\ CleansWrapper(w) => s = "wrapper" /\ x = w
  BY <1>1, CleaningHeads DEF AllOut, WrapAs
<1>5. ASSUME NEW w \in {"purge", "pass"}, NEW q \in Seq(OfBranches), CleansBranches(q, w)
      PROVE  IF q = <<>> THEN s = "gate" /\ x = "branches"
                         ELSE s \in {"remove", "disown"} /\ q[1] = <<s, x>>
  <2>1. /\ q # <<>> => Head(op.todo) = q[1] /\ q[1] \in OfBranches
        /\ q = <<>> => Head(op.todo) = GateB
    BY <1>1, <1>5, BranchEndIs DEF CleansBranches
  <2> QED
    BY <1>1, <2>1 DEF OfBranches, GateB
<1>6. ASSUME NEW w \in {"purge", "pass"}, NEW p \in Seq(OfApps), NEW q \in Seq(OfBranches),
             CleansApps(p, q, w)
      PROVE  IF p = <<>> THEN s = "gate" /\ x = "apps"
                         ELSE s \in {"reset", "forget"} /\ p[1] = <<s, x>>
  <2>1. /\ p # <<>> => Head(op.todo) = p[1] /\ p[1] \in OfApps
        /\ p = <<>> => Head(op.todo) = GateA
    BY <1>1, <1>6, AppEndIs DEF CleansApps
  <2> QED
    BY <1>1, <2>1 DEF OfApps, GateA
<1>7. CASE CleansSidecar
  BY <1>1, <1>2, <1>7
<1>8. CASE CleansFiles
  BY <1>1, <1>3, <1>8
<1>9. ASSUME NEW w \in {"purge", "pass"}, CleansProfiles(w) \/ CleansWrapper(w)
      PROVE  \/ s = "unprofile" /\ x = "all" /\ CleansProfiles(w)
             \/ s = "wrapper" /\ x = w /\ CleansWrapper(x)
  BY <1>4, <1>9
<1>10. CASE \E w \in {"purge", "pass"} : CleansProfiles(w) \/ CleansWrapper(w)
  BY <1>1, <1>9, <1>10
<1>11. CASE \E w \in {"purge", "pass"} : \E q \in Seq(OfBranches) : CleansBranches(q, w)
  <2>1. PICK w \in {"purge", "pass"}, q \in Seq(OfBranches) : CleansBranches(q, w)
    BY <1>11
  <2>2. CASE q = <<>>
    BY <1>1, <1>5, <2>1, <2>2
  <2>3. CASE q # <<>>
    <3>1. CleansBranch(s, x) /\ s \in {"remove", "disown"}
      BY <1>5, <2>1, <2>3 DEF CleansBranch
    <3> QED
      BY <1>1, <3>1
  <2> QED
    BY <2>2, <2>3
<1>12. CASE \E w \in {"purge", "pass"} :
              \E p \in Seq(OfApps), q \in Seq(OfBranches) : CleansApps(p, q, w)
  <2>1. PICK w \in {"purge", "pass"}, p \in Seq(OfApps), q \in Seq(OfBranches) :
          CleansApps(p, q, w)
    BY <1>12
  <2>2. CASE p = <<>>
    BY <1>1, <1>6, <2>1, <2>2
  <2>3. CASE p # <<>>
    <3>1. CleansApp(s, x) /\ s \in {"reset", "forget"}
      BY <1>6, <2>1, <2>3 DEF CleansApp
    <3> QED
      BY <1>1, <3>1
  <2> QED
    BY <2>2, <2>3
<1> QED
  BY <1>7, <1>8, <1>10, <1>11, <1>12 DEF InCleanup
-----------------------------------------------------------------------------
(* The steps of a method that leaves the two files alone.                  *)

LEMMA IdleIs ==
  /\ Idle \in Ops /\ Idle.todo = <<>> /\ Idle.undo = <<>>
  /\ Idle.todo \in Seq(Acting) /\ Idle.undo \in Seq(Undoing) /\ ForgetsReset(Idle.undo)
<1>1. Idle \in Ops /\ Idle.todo = <<>> /\ Idle.undo = <<>>
  BY EmptySeq DEF Idle, Ops, Sidecars, Wrappers, Docs, Absent, None
<1> QED
  BY <1>1, EmptySeq DEF ForgetsReset

LEMMA IdlePlan ==
  ASSUME loaded', op' = Idle, Settled'
  PROVE  op' \in Ops /\ PlanPart'
<1>1. InMethod'
  BY IdleIs DEF InMethod, ForgetsReset
<1> QED
  BY <1>1, IdleIs DEF PlanPart

LEMMA IsLoaded ==
  ASSUME IInv, op.todo # <<>>
  PROVE  loaded
BY IdleIs DEF IInv, PlanPart

LEMMA MethodMoves ==
  ASSUME IInv, InMethod, op.todo # <<>>, NEW x, Goes \/ Stops(x),
         UNCHANGED <<sidecar, wrapper, torn, loaded>>
  PROVE  op' \in Ops /\ PlanPart'
<1>1. /\ op \in Ops /\ op.todo \in Seq(Acting) /\ op.undo \in Seq(Undoing)
      /\ ForgetsReset(op.undo) /\ Settled'
  BY DEF IInv, TypePart, InMethod, Settled, Follows, Migrated
<1>2. loaded'
  BY DEF IInv, PlanPart, Idle
<1>3. CASE Goes
  <2>1. CASE Tail(op.todo) = <<>>
    BY <1>1, <1>2, <1>3, <2>1, GoesOp, IdlePlan
  <2>2. CASE Tail(op.todo) # <<>>
    <3>1. op' \in Ops /\ op'.todo = Tail(op.todo) /\ op'.undo = op.undo
      BY <1>1, <1>3, <2>2, GoesOp
    <3>2. Tail(op.todo) \in Seq(Acting)
      BY <1>1, TailIs
    <3> QED
      BY <1>1, <1>2, <3>1, <3>2 DEF PlanPart, InMethod, ForgetsReset
  <2> QED
    BY <2>1, <2>2
<1>4. CASE Stops(x)
  <2>1. ~Contains(op.todo, GateB)
    BY <1>1, StepSets, NotIn
  <2>2. op' \in Ops /\ op'.todo = op.undo /\ op'.undo = <<>>
    BY <1>1, <1>4, <2>1, StopsOp
  <2>3. ForgetsReset1(op'.todo, override')
    BY <1>1, <2>2 DEF ForgetsReset, ForgetsReset1
  <2>4. InUndoing'
    BY <1>1, <2>2, <2>3 DEF InUndoing
  <2> QED
    BY <1>2, <2>2, <2>4 DEF PlanPart
<1> QED
  BY <1>3, <1>4

LEMMA UndoingMoves ==
  ASSUME IInv, InUndoing, op.todo # <<>>, NEW x, Goes \/ Stops(x),
         UNCHANGED <<sidecar, wrapper, torn, loaded>>,
         Goes /\ Head(op.todo)[1] = "reset" => override'[Head(op.todo)[2]] = "none"
  PROVE  op' \in Ops /\ PlanPart'
<1>1. /\ op \in Ops /\ op.todo \in Seq(Undoing) /\ op.undo = <<>>
      /\ ForgetsReset1(op.todo, override) /\ Settled'
  BY DEF IInv, TypePart, InUndoing, Settled, Follows, Migrated
<1>2. loaded'
  BY DEF IInv, PlanPart, Idle
<1>3. CASE Goes
  <2>1. CASE Tail(op.todo) = <<>>
    BY <1>1, <1>2, <1>3, <2>1, GoesOp, IdlePlan
  <2>2. CASE Tail(op.todo) # <<>>
    <3> DEFINE t == Tail(op.todo)
    <3>1. op' \in Ops /\ op'.todo = t /\ op'.undo = <<>>
      BY <1>1, <1>3, <2>2, GoesOp
    <3>2. /\ t \in Seq(Undoing) /\ Head(op.todo) = op.todo[1]
          /\ DOMAIN t \subseteq Nat \ {0}
          /\ \A i \in Nat \ {0} : i \in DOMAIN t <=> i + 1 \in DOMAIN op.todo
          /\ \A i \in DOMAIN t : t[i] = op.todo[i + 1]
          /\ 1 \in DOMAIN t
      BY <1>1, <2>2, TailIs
    <3> HIDE DEF t
    <3>3. ASSUME NEW i \in DOMAIN t, t[i][1] = "forget"
          PROVE  IF i = 1 THEN override'[t[1][2]] = "none" ELSE t[i - 1] = <<"reset", t[i][2]>>
      <4>5. i \in Nat \ {0}
        BY <3>2
      <4>6. i + 1 # 1 /\ (i + 1) - 1 = i
        BY <4>5
      <4>1. i + 1 \in DOMAIN op.todo /\ t[i] = op.todo[i + 1]
        BY <3>2, <4>5
      <4>2. op.todo[i] = <<"reset", t[i][2]>>
        BY <1>1, <3>3, <4>1, <4>6 DEF ForgetsReset1
      <4>3. CASE i = 1
        BY <1>3, <3>2, <4>2, <4>3
      <4>4. CASE i # 1
        <5>1. i - 1 \in Nat \ {0} /\ (i - 1) + 1 = i
          BY <4>5, <4>4
        <5>2. i \in DOMAIN op.todo
          BY <1>1, <4>1, <4>5, LenProperties
        <5>3. i - 1 \in DOMAIN t
          BY <3>2, <5>1, <5>2
        <5>4. t[i - 1] = op.todo[i]
          BY <3>2, <5>1, <5>3
        <5> QED
          BY <4>2, <4>4, <5>4
      <4> QED
        BY <4>3, <4>4
    <3>4. ForgetsReset1(t, override')
      BY <3>1, <3>3 DEF ForgetsReset1, t
    <3> QED
      BY <1>1, <1>2, <3>1, <3>2, <3>4 DEF PlanPart, InUndoing
  <2> QED
    BY <2>1, <2>2
<1>4. CASE Stops(x)
  <2>1. ~Contains(op.todo, GateB)
    BY <1>1, StepSets, NotIn
  <2>2. op' = Idle
    BY <1>1, <1>4, <2>1, StopsOp
  <2> QED
    BY <1>1, <1>2, <2>2, IdlePlan
<1> QED
  BY <1>3, <1>4

\* A step that leaves what its invariant is about alone.
LEMMA MethodKeeps ==
  ASSUME IInv, NEW s \in ActingKinds \ {"reset", "adreno"}, NEW x, At(s, x), Goes \/ Fails(x),
         UNCHANGED <<sidecar, wrapper, torn, loaded, owned, prepared, override>>
  PROVE  IInv'
<1>1. InMethod /\ op.todo # <<>>
  BY WhereActing DEF At
<1>2. op' \in Ops /\ PlanPart'
  BY <1>1, MethodMoves DEF Fails
<1> QED
  BY <1>2 DEF IInv, TypePart

LEMMA ExtensionStep ==
  ASSUME IInv, NEW a \in Apps, Extension(a)
  PROVE  IInv'
<1>1. /\ InMethod /\ op.todo # <<>> /\ loaded /\ op \in Ops
      /\ op.todo \in Seq(Acting) /\ op.todo \in Seq(Steps)
  BY WhereActing, Where DEF Extension, ActingKinds, InMethod, Ops
<1>2. UNCHANGED <<sidecar, wrapper, torn, loaded, owned, prepared, override>>
  BY DEF Extension, pair
<1>3. Goes \/ Fails(a) \/ op' = [op EXCEPT !.todo = SubSeq(@, 4, Len(@))]
  BY DEF Extension, CommandFails
<1>4. CASE Goes \/ Fails(a)
  <2>1. At("extension", a)
    BY DEF Extension
  <2> QED
    BY <1>2, <1>4, <2>1, MethodKeeps DEF ActingKinds
<1>5. CASE op' = [op EXCEPT !.todo = SubSeq(@, 4, Len(@))]
  <2> DEFINE t == SubSeq(op.todo, 4, Len(op.todo))
  <2>1. Len(op.todo) \in Nat /\ \A i \in 4 .. Len(op.todo) : op.todo[i] \in Acting
    BY <1>1, LenProperties, ElementOfSeq
  <2>2. t \in Seq(Acting)
    BY <2>1, SubSeqProperties
  <2>3. t \in Seq(Steps)
    BY <2>2, StepSets, SeqMonotonic
  <2> HIDE DEF t
  <2>4. op' = [op EXCEPT !.todo = t]
    BY <1>5 DEF t
  <2>5. op' \in Ops /\ op'.todo = t /\ op'.undo = op.undo
    BY <1>1, <2>3, <2>4 DEF Ops
  <2>6. InMethod'
    BY <1>1, <1>2, <2>2, <2>5 DEF InMethod, ForgetsReset, Settled, Follows, Migrated
  <2> QED
    BY <1>1, <1>2, <2>5, <2>6 DEF IInv, TypePart, PlanPart
<1> QED
  BY <1>3, <1>4, <1>5

LEMMA FlatpakSteps ==
  ASSUME IInv, NEW a \in Apps, InstallExtension(a) \/ OwnExtension(a) \/ Prepare(a) \/ Apply(a)
                                 \/ StoreState(a)
  PROVE  IInv'
<1>1. PICK s \in {"install", "own", "prepare", "apply", "store"} : At(s, a)
  BY DEF InstallExtension, OwnExtension, Prepare, Apply, StoreState
<1>2. InMethod /\ op.todo # <<>>
  BY <1>1, WhereActing DEF ActingKinds, At
<1>3. UNCHANGED <<sidecar, wrapper, torn, loaded>> /\ (Goes \/ Stops(a))
  BY DEF InstallExtension, OwnExtension, Prepare, Apply, StoreState, pair, CommandFails, Fails
<1>4. op' \in Ops /\ PlanPart'
  BY <1>2, <1>3, MethodMoves
<1>5. /\ prepared' = [b \in Apps |-> prepared'[b]]
      /\ override' = [b \in Apps |-> override'[b]]
  BY DEF IInv, TypePart, InstallExtension, OwnExtension, Prepare, Apply, StoreState
<1>6. Runtime(a) \in Branches
  BY LsfgAssumption DEF Runtime
<1>7. owned' \subseteq Branches
  BY <1>6 DEF IInv, TypePart, InstallExtension, OwnExtension, Prepare, Apply, StoreState
<1> QED
  BY <1>3, <1>4, <1>5, <1>7 DEF IInv, TypePart

LEMMA FileSteps ==
  ASSUME IInv, \/ \E f \in {"cli", "layer", "conf"} : PutFile(f)
               \/ \E x \in {"legacy", "write"} : InstallConfig(x)
  PROVE  IInv'
<1>1. PICK s \in {"put", "config"} : \E x : At(s, x) /\ (Goes \/ Fails(x))
  BY DEF PutFile, InstallConfig
<1>2. UNCHANGED <<sidecar, wrapper, torn, loaded, owned, prepared, override>>
  BY DEF PutFile, InstallConfig, pair, flatpak
<1> QED
  BY <1>1, <1>2, MethodKeeps DEF ActingKinds

LEMMA RecordStep ==
  ASSUME IInv, NEW a \in Apps, RecordApp(a)
  PROVE  IInv'
<1>1. /\ InMethod /\ op.todo # <<>> /\ loaded /\ op \in Ops
      /\ op.todo \in Seq(Acting) /\ op.todo \in Seq(Steps)
  BY WhereActing, Where DEF RecordApp, ActingKinds, InMethod, Ops
<1>2. UNCHANGED <<sidecar, wrapper, torn, loaded, owned, override>>
  BY DEF RecordApp, pair
<1>3. prepared' = [b \in Apps |-> prepared'[b]]
  BY DEF IInv, TypePart, RecordApp
<1>4. CASE Fails(a)
  <2>1. op' \in Ops /\ PlanPart'
    BY <1>1, <1>2, <1>4, MethodMoves DEF Fails
  <2> QED
    BY <1>2, <1>3, <2>1 DEF IInv, TypePart
<1>5. CASE op' = [op EXCEPT !.todo = Tail(@),
                    !.undo = IF prepared[a] = "no"
                             THEN <<<<"reset", a>>, <<"forget", a>>>> ELSE @]
  <2> DEFINE back == <<<<"reset", a>>, <<"forget", a>>>>
             u == IF prepared[a] = "no" THEN back ELSE op.undo
  <2>1. /\ back \in Seq(Undoing) /\ Len(back) = 2
        /\ back[1] = <<"reset", a>> /\ back[2] = <<"forget", a>>
    BY DEF Undoing, Things
  <2>2. ForgetsReset(back)
    BY <2>1, LenProperties DEF ForgetsReset
  <2>3. back \in Seq(Steps)
    BY <2>1, StepSets, SeqMonotonic
  <2> HIDE DEF back
  <2>4. u \in Seq(Undoing) /\ u \in Seq(Steps) /\ ForgetsReset(u)
    BY <1>1, <2>1, <2>2, <2>3 DEF InMethod, Ops
  <2>5. Tail(op.todo) \in Seq(Acting) /\ Tail(op.todo) \in Seq(Steps)
    BY <1>1, TailIs
  <2>6. op' = [op EXCEPT !.todo = Tail(@), !.undo = u]
    BY <1>5 DEF back
  <2> HIDE DEF u
  <2>7. op' \in Ops /\ op'.todo = Tail(op.todo) /\ op'.undo = u
    BY <1>1, <2>4, <2>5, <2>6 DEF Ops
  <2>8. InMethod'
    BY <1>1, <1>2, <2>4, <2>5, <2>7 DEF InMethod, ForgetsReset, Settled, Follows, Migrated
  <2> QED
    BY <1>1, <1>2, <1>3, <2>7, <2>8 DEF IInv, TypePart, PlanPart
<1> QED
  BY <1>4, <1>5 DEF RecordApp

LEMMA CreateStep ==
  ASSUME IInv, NEW a \in Apps, CreateProfile(a)
  PROVE  IInv'
<1>1. At("profile", a)
  BY DEF CreateProfile, ChangeProfiles
<1>2. /\ InMethod /\ op.todo # <<>> /\ loaded /\ op \in Ops
      /\ op.todo \in Seq(Acting) /\ op.todo \in Seq(Steps)
  BY <1>1, WhereActing, Where DEF ActingKinds, InMethod, Ops
<1>3. UNCHANGED <<sidecar, wrapper, torn, loaded, owned, prepared, override>>
  BY DEF CreateProfile, ChangeProfiles, pair, flatpak
<1>4. CASE Stops(a)
  <2>1. op' \in Ops /\ PlanPart'
    BY <1>2, <1>3, <1>4, MethodMoves
  <2> QED
    BY <1>3, <2>1 DEF IInv, TypePart
<1>5. CASE op' = [op EXCEPT !.todo = Tail(@), !.undo = <<<<"unprofile", a>>>> \o @]
  <2> DEFINE x == <<"unprofile", a>>
             u == <<x>> \o op.undo
  <2>1. x \in Undoing /\ x[1] = "unprofile"
    BY DEF Undoing, Things
  <2>2. op.undo \in Seq(Undoing) /\ ForgetsReset(op.undo)
    BY <1>2 DEF InMethod
  <2> HIDE DEF x
  <2>3. /\ <<x>> \in Seq(Undoing) /\ Len(<<x>>) = 1 /\ <<x>>[1] = x
        /\ u \in Seq(Undoing) /\ u \in Seq(Steps)
    <3>1. u \in Seq(Undoing)
      BY <2>1, <2>2, ConsIs
    <3>2. u \in Seq(Steps)
      BY <3>1, StepSets, SeqMonotonic
    <3> QED
      BY <2>1, <3>1, <3>2
  <2>4. /\ Len(u) = 1 + Len(op.undo) /\ Len(op.undo) \in Nat
        /\ \A i \in 1 .. 1 + Len(op.undo) : u[i] = IF i <= 1 THEN x ELSE op.undo[i - 1]
    BY <2>2, <2>3, ConcatProperties
  <2>5. DOMAIN u = 1 .. 1 + Len(op.undo) /\ DOMAIN op.undo = 1 .. Len(op.undo)
    BY <2>2, <2>3, <2>4, LenProperties
  <2> HIDE DEF u
  <2>6. ForgetsReset(u)
    <3> SUFFICES ASSUME NEW i \in DOMAIN u, u[i][1] = "forget"
                 PROVE  i > 1 /\ u[i - 1] = <<"reset", u[i][2]>>
      BY DEF ForgetsReset
    <3>1. i # 1 /\ i \in Nat /\ i > 1 /\ i - 1 \in DOMAIN op.undo
      BY <2>1, <2>4, <2>5
    <3>2. u[i] = op.undo[i - 1]
      BY <2>4, <2>5, <3>1
    <3>3. i - 1 > 1 /\ op.undo[i - 2] = <<"reset", u[i][2]>>
      <4>1. (i - 1) - 1 = i - 2
        BY <3>1
      <4> QED
        BY <2>2, <3>1, <3>2, <4>1 DEF ForgetsReset
    <3>4. u[i - 1] = op.undo[i - 2]
      <4>1. i - 1 \in 1 .. 1 + Len(op.undo) /\ ~(i - 1 <= 1) /\ (i - 1) - 1 = i - 2
        BY <2>4, <2>5, <3>1, <3>3
      <4> QED
        BY <2>4, <4>1
    <3> QED
      BY <3>1, <3>3, <3>4
  <2>7. Tail(op.todo) \in Seq(Acting) /\ Tail(op.todo) \in Seq(Steps)
    BY <1>2, TailIs
  <2>8. op' = [op EXCEPT !.todo = Tail(@), !.undo = u]
    BY <1>5 DEF u, x
  <2>9. op' \in Ops /\ op'.todo = Tail(op.todo) /\ op'.undo = u
    BY <1>2, <2>3, <2>7, <2>8 DEF Ops
  <2>10. InMethod'
    BY <1>2, <1>3, <2>3, <2>6, <2>7, <2>9 DEF InMethod, ForgetsReset, Settled, Follows, Migrated
  <2> QED
    BY <1>2, <1>3, <2>9, <2>10 DEF IInv, TypePart, PlanPart
<1> QED
  BY <1>4, <1>5 DEF CreateProfile, ChangeProfiles
-----------------------------------------------------------------------------
(* Cleaning up the apps and the branches.                                  *)

\* What is left when a step failed: the rest of its pair is left out too.
After(p) == IF Tail(p) # <<>> /\ Tail(p)[1][2] = p[1][2] THEN Tail(Tail(p)) ELSE Tail(p)

LEMMA AfterIs ==
  ASSUME NEW S, NEW p \in Seq(S), p # <<>>, NEW first, NEW second, first # second,
         Pairs(p, first, second), p[1][1] \in {first, second}
  PROVE  /\ After(p) \in Seq(S) /\ Pairs(After(p), first, second)
         /\ After(p) # <<>> => After(p)[1][1] # second
<1>1. /\ Pairs(Tail(p), first, second) /\ Tail(p) \in Seq(S)
      /\ p[1][1] = first => Tail(p) # <<>> /\ Tail(p)[1] = <<second, p[1][2]>>
      /\ p[1][1] = second /\ Tail(p) # <<>> =>
           Tail(p)[1][1] = first /\ Tail(p)[1][2] # p[1][2]
  BY PairsTail, TailIs
<1>2. CASE p[1][1] = first
  <2> DEFINE t == Tail(p)
  <2>1. t \in Seq(S) /\ t # <<>> /\ t[1] = <<second, p[1][2]>> /\ Pairs(t, first, second)
    BY <1>1, <1>2
  <2> HIDE DEF t
  <2>2. /\ Pairs(Tail(t), first, second) /\ Tail(t) \in Seq(S)
        /\ Tail(t) # <<>> => Tail(t)[1][1] = first
    BY <2>1, PairsTail, TailIs
  <2>3. After(p) = Tail(t)
    BY <2>1 DEF After, t
  <2> QED
    BY <2>2, <2>3
<1>3. CASE p[1][1] = second
  <2>1. After(p) = Tail(p)
    BY <1>1, <1>3 DEF After
  <2> QED
    BY <1>1, <1>3, <2>1
<1> QED
  BY <1>2, <1>3

LEMMA RestOfApps ==
  ASSUME NEW u \in Ends, NEW w \in {"purge", "pass"},
         NEW p \in Seq(OfApps), p # <<>>, NEW q \in Seq(OfBranches),
         op.todo = AppEnd(p, q, w, u)
  PROVE  Rest(p[1][2]) = AppEnd(After(p), q, w, u)
<1> DEFINE t == Tail(p)  n == AppEnd(t, q, w, u)  x == p[1][2]
<1>1. Tail(op.todo) = n /\ t \in Seq(OfApps) /\ p[1] \in OfApps
  BY AppEndIs
<1>2. x \in Apps /\ x # "apps"
  BY <1>1, LsfgAssumption DEF OfApps
<1> HIDE DEF t, x
<1>3. n # <<>> /\ n \in Seq(Steps) /\ n[1] = Head(n)
  BY <1>1, AppEndIs, CleanPlans
<1>4. /\ t # <<>> => n[1] = t[1] /\ Tail(n) = AppEnd(Tail(t), q, w, u)
      /\ t = <<>> => n[1] = GateA
  BY <1>1, <1>3, AppEndIs
<1> HIDE DEF n
<1>5. Rest(x) = IF n[1][2] = x THEN Tail(n) ELSE n
  BY <1>1 DEF Rest
<1>6. CASE t = <<>>
  <2>1. n[1][2] # x
    BY <1>2, <1>4, <1>6 DEF GateA
  <2> QED
    BY <1>5, <1>6, <2>1 DEF After, n, t, x
<1>7. CASE t # <<>>
  <2>1. After(p) = IF t[1][2] = x THEN Tail(t) ELSE t
    BY <1>7 DEF After, t, x
  <2>2. Rest(x) = IF t[1][2] = x THEN Tail(n) ELSE n
    BY <1>4, <1>5, <1>7
  <2>3. CASE t[1][2] = x
    BY <1>4, <1>7, <2>1, <2>2, <2>3 DEF x
  <2>4. CASE t[1][2] # x
    BY <2>1, <2>2, <2>4 DEF n, x
  <2> QED
    BY <2>3, <2>4
<1> QED
  BY <1>6, <1>7

LEMMA RestOfBranches ==
  ASSUME NEW u \in Ends, NEW w \in {"purge", "pass"},
         NEW q \in Seq(OfBranches), q # <<>>, op.todo = BranchEnd(q, w, u)
  PROVE  Rest(q[1][2]) = BranchEnd(After(q), w, u)
<1> DEFINE t == Tail(q)  n == BranchEnd(t, w, u)  x == q[1][2]
<1>1. Tail(op.todo) = n /\ t \in Seq(OfBranches) /\ q[1] \in OfBranches
  BY BranchEndIs
<1>2. x \in Branches /\ x # "branches"
  BY <1>1, LsfgAssumption DEF OfBranches
<1> HIDE DEF t, x
<1>3. n # <<>> /\ n \in Seq(Steps) /\ n[1] = Head(n)
  <2>1. <<>> \in Seq(OfApps)
    BY EmptySeq
  <2>2. n \in Seq(Steps)
    BY <1>1, <2>1, CleanPlans
  <2>3. n # <<>>
    BY <1>1, BranchEndIs
  <2> HIDE DEF n
  <2> QED
    BY <2>2, <2>3, TailIs
<1>4. /\ t # <<>> => n[1] = t[1] /\ Tail(n) = BranchEnd(Tail(t), w, u)
      /\ t = <<>> => n[1] = GateB
  BY <1>1, <1>3, BranchEndIs
<1> HIDE DEF n
<1>5. Rest(x) = IF n[1][2] = x THEN Tail(n) ELSE n
  BY <1>1 DEF Rest
<1>6. CASE t = <<>>
  <2>1. n[1][2] # x
    BY <1>2, <1>4, <1>6 DEF GateB
  <2> QED
    BY <1>5, <1>6, <2>1 DEF After, n, t, x
<1>7. CASE t # <<>>
  <2>1. After(q) = IF t[1][2] = x THEN Tail(t) ELSE t
    BY <1>7 DEF After, t, x
  <2>2. Rest(x) = IF t[1][2] = x THEN Tail(n) ELSE n
    BY <1>4, <1>5, <1>7
  <2>3. CASE t[1][2] = x
    BY <1>4, <1>7, <2>1, <2>2, <2>3 DEF x
  <2>4. CASE t[1][2] # x
    BY <2>1, <2>2, <2>4 DEF n, x
  <2> QED
    BY <2>3, <2>4
<1> QED
  BY <1>6, <1>7

LEMMA AppsGo ==
  ASSUME IInv, op.undo \in Ends, NEW w \in {"purge", "pass"},
         NEW p \in Seq(OfApps), p # <<>>, NEW q \in Seq(OfBranches), CleansApps(p, q, w),
         Goes, UNCHANGED <<sidecar, wrapper, torn, loaded, owned>>,
         p[1][1] = "reset" => override'[p[1][2]] = "none",
         \A a \in Apps : prepared'[a] # "no" => prepared[a] # "no" /\ p[1] # <<"forget", a>>
  PROVE  op' \in Ops /\ PlanPart'
<1>1. op \in Ops /\ op.todo = AppEnd(p, q, w, op.undo) /\ op.todo # <<>> /\ loaded'
  <2>1. op \in Ops /\ op.todo = AppEnd(p, q, w, op.undo) /\ op.todo # <<>>
    BY AppEndIs DEF IInv, TypePart, CleansApps
  <2> QED
    BY <2>1, IsLoaded
<1> DEFINE t == Tail(p)
<1>2. t \in Seq(OfApps) /\ Tail(op.todo) = AppEnd(t, q, w, op.undo) /\ Tail(op.todo) # <<>>
  <2>1. t \in Seq(OfApps) /\ Tail(op.todo) = AppEnd(t, q, w, op.undo)
    BY <1>1, AppEndIs
  <2> HIDE DEF t
  <2>2. AppEnd(t, q, w, op.undo) # <<>>
    BY <2>1, AppEndIs
  <2> QED
    BY <2>1, <2>2
<1>3. /\ op' \in Ops /\ op'.undo = op.undo /\ op'.failed = op.failed
      /\ op'.todo = AppEnd(t, q, w, op'.undo)
  BY <1>1, <1>2, GoesOp
<1>4. Pairs(t, "reset", "forget") /\ Pairs(q, "remove", "disown") /\ Settled'
  BY PairsTail DEF CleansApps, Settled, Follows, Migrated
<1>5. t # <<>> /\ t[1][1] = "forget" => override'[t[1][2]] = "none"
  <2>1. SUFFICES ASSUME t # <<>>, t[1][1] = "forget" PROVE override'[t[1][2]] = "none"
    OBVIOUS
  <2>2. p[1] \in OfApps
    BY TailIs
  <2>3. p[1][1] = "reset"
    BY <2>1, <2>2, PairsTail DEF CleansApps, OfApps
  <2> QED
    BY <2>3, PairsTail DEF CleansApps
<1>6. ASSUME NEW a \in Apps, prepared'[a] # "no"
      PROVE  op'.failed \/ Pends(<<"forget", a>>, t)
  BY <1>3, <1>6, PendsTail DEF CleansApps
<1> HIDE DEF t
<1>7. CleansApps(t, q, w)'
  BY <1>3, <1>4, <1>5, <1>6 DEF CleansApps, Pends
<1>8. InCleanup'
  BY <1>2, <1>3, <1>7 DEF InCleanup
<1> QED
  BY <1>1, <1>3, <1>8 DEF PlanPart

LEMMA AppsSkip ==
  ASSUME IInv, op.undo \in Ends, NEW w \in {"purge", "pass"},
         NEW p \in Seq(OfApps), p # <<>>, NEW q \in Seq(OfBranches), CleansApps(p, q, w),
         Stops(p[1][2]), UNCHANGED <<sidecar, wrapper, torn, loaded, owned, prepared, override>>
  PROVE  op' \in Ops /\ PlanPart'
<1>1. op \in Ops /\ op.todo = AppEnd(p, q, w, op.undo) /\ op.todo # <<>> /\ loaded'
  <2>1. op \in Ops /\ op.todo = AppEnd(p, q, w, op.undo) /\ op.todo # <<>>
    BY AppEndIs DEF IInv, TypePart, CleansApps
  <2> QED
    BY <2>1, IsLoaded
<1> DEFINE r == After(p)
<1>2. p[1] \in OfApps /\ p[1][1] \in {"reset", "forget"} /\ p[1][2] # "gate"
  <2>1. p[1] \in OfApps
    BY TailIs
  <2> QED
    BY <2>1, LsfgAssumption DEF OfApps
<1>3. /\ r \in Seq(OfApps) /\ Pairs(r, "reset", "forget")
      /\ r # <<>> => r[1][1] # "forget"
  BY <1>2, AfterIs DEF CleansApps
<1>4. Rest(p[1][2]) = AppEnd(r, q, w, op.undo)
  BY <1>1, RestOfApps
<1> HIDE DEF r
<1>5. /\ AppEnd(r, q, w, op.undo) \in Seq(Steps) /\ AppEnd(r, q, w, op.undo) # <<>>
      /\ Contains(op.todo, GateB)
  BY <1>1, <1>3, CleanPlans, AppEndIs
<1>6. op' \in Ops /\ op'.todo = AppEnd(r, q, w, op.undo) /\ op'.undo = op.undo /\ op'.failed
  BY <1>1, <1>2, <1>4, <1>5, SkipOp
<1>7. CleansApps(r, q, w)'
  BY <1>3, <1>6 DEF CleansApps, Settled, Follows, Migrated, Pends
<1>8. InCleanup'
  BY <1>3, <1>6, <1>7 DEF InCleanup
<1> QED
  BY <1>1, <1>6, <1>8 DEF PlanPart

LEMMA BranchesGo ==
  ASSUME IInv, op.undo \in Ends, NEW w \in {"purge", "pass"},
         NEW q \in Seq(OfBranches), q # <<>>, CleansBranches(q, w),
         Goes, UNCHANGED <<sidecar, wrapper, torn, loaded, prepared>>,
         \A b \in owned' : b \in owned /\ q[1] # <<"disown", b>>
  PROVE  op' \in Ops /\ PlanPart'
<1>1. op \in Ops /\ op.todo = BranchEnd(q, w, op.undo) /\ op.todo # <<>> /\ loaded'
  <2>1. op \in Ops /\ op.todo = BranchEnd(q, w, op.undo) /\ op.todo # <<>>
    BY BranchEndIs DEF IInv, TypePart, CleansBranches
  <2> QED
    BY <2>1, IsLoaded
<1> DEFINE t == Tail(q)
<1>2. t \in Seq(OfBranches) /\ Tail(op.todo) = BranchEnd(t, w, op.undo) /\ Tail(op.todo) # <<>>
  <2>1. t \in Seq(OfBranches) /\ Tail(op.todo) = BranchEnd(t, w, op.undo)
    BY <1>1, BranchEndIs
  <2> HIDE DEF t
  <2>2. BranchEnd(t, w, op.undo) # <<>>
    BY <2>1, BranchEndIs
  <2> QED
    BY <2>1, <2>2
<1>3. /\ op' \in Ops /\ op'.undo = op.undo /\ op'.failed = op.failed
      /\ op'.todo = BranchEnd(t, w, op'.undo)
  BY <1>1, <1>2, GoesOp
<1>4. Pairs(t, "remove", "disown") /\ Settled' /\ NoApps'
  BY PairsTail DEF CleansBranches, Settled, Follows, Migrated, NoApps
<1>5. ASSUME NEW b \in owned'
      PROVE  op'.failed \/ Pends(<<"disown", b>>, t)
  BY <1>3, PendsTail DEF CleansBranches
<1> HIDE DEF t
<1>6. CleansBranches(t, w)'
  BY <1>3, <1>4, <1>5 DEF CleansBranches, Pends
<1>7. InCleanup'
  BY <1>2, <1>3, <1>6 DEF InCleanup
<1> QED
  BY <1>1, <1>3, <1>7 DEF PlanPart

LEMMA BranchesSkip ==
  ASSUME IInv, op.undo \in Ends, NEW w \in {"purge", "pass"},
         NEW q \in Seq(OfBranches), q # <<>>, CleansBranches(q, w),
         Stops(q[1][2]), UNCHANGED <<sidecar, wrapper, torn, loaded, owned, prepared>>
  PROVE  op' \in Ops /\ PlanPart'
<1>1. op \in Ops /\ op.todo = BranchEnd(q, w, op.undo) /\ op.todo # <<>> /\ loaded'
  <2>1. op \in Ops /\ op.todo = BranchEnd(q, w, op.undo) /\ op.todo # <<>>
    BY BranchEndIs DEF IInv, TypePart, CleansBranches
  <2> QED
    BY <2>1, IsLoaded
<1> DEFINE r == After(q)
<1>2. q[1] \in OfBranches /\ q[1][1] \in {"remove", "disown"} /\ q[1][2] # "gate"
  <2>1. q[1] \in OfBranches
    BY TailIs
  <2> QED
    BY <2>1, LsfgAssumption DEF OfBranches
<1>3. r \in Seq(OfBranches) /\ Pairs(r, "remove", "disown")
  BY <1>2, AfterIs DEF CleansBranches
<1>4. Rest(q[1][2]) = BranchEnd(r, w, op.undo)
  BY <1>1, RestOfBranches
<1> HIDE DEF r
<1>5. /\ BranchEnd(r, w, op.undo) \in Seq(Steps) /\ BranchEnd(r, w, op.undo) # <<>>
      /\ Contains(op.todo, GateB)
  <2>1. <<>> \in Seq(OfApps)
    BY EmptySeq
  <2>2. BranchEnd(r, w, op.undo) \in Seq(Steps)
    BY <1>3, <2>1, CleanPlans
  <2>3. BranchEnd(r, w, op.undo) # <<>>
    BY <1>3, BranchEndIs
  <2>4. Contains(BranchEnd(q, w, op.undo), GateB)
    BY <2>1, CleanPlans
  <2> QED
    BY <1>1, <2>2, <2>3, <2>4
<1>6. op' \in Ops /\ op'.todo = BranchEnd(r, w, op.undo) /\ op'.undo = op.undo /\ op'.failed
  BY <1>1, <1>2, <1>4, <1>5, SkipOp
<1>7. CleansBranches(r, w)'
  BY <1>3, <1>6 DEF CleansBranches, Settled, Follows, Migrated, Pends, NoApps
<1>8. InCleanup'
  BY <1>3, <1>6, <1>7 DEF InCleanup
<1> QED
  BY <1>1, <1>6, <1>8 DEF PlanPart

\* Cleaning up is given up, and Decky is done with the plugin or not.
LEMMA EndsPlan ==
  ASSUME op \in Ops, op.undo \in Ends, NEW x, Stops(x), ~Contains(op.todo, GateB) \/ x = "gate",
         loaded', Settled' \/ op.undo # <<>>
  PROVE  op' \in Ops /\ PlanPart'
<1>1. /\ op' \in Ops /\ op'.todo = op.undo /\ op'.undo = <<>>
      /\ op.undo = <<>> => op' = Idle
  BY StopsOp
<1>2. CASE op.undo = <<>>
  <2>1. op' = Idle /\ Settled'
    BY <1>1, <1>2
  <2> QED
    BY <2>1, IdlePlan
<1>3. CASE op.undo # <<>>
  <2>1. IsLeaving'
    BY <1>1, <1>3 DEF IsLeaving, Ends
  <2> QED
    BY <1>1, <2>1 DEF PlanPart
<1> QED
  BY <1>2, <1>3

LEMMA GateStep ==
  ASSUME IInv, NEW x \in {"apps", "branches"}, Gate(x)
  PROVE  IInv'
<1>1. At("gate", x) /\ (IF op.failed THEN Stops("gate") ELSE Goes)
  BY DEF Gate
<1>2. UNCHANGED <<sidecar, wrapper, torn, loaded, owned, prepared, override, profiles>>
  BY DEF Gate, pair, flatpak, config
<1>3. op \in Ops /\ op.todo # <<>> /\ loaded' /\ InCleanup /\ op.undo \in Ends
  BY <1>1, <1>2, Where DEF ActingKinds, InCleanup
<1>4. CASE op.failed
  <2>1. Settled'
    <3>1. CASE x = "apps"
      BY <1>1, <1>2, <1>3, <3>1, WhereCleans DEF CleansApps, Settled, Follows, Migrated
    <3>2. CASE x = "branches"
      BY <1>1, <1>2, <1>3, <3>2, WhereCleans DEF CleansBranches, Settled, Follows, Migrated
    <3> QED
      BY <3>1, <3>2
  <2>2. op' \in Ops /\ PlanPart'
    BY <1>1, <1>3, <1>4, <2>1, EndsPlan
  <2> QED
    BY <1>2, <2>2 DEF IInv, TypePart
<1>5. CASE ~op.failed /\ x = "apps"
  <2>1. PICK w \in {"purge", "pass"}, q \in Seq(OfBranches) : CleansApps(<<>>, q, w)
    BY <1>1, <1>3, <1>5, WhereCleans
  <2>2. <<>> \in Seq(OfApps) /\ \A y : ~Pends(y, <<>>)
    BY EmptySeq, NothingPends
  <2>3. op.todo = AppEnd(<<>>, q, w, op.undo)
    BY <2>1 DEF CleansApps
  <2>4. Tail(op.todo) = BranchEnd(q, w, op.undo)
    <3>1. Tail(AppEnd(<<>>, q, w, op.undo)) = BranchEnd(q, w, op.undo)
      BY <1>3, AppEndEmpty
    <3> QED
      BY <2>3, <3>1
  <2>5. BranchEnd(q, w, op.undo) # <<>>
    BY <1>3, BranchEndIs
  <2>6. op' \in Ops /\ op'.todo = BranchEnd(q, w, op'.undo) /\ op'.undo = op.undo
    BY <1>1, <1>3, <1>5, <2>4, <2>5, GoesOp
  <2>7. CleansBranches(q, w)'
    BY <1>2, <1>5, <2>1, <2>2, <2>6
       DEF CleansApps, CleansBranches, Settled, Follows, Migrated, NoApps, Pends
  <2>8. InCleanup'
    BY <1>3, <2>6, <2>7 DEF InCleanup
  <2> QED
    BY <1>2, <1>3, <2>6, <2>8 DEF IInv, TypePart, PlanPart
<1>6. CASE ~op.failed /\ x = "branches"
  <2>1. PICK w \in {"purge", "pass"} : CleansBranches(<<>>, w)
    BY <1>1, <1>3, <1>6, WhereCleans
  <2>2. <<>> \in Seq(OfBranches) /\ \A y : ~Pends(y, <<>>)
    BY EmptySeq, NothingPends
  <2>3. PICK q \in Seq(OfBranches) : q = <<>>
    BY <2>2
  <2>4. Tail(op.todo) = AllEnd(w, op.undo)
    <3>1. op.todo = BranchEnd(q, w, op.undo)
      BY <2>1, <2>3 DEF CleansBranches
    <3>2. Tail(BranchEnd(q, w, op.undo)) = AllEnd(w, op.undo)
      BY <1>3, <2>3, BranchEndIs
    <3> QED
      BY <3>1, <3>2
  <2>5. AllEnd(w, op.undo) # <<>>
    BY <1>3, EndTails
  <2>6. op' \in Ops /\ op'.todo = AllEnd(w, op'.undo) /\ op'.undo = op.undo
    BY <1>1, <1>3, <1>6, <2>4, <2>5, GoesOp
  <2>7. CleansProfiles(w)'
    BY <1>2, <1>6, <2>1, <2>2, <2>6
       DEF CleansBranches, CleansProfiles, Settled, Follows, Migrated, NoApps
  <2>8. InCleanup'
    BY <1>3, <2>6, <2>7 DEF InCleanup
  <2> QED
    BY <1>2, <1>3, <2>6, <2>8 DEF IInv, TypePart, PlanPart
<1> QED
  BY <1>4, <1>5, <1>6

LEMMA ResetStep ==
  ASSUME IInv, NEW a \in Apps, Reset(a)
  PROVE  IInv'
<1>1. /\ At("reset", a) /\ op.todo # <<>> /\ Head(op.todo) = <<"reset", a>>
      /\ InMethod \/ InUndoing \/ InCleanup
  BY Where DEF Reset
<1>2. UNCHANGED <<sidecar, wrapper, torn, loaded, owned, prepared>>
  BY DEF Reset, pair
<1>3. \/ Goes /\ override' = [override EXCEPT ![a] = "none"]
      \/ Stops(a) /\ UNCHANGED override
  BY DEF Reset, CommandFails, Fails
<1>4. override' = [b \in Apps |-> override'[b]] /\ (Goes => override'[a] = "none" \/ Stops(a))
  BY <1>3 DEF IInv, TypePart
<1>5. op' \in Ops /\ PlanPart'
  <2>1. CASE InMethod
    BY <1>1, <1>2, <1>3, <2>1, MethodMoves
  <2>2. CASE InUndoing
    <3>1. CASE Goes /\ override' = [override EXCEPT ![a] = "none"]
      <4>1. override'[a] = "none"
        BY <3>1 DEF IInv, TypePart
      <4>2. Head(op.todo)[2] = a
        BY <1>1
      <4> QED
        BY <1>1, <1>2, <2>2, <3>1, <4>1, <4>2, UndoingMoves
    <3>2. CASE Stops(a) /\ ~Goes
      BY <1>1, <1>2, <2>2, <3>2, UndoingMoves
    <3>3. CASE Stops(a) /\ Goes /\ UNCHANGED override
      <4>1. op \in Ops /\ op.undo = <<>> /\ op.todo \in Seq(Undoing)
        BY <2>2 DEF InUndoing, IInv, TypePart
      <4>2. ~Contains(op.todo, GateB)
        BY <4>1, StepSets, NotIn
      <4>3. op' = Idle
        BY <3>3, <4>1, <4>2, StopsOp
      <4>4. Settled' /\ loaded'
        <5>1. loaded
          BY <1>1, IsLoaded
        <5> QED
          BY <1>2, <2>2, <5>1 DEF InUndoing, Settled, Follows, Migrated
      <4> QED
        BY <4>3, <4>4, IdlePlan
    <3> QED
      BY <1>3, <3>1, <3>2, <3>3
  <2>3. CASE InCleanup
    <3>1. op.undo \in Ends
      BY <2>3 DEF InCleanup
    <3>5. CleansApp("reset", a)
      BY <1>1, <2>3, WhereCleans
    <3>2. PICK w \in {"purge", "pass"}, p \in Seq(OfApps), q \in Seq(OfBranches) :
            CleansApps(p, q, w) /\ p # <<>> /\ p[1] = <<"reset", a>>
      BY <3>5 DEF CleansApp
    <3>3. CASE Goes /\ override' = [override EXCEPT ![a] = "none"]
      <4>1. override'[a] = "none" /\ p[1][2] = a
        BY <3>2, <3>3 DEF IInv, TypePart
      <4>2. \A b \in Apps : prepared'[b] # "no" => prepared[b] # "no" /\ p[1] # <<"forget", b>>
        BY <1>2, <3>2
      <4> QED
        BY <1>2, <3>1, <3>2, <3>3, <4>1, <4>2, AppsGo
    <3>4. CASE Stops(a) /\ UNCHANGED override
      <4>1. p[1][2] = a
        BY <3>2
      <4> QED
        BY <1>2, <3>1, <3>2, <3>4, <4>1, AppsSkip
    <3> QED
      BY <1>3, <3>3, <3>4
  <2> QED
    BY <1>1, <2>1, <2>2, <2>3
<1> QED
  BY <1>2, <1>4, <1>5 DEF IInv, TypePart

LEMMA ForgetStep ==
  ASSUME IInv, NEW a \in Apps, ForgetApp(a)
  PROVE  IInv' /\ override[a] = "none"
<1>1. /\ At("forget", a) /\ op.todo # <<>> /\ Head(op.todo) = <<"forget", a>> /\ op \in Ops
      /\ InUndoing \/ InCleanup
  BY Where DEF ForgetApp, ActingKinds
<1>2. UNCHANGED <<sidecar, wrapper, torn, loaded, owned, override>>
  BY DEF ForgetApp, pair
<1>3. \/ Goes /\ prepared' = [prepared EXCEPT ![a] = "no"]
      \/ Stops(a) /\ UNCHANGED prepared
  BY DEF ForgetApp, Fails
<1>4. prepared' = [b \in Apps |-> prepared'[b]]
  BY <1>3 DEF IInv, TypePart
<1>5. op' \in Ops /\ PlanPart' /\ override[a] = "none"
  <2>1. CASE InUndoing
    <3>1. op.todo \in Seq(Undoing) /\ op.todo[1] = <<"forget", a>> /\ 1 \in DOMAIN op.todo
      BY <1>1, <2>1, TailIs DEF InUndoing
    <3>2. override[a] = "none"
      BY <2>1, <3>1 DEF InUndoing, ForgetsReset1
    <3>3. Goes \/ Stops(a)
      BY <1>3
    <3>4. Head(op.todo)[1] # "reset"
      BY <1>1
    <3>5. op' \in Ops /\ PlanPart'
      BY <1>1, <1>2, <2>1, <3>3, <3>4, UndoingMoves
    <3> QED
      BY <3>2, <3>5
  <2>2. CASE InCleanup
    <3>1. op.undo \in Ends
      BY <2>2 DEF InCleanup
    <3>7. CleansApp("forget", a)
      BY <1>1, <2>2, WhereCleans
    <3>2. PICK w \in {"purge", "pass"}, p \in Seq(OfApps), q \in Seq(OfBranches) :
            CleansApps(p, q, w) /\ p # <<>> /\ p[1] = <<"forget", a>>
      BY <3>7 DEF CleansApp
    <3>3. p[1][1] = "forget" /\ p[1][2] = a
      BY <3>2
    <3>4. override[a] = "none"
      BY <3>2, <3>3 DEF CleansApps
    <3>5. CASE Goes /\ prepared' = [prepared EXCEPT ![a] = "no"]
      <4>1. \A b \in Apps : prepared'[b] # "no" => prepared[b] # "no" /\ p[1] # <<"forget", b>>
        BY <3>2, <3>5 DEF IInv, TypePart
      <4> QED
        BY <1>2, <3>1, <3>2, <3>3, <3>4, <3>5, <4>1, AppsGo
    <3>6. CASE Stops(a) /\ UNCHANGED prepared
      BY <1>2, <3>1, <3>2, <3>3, <3>4, <3>6, AppsSkip
    <3> QED
      BY <1>3, <3>5, <3>6
  <2> QED
    BY <1>1, <2>1, <2>2
<1> QED
  BY <1>2, <1>4, <1>5 DEF IInv, TypePart

LEMMA BranchSteps ==
  ASSUME IInv, NEW b \in Branches, RemoveExtension(b) \/ Disown(b)
  PROVE  IInv' /\ (Disown(b) => NoApps)
<1>1. PICK s \in {"remove", "disown"} : At(s, b) /\ (Disown(b) => s = "disown")
                                       /\ (RemoveExtension(b) => s = "remove")
  <2>1. ~(At("remove", b) /\ At("disown", b))
    BY DEF At
  <2>2. CASE RemoveExtension(b)
    <3>1. At("remove", b) /\ ~Disown(b)
      BY <2>1, <2>2 DEF RemoveExtension, Disown
    <3> QED
      BY <3>1
  <2>3. CASE Disown(b)
    <3>1. At("disown", b) /\ ~RemoveExtension(b)
      BY <2>1, <2>3 DEF RemoveExtension, Disown
    <3> QED
      BY <3>1
  <2> QED
    BY <2>2, <2>3
<1>2. UNCHANGED <<sidecar, wrapper, torn, loaded, prepared, override>>
  BY DEF RemoveExtension, Disown, pair
<1>3. \/ Goes /\ IF s = "disown" THEN owned' = owned \ {b} ELSE UNCHANGED owned
      \/ Stops(b) /\ UNCHANGED owned
  BY <1>1 DEF RemoveExtension, Disown, CommandFails, Fails
<1>4. InCleanup /\ op.undo \in Ends /\ op \in Ops
  BY <1>1, Where DEF ActingKinds, InCleanup
<1>9. CleansBranch(s, b)
  BY <1>1, <1>4, WhereCleans
<1>5. PICK w \in {"purge", "pass"}, q \in Seq(OfBranches) :
        CleansBranches(q, w) /\ q # <<>> /\ q[1] = <<s, b>>
  BY <1>9 DEF CleansBranch
<1>6. q[1][2] = b /\ q[1][1] = s
  BY <1>5
<1>7. CASE Goes /\ IF s = "disown" THEN owned' = owned \ {b} ELSE UNCHANGED owned
  <2>1. \A c \in owned' : c \in owned /\ q[1] # <<"disown", c>>
    BY <1>5, <1>6, <1>7
  <2>2. op' \in Ops /\ PlanPart'
    BY <1>2, <1>4, <1>5, <1>7, <2>1, BranchesGo
  <2> QED
    BY <1>2, <1>5, <1>7, <2>1, <2>2 DEF IInv, TypePart, CleansBranches
<1>8. CASE Stops(b) /\ UNCHANGED owned
  <2>1. op' \in Ops /\ PlanPart'
    BY <1>2, <1>4, <1>5, <1>6, <1>8, BranchesSkip
  <2> QED
    BY <1>2, <1>5, <1>8, <2>1 DEF IInv, TypePart, CleansBranches
<1> QED
  BY <1>3, <1>7, <1>8
-----------------------------------------------------------------------------
(* Profiles, the wrapper and its state, and the files.                     *)

LEMMA NoGate ==
  ASSUME NEW t \in Seq(Late) \union Seq(Undoing) \union Seq(Acting)
  PROVE  ~Contains(t, GateB)
BY StepSets, NotIn

LEMMA DropStep ==
  ASSUME IInv, NEW a \in Apps, DropProfile(a)
  PROVE  IInv'
<1>1. At("unprofile", a) /\ (Goes \/ Stops(a)) /\ a # "all"
  BY LsfgAssumption DEF DropProfile, ChangeProfiles
<1>2. UNCHANGED <<sidecar, wrapper, torn, loaded, owned, prepared, override>>
  BY DEF DropProfile, ChangeProfiles, pair, flatpak
<1>3. op.todo # <<>> /\ Head(op.todo) = <<"unprofile", a>> /\ InUndoing
  BY <1>1, Where, WhereCleans DEF ActingKinds
<1>4. Head(op.todo)[1] # "reset"
  BY <1>3
<1>5. op' \in Ops /\ PlanPart'
  BY <1>1, <1>2, <1>3, <1>4, UndoingMoves
<1> QED
  BY <1>2, <1>5 DEF IInv, TypePart

LEMMA DropAllStep ==
  ASSUME IInv, DropProfiles
  PROVE  IInv'
<1> DEFINE new == [k \in Games \union Apps |-> IF k \in Apps THEN "none" ELSE profiles[k]]
<1>1. At("unprofile", "all") /\ ((Save(new) /\ Goes) \/ Stops("all"))
  BY LsfgAssumption DEF DropProfiles, ChangeProfiles
<1>2. UNCHANGED <<sidecar, wrapper, torn, loaded, owned, prepared, override>>
  BY DEF DropProfiles, ChangeProfiles, pair, flatpak
<1>3. /\ op.todo # <<>> /\ Head(op.todo) = <<"unprofile", "all">> /\ op \in Ops /\ loaded'
      /\ InUndoing \/ InCleanup
  BY <1>1, <1>2, Where DEF ActingKinds
<1>4. CASE InUndoing
  <2>1. Head(op.todo)[1] # "reset"
    BY <1>3
  <2>2. op' \in Ops /\ PlanPart'
    BY <1>1, <1>2, <1>3, <1>4, <2>1, UndoingMoves
  <2> QED
    BY <1>2, <2>2 DEF IInv, TypePart
<1>5. CASE InCleanup
  <2>1. op.undo \in Ends
    BY <1>5 DEF InCleanup
  <2>2. PICK w \in {"purge", "pass"} : CleansProfiles(w)
    BY <1>1, <1>5, WhereCleans
  <2>3. /\ op.todo = AllEnd(w, op.undo) /\ NoApps' /\ owned' = {} /\ Settled'
    BY <1>2, <2>2 DEF CleansProfiles, NoApps, Settled, Follows, Migrated
  <2>4. CASE Save(new) /\ Goes
    <3>1. NoProfiles'
      BY <2>4 DEF Save, NoProfiles
    <3>2. Tail(op.todo) = WrapEnd(w, op.undo) /\ WrapEnd(w, op.undo) # <<>>
      BY <2>1, <2>3, EndTails
    <3>3. op' \in Ops /\ op'.todo = WrapEnd(w, op'.undo) /\ op'.undo = op.undo
      BY <1>3, <2>4, <3>2, GoesOp
    <3>4. CleansWrapper(w)'
      BY <2>3, <3>1, <3>3 DEF CleansWrapper
    <3>5. InCleanup'
      BY <2>1, <3>3, <3>4 DEF InCleanup
    <3> QED
      BY <1>2, <1>3, <3>3, <3>5 DEF IInv, TypePart, PlanPart
  <2>5. CASE Stops("all")
    <3>1. op.todo \in Seq(Late)
      BY <2>1, <2>3, EndPlans
    <3>2. op' \in Ops /\ PlanPart'
      BY <1>3, <2>1, <2>3, <2>5, <3>1, NoGate, EndsPlan
    <3> QED
      BY <1>2, <3>2 DEF IInv, TypePart
  <2> QED
    BY <1>1, <2>4, <2>5
<1> QED
  BY <1>3, <1>4, <1>5

LEMMA AdrenoStep ==
  ASSUME IInv, Adreno
  PROVE  IInv'
<1>1. At("adreno", "conf") /\ Goes
  BY DEF Adreno
<1>2. UNCHANGED <<sidecar, wrapper, torn, loaded, owned, prepared, override>>
  BY DEF Adreno, pair, flatpak
<1>3. /\ op.todo # <<>> /\ Head(op.todo) = Adr /\ op \in Ops /\ loaded'
      /\ InMethod \/ InRepair \/ InPair
  BY <1>1, <1>2, Where DEF Adr
<1>4. CASE InMethod
  <2>1. op' \in Ops /\ PlanPart'
    BY <1>1, <1>2, <1>3, <1>4, MethodMoves
  <2> QED
    BY <1>2, <2>1 DEF IInv, TypePart
<1>5. CASE InRepair
  <2>1. op.todo = <<Adr, WrapNew>> /\ op.undo = <<>> /\ op.doc = Document
    BY <1>3, <1>5 DEF InRepair, Adr, WrapNew
  <2>2. Tail(op.todo) = <<WrapNew>> /\ Tail(op.todo) # <<>>
    BY <2>1
  <2>3. op' \in Ops /\ op'.todo = <<WrapNew>> /\ op'.undo = <<>> /\ op'.doc = op.doc
    BY <1>1, <1>3, <2>1, <2>2, GoesOp
  <2>4. Document' = Document
    BY <1>2 DEF Document, Migrated
  <2>5. InRepair'
    BY <2>1, <2>3, <2>4 DEF InRepair
  <2> QED
    BY <1>2, <1>3, <2>3, <2>5 DEF IInv, TypePart, PlanPart
<1>6. CASE InPair
  <2>1. /\ op.todo = <<Adr, SideNew, WrapNew>> /\ op.undo = <<SideOld, WrapOld>>
        /\ op.back = <<sidecar, wrapper>>
    BY <1>3, <1>6 DEF InPair, Adr, SideNew
  <2>2. Tail(op.todo) = <<SideNew, WrapNew>> /\ Tail(op.todo) # <<>>
    BY <2>1
  <2>3. /\ op' \in Ops /\ op'.todo = <<SideNew, WrapNew>> /\ op'.undo = op.undo
        /\ op'.back = op.back
    BY <1>1, <1>3, <2>1, <2>2, GoesOp
  <2>4. InPair'
    BY <1>2, <2>1, <2>3 DEF InPair
  <2> QED
    BY <1>2, <1>3, <2>3, <2>4 DEF IInv, TypePart, PlanPart
<1> QED
  BY <1>3, <1>4, <1>5, <1>6

LEMMA AbsentFollows ==
  /\ Absent \in Sidecars /\ Absent \in Wrappers /\ Absent.is = "absent"
  /\ \A w : Follows(Absent, w)
BY DEF Absent, None, Sidecars, Wrappers, Docs, Follows

LEMMA SidecarStep ==
  ASSUME IInv, NEW x, WriteSidecar(x)
  PROVE  IInv'
<1>1. At("sidecar", x) /\ UNCHANGED <<wrapper, loaded, owned, prepared, override, profiles>>
  BY DEF WriteSidecar, flatpak, config
<1>2. \/ sidecar' = PairAs(x, 1) /\ Goes /\ UNCHANGED torn
      \/ Stops(x) /\ Tears /\ UNCHANGED sidecar
  BY DEF WriteSidecar, Fails
<1>3. /\ op.todo # <<>> /\ Head(op.todo) = <<"sidecar", x>> /\ op \in Ops /\ loaded'
      /\ \/ InPair /\ x = "new"
         \/ InRestore /\ x = "old"
         \/ InCleanup
  BY <1>1, Where DEF ActingKinds
<1>4. /\ sidecar \in Sidecars /\ wrapper \in Wrappers /\ op.doc \in Docs
      /\ op.back[1] \in Sidecars /\ op.back[2] \in Wrappers
  BY <1>3 DEF IInv, TypePart, Ops
<1>5. CASE InPair /\ x = "new"
  <2>1. /\ op.todo = <<SideNew, WrapNew>> /\ op.undo = <<SideOld, WrapOld>>
        /\ op.back = <<sidecar, wrapper>>
    BY <1>3, <1>5 DEF InPair, Adr, SideNew
  <2>2. CASE sidecar' = PairAs(x, 1) /\ Goes /\ UNCHANGED torn
    <3>1. sidecar' = [is |-> "new", apps |-> op.doc]
      BY <1>5, <2>2 DEF PairAs
    <3>2. Tail(op.todo) = <<WrapNew>> /\ Tail(op.todo) # <<>>
      BY <2>1
    <3>3. /\ op' \in Ops /\ op'.todo = <<WrapNew>> /\ op'.undo = op.undo /\ op'.doc = op.doc
          /\ op'.back = op.back
      BY <1>3, <2>2, <3>2, GoesOp
    <3>4. InHalf'
      BY <1>1, <2>1, <3>1, <3>3 DEF InHalf
    <3>5. sidecar' \in Sidecars
      BY <1>4, <3>1 DEF Sidecars
    <3> QED
      BY <1>1, <1>3, <3>3, <3>4, <3>5 DEF IInv, TypePart, PlanPart
  <2>3. CASE Stops(x) /\ Tears /\ UNCHANGED sidecar
    <3>1. ~Contains(op.todo, GateB)
      <4>1. op.todo \in Seq({SideNew, WrapNew})
        BY <2>1
      <4>2. GateB \notin {SideNew, WrapNew}
        BY DEF GateB, SideNew, WrapNew
      <4> QED
        BY <4>1, <4>2, NotIn
    <3>2. op.undo # <<>>
      BY <2>1
    <3>3. /\ op' \in Ops /\ op'.todo = op.undo /\ op'.undo = <<>>
          /\ op'.back = op.back
      BY <1>3, <2>3, <3>1, <3>2, StopsOp
    <3>4. torn' = (torn \/ op.undo = <<>> \/ ~Follows(op.back[1], op.back[2]))
      BY <2>3 DEF Tears
    <3>5. BackAgrees'
      BY <3>3, <3>4 DEF BackAgrees, Follows, Migrated
    <3>6. InRestore'
      BY <1>1, <2>1, <3>3, <3>5 DEF InRestore
    <3> QED
      BY <1>1, <1>3, <2>3, <3>3, <3>6 DEF IInv, TypePart, PlanPart
  <2> QED
    BY <1>2, <2>2, <2>3
<1>6. CASE InRestore /\ x = "old"
  <2>1. /\ op.todo = <<SideOld, WrapOld>> /\ op.undo = <<>>
        /\ wrapper = op.back[2] /\ BackAgrees
    BY <1>6 DEF InRestore
  <2>2. CASE sidecar' = PairAs(x, 1) /\ Goes /\ UNCHANGED torn
    <3>1. sidecar' = op.back[1]
      BY <1>6, <2>2 DEF PairAs
    <3>2. Tail(op.todo) = <<WrapOld>> /\ Tail(op.todo) # <<>>
      BY <2>1
    <3>3. /\ op' \in Ops /\ op'.todo = <<WrapOld>> /\ op'.undo = op.undo /\ op'.back = op.back
      BY <1>3, <2>2, <3>2, GoesOp
    <3>4. InRestored'
      BY <1>1, <2>1, <2>2, <3>1, <3>3 DEF InRestored, BackAgrees, Follows, Migrated
    <3> QED
      BY <1>1, <1>3, <1>4, <3>1, <3>3, <3>4 DEF IInv, TypePart, PlanPart
  <2>3. CASE Stops(x) /\ Tears /\ UNCHANGED sidecar
    <3>1. ~Contains(op.todo, GateB)
      <4>1. op.todo \in Seq({SideOld, WrapOld})
        BY <2>1
      <4>2. GateB \notin {SideOld, WrapOld}
        BY DEF GateB, SideOld, WrapOld
      <4> QED
        BY <4>1, <4>2, NotIn
    <3>2. op' = Idle
      BY <1>3, <2>1, <2>3, <3>1, StopsOp
    <3>3. Settled'
      BY <2>1, <2>3 DEF Tears, Settled
    <3>4. op' \in Ops /\ PlanPart'
      BY <1>3, <3>2, <3>3, IdlePlan
    <3> QED
      BY <1>1, <2>3, <3>4 DEF IInv, TypePart
  <2> QED
    BY <1>2, <2>2, <2>3
<1>7. CASE InCleanup
  <2>1. op.undo \in Ends /\ x = "purge" /\ CleansSidecar
    BY <1>1, <1>7, WhereCleans
  <2>2. op.todo = SideEnd(op.undo) /\ NoApps' /\ owned' = {} /\ NoProfiles'
    BY <1>1, <2>1 DEF CleansSidecar, NoApps, NoProfiles
  <2>3. CASE sidecar' = PairAs(x, 1) /\ Goes /\ UNCHANGED torn
    <3>1. sidecar' = Absent /\ sidecar' \in Sidecars /\ sidecar'.is = "absent"
      BY <2>1, <2>3, AbsentFollows DEF PairAs
    <3>2. Settled'
      BY <3>1, AbsentFollows DEF Settled
    <3>3. Tail(op.todo) = EraseEnd(op.undo) /\ EraseEnd(op.undo) # <<>>
      BY <2>1, <2>2, EndTails
    <3>4. op' \in Ops /\ op'.todo = EraseEnd(op'.undo) /\ op'.undo = op.undo
      BY <1>3, <2>3, <3>3, GoesOp
    <3>5. CleansFiles'
      BY <2>2, <3>1, <3>2, <3>4 DEF CleansFiles
    <3>6. InCleanup'
      BY <2>1, <3>4, <3>5 DEF InCleanup
    <3> QED
      BY <1>1, <1>3, <3>1, <3>4, <3>6 DEF IInv, TypePart, PlanPart
  <2>4. CASE Stops(x) /\ Tears /\ UNCHANGED sidecar
    <3>1. ~Contains(op.todo, GateB)
      BY <2>1, <2>2, EndPlans, NoGate
    <3>2. Settled' \/ op.undo # <<>>
      BY <2>4 DEF Tears, Settled
    <3>3. op' \in Ops /\ PlanPart'
      BY <1>3, <2>1, <2>4, <3>1, <3>2, EndsPlan
    <3> QED
      BY <1>1, <2>4, <3>3 DEF IInv, TypePart
  <2> QED
    BY <1>2, <2>3, <2>4
<1> QED
  BY <1>3, <1>5, <1>6, <1>7

LEMMA ShortPlans ==
  /\ ~Contains(<<WrapNew>>, GateB) /\ ~Contains(<<WrapOld>>, GateB)
<1>1. <<WrapNew>> \in Seq({WrapNew}) /\ <<WrapOld>> \in Seq({WrapOld})
  OBVIOUS
<1>2. GateB \notin {WrapNew} /\ GateB \notin {WrapOld}
  BY DEF GateB, WrapNew, WrapOld
<1> QED
  BY <1>1, <1>2, NotIn

\* The last step of a method that wrote the wrapper.
LEMMA LastWrite ==
  ASSUME op \in Ops, loaded', op.undo = <<>>, op.todo \in {<<WrapNew>>, <<WrapOld>>},
         NEW x, Goes \/ Stops(x), Settled'
  PROVE  op' \in Ops /\ PlanPart'
<1>1. op.todo # <<>> /\ Tail(op.todo) = <<>> /\ ~Contains(op.todo, GateB)
  <2>1. CASE op.todo = <<WrapNew>>
    BY <2>1, ShortPlans
  <2>2. CASE op.todo = <<WrapOld>>
    BY <2>2, ShortPlans
  <2> QED
    BY <2>1, <2>2
<1>2. op' = Idle
  BY <1>1, GoesOp, StopsOp
<1> QED
  BY <1>2, IdlePlan

LEMMA WrapperStep ==
  ASSUME IInv, NEW x, WriteWrapper(x)
  PROVE  IInv'
<1>1. At("wrapper", x) /\ UNCHANGED <<sidecar, loaded, owned, prepared, override, profiles>>
  BY DEF WriteWrapper, flatpak, config
<1>2. \/ wrapper.is = "foreign" /\ Stops(x) /\ UNCHANGED <<wrapper, torn>>
      \/ wrapper' = PairAs(x, 2) /\ Goes /\ UNCHANGED torn
      \/ Stops(x) /\ Tears /\ UNCHANGED wrapper
  BY DEF WriteWrapper, Fails
<1>3. /\ op.todo # <<>> /\ Head(op.todo) = <<"wrapper", x>> /\ op \in Ops /\ loaded'
      /\ \/ InRepair /\ x = "new"
         \/ InHalf /\ x = "new"
         \/ InRestored /\ x = "old"
         \/ InCleanup
  BY <1>1, Where DEF ActingKinds
<1>4. /\ sidecar \in Sidecars /\ wrapper \in Wrappers /\ op.doc \in Docs
      /\ op.back[1] \in Sidecars /\ op.back[2] \in Wrappers
  BY <1>3 DEF IInv, TypePart, Ops
<1>5. CASE InRepair /\ x = "new"
  <2>1. op.todo = <<WrapNew>> /\ op.undo = <<>> /\ op.doc = Document
    BY <1>3, <1>5 DEF InRepair, Adr, WrapNew
  <2>2. wrapper' \in Wrappers /\ Settled' /\ (Goes \/ Stops(x))
    <3>1. CASE wrapper.is = "foreign" /\ UNCHANGED <<wrapper, torn>>
      BY <1>1, <1>2, <1>4, <3>1 DEF Settled, Follows
    <3>2. CASE wrapper' = PairAs(x, 2) /\ Goes /\ UNCHANGED torn
      <4>1. wrapper' = [is |-> "ours", apps |-> Migrated(sidecar)]
        BY <1>5, <2>1, <3>2 DEF PairAs, Document
      <4>2. wrapper' \in Wrappers
        BY <1>4, <2>1, <4>1 DEF Wrappers, Document
      <4>3. Migrated(sidecar') = Migrated(sidecar) /\ sidecar' = sidecar
        BY <1>1
      <4> QED
        BY <3>2, <4>1, <4>2, <4>3 DEF Settled, Follows
    <3>3. CASE Stops(x) /\ Tears /\ UNCHANGED wrapper
      BY <1>4, <2>1, <3>3 DEF Tears, Settled
    <3> QED
      BY <1>2, <3>1, <3>2, <3>3
  <2>3. op' \in Ops /\ PlanPart'
    BY <1>3, <2>1, <2>2, LastWrite
  <2> QED
    BY <1>1, <2>2, <2>3 DEF IInv, TypePart
<1>6. CASE InHalf /\ x = "new"
  <2>1. /\ op.todo = <<WrapNew>> /\ op.undo = <<SideOld, WrapOld>>
        /\ sidecar = [is |-> "new", apps |-> op.doc] /\ wrapper = op.back[2]
    BY <1>6 DEF InHalf
  <2>2. CASE wrapper' = PairAs(x, 2) /\ Goes /\ UNCHANGED torn
    <3>1. wrapper' = [is |-> "ours", apps |-> op.doc] /\ wrapper' \in Wrappers
      BY <1>4, <1>6, <2>2 DEF PairAs, Wrappers
    <3>2. sidecar'.apps = op.doc
      BY <1>1, <2>1
    <3>3. Settled'
      BY <3>1, <3>2 DEF Settled, Follows
    <3>4. op' = Idle
      BY <1>3, <2>1, <2>2, GoesOp
    <3>5. op' \in Ops /\ PlanPart'
      BY <1>3, <3>3, <3>4, IdlePlan
    <3> QED
      BY <1>1, <3>1, <3>5 DEF IInv, TypePart
  <2>3. CASE Stops(x) /\ UNCHANGED wrapper
    <3>1. /\ op' \in Ops /\ op'.todo = <<SideOld, WrapOld>> /\ op'.undo = <<>>
          /\ op'.back = op.back
      <4>1. op.undo # <<>> /\ ~Contains(op.todo, GateB)
        BY <2>1, ShortPlans
      <4> QED
        BY <1>3, <2>1, <2>3, <4>1, StopsOp
    <3>2. BackAgrees'
      <4>1. CASE wrapper.is = "foreign"
        BY <2>1, <3>1, <4>1 DEF BackAgrees, Follows
      <4>2. CASE Tears
        BY <3>1, <4>2 DEF Tears, BackAgrees, Follows, Migrated
      <4>3. CASE wrapper' = PairAs(x, 2) /\ wrapper.is # "foreign" /\ Goes
        <5>1. op' = Idle
          BY <1>3, <2>1, <4>3, GoesOp
        <5> QED
          BY <3>1, <5>1, IdleIs
      <4> QED
        BY <1>2, <4>1, <4>2, <4>3
    <3>3. InRestore'
      BY <2>1, <2>3, <3>1, <3>2 DEF InRestore
    <3> QED
      BY <1>1, <1>3, <2>3, <3>1, <3>3 DEF IInv, TypePart, PlanPart
  <2> QED
    BY <1>2, <2>2, <2>3
<1>7. CASE InRestored /\ x = "old"
  <2>1. /\ op.todo = <<WrapOld>> /\ op.undo = <<>>
        /\ sidecar = op.back[1] /\ wrapper = op.back[2] /\ BackAgrees
    BY <1>7 DEF InRestored
  <2>2. wrapper' \in Wrappers /\ Settled' /\ (Goes \/ Stops(x))
    <3>1. CASE Stops(x) /\ UNCHANGED <<wrapper, torn>>
      BY <1>1, <1>4, <2>1, <3>1 DEF Settled, BackAgrees, Follows, Migrated
    <3>2. CASE wrapper' = PairAs(x, 2) /\ Goes /\ UNCHANGED torn
      <4>1. wrapper' = op.back[2]
        BY <1>7, <3>2 DEF PairAs
      <4> QED
        BY <1>1, <1>4, <2>1, <3>2, <4>1 DEF Settled, BackAgrees, Follows, Migrated
    <3>3. CASE Stops(x) /\ Tears /\ UNCHANGED wrapper
      BY <1>4, <2>1, <3>3 DEF Tears, Settled
    <3> QED
      BY <1>2, <3>1, <3>2, <3>3
  <2>3. op' \in Ops /\ PlanPart'
    BY <1>3, <2>1, <2>2, LastWrite
  <2> QED
    BY <1>1, <2>2, <2>3 DEF IInv, TypePart
<1>8. CASE InCleanup
  <2>1. op.undo \in Ends /\ x \in {"purge", "pass"} /\ CleansWrapper(x)
    BY <1>1, <1>8, WhereCleans
  <2>2. op.todo = WrapEnd(x, op.undo) /\ NoApps' /\ owned' = {} /\ NoProfiles' /\ Settled
    BY <1>1, <2>1 DEF CleansWrapper, NoApps, NoProfiles
  <2>3. CASE wrapper' = PairAs(x, 2) /\ Goes /\ UNCHANGED torn
    <3>1. wrapper' \in Wrappers
      BY <2>1, <2>3, AbsentFollows DEF PairAs, Wrappers, Docs, None
    <3>2. Tail(op.todo) = SideEnd(op.undo) /\ SideEnd(op.undo) # <<>>
      BY <2>1, <2>2, EndTails
    <3>3. op' \in Ops /\ op'.todo = SideEnd(op'.undo) /\ op'.undo = op.undo
      BY <1>3, <2>3, <3>2, GoesOp
    <3>4. CleansSidecar'
      BY <2>2, <3>3 DEF CleansSidecar
    <3>5. InCleanup'
      BY <2>1, <3>3, <3>4 DEF InCleanup
    <3> QED
      BY <1>1, <1>3, <3>1, <3>3, <3>5 DEF IInv, TypePart, PlanPart
  <2>4. CASE Stops(x) /\ UNCHANGED wrapper /\ (Tears \/ UNCHANGED torn)
    <3>1. ~Contains(op.todo, GateB)
      BY <2>1, <2>2, EndPlans, NoGate
    <3>2. Settled' \/ op.undo # <<>>
      <4>1. CASE Tears
        BY <4>1 DEF Tears, Settled
      <4>2. CASE UNCHANGED torn
        BY <1>1, <2>2, <2>4, <4>2 DEF Settled, Follows, Migrated
      <4> QED
        BY <2>4, <4>1, <4>2
    <3>3. op' \in Ops /\ PlanPart'
      BY <1>3, <2>1, <2>4, <3>1, <3>2, EndsPlan
    <3> QED
      BY <1>1, <2>4, <3>3 DEF IInv, TypePart
  <2> QED
    BY <1>2, <2>3, <2>4
<1> QED
  BY <1>3, <1>5, <1>6, <1>7, <1>8

LEMMA EraseStep ==
  ASSUME IInv, NEW f, EraseFile(f)
  PROVE  IInv' /\ CleansFiles
<1>1. /\ At("erase", f)
      /\ UNCHANGED <<sidecar, wrapper, torn, loaded, owned, prepared, override>>
  BY DEF EraseFile, flatpak, pair
<1>2. /\ Goes \/ Stops(f)
      /\ profiles' = [k \in Games \union Apps |-> "none"] \/ UNCHANGED profiles
  BY DEF EraseFile, Fails
<1>3. /\ op.todo # <<>> /\ Head(op.todo) = <<"erase", f>> /\ op \in Ops /\ loaded'
      /\ InCleanup /\ op.undo \in Ends /\ CleansFiles
  BY <1>1, Where, WhereCleans DEF ActingKinds
<1>4. /\ NoApps' /\ owned' = {} /\ sidecar'.is = "absent" /\ Settled'
      /\ op.todo \in {EraseEnd(op.undo), <<Cli, ConfOut>> \o op.undo, <<ConfOut>> \o op.undo}
  BY <1>1, <1>3 DEF CleansFiles, NoApps, Settled, Follows, Migrated
<1>5. NoProfiles'
  BY <1>2, <1>3 DEF CleansFiles, NoProfiles
<1>6. op' \in Ops /\ PlanPart'
  <2>1. CASE Stops(f)
    <3>1. ~Contains(op.todo, GateB)
      BY <1>3, <1>4, EndPlans, NoGate
    <3> QED
      BY <1>3, <1>4, <2>1, <3>1, EndsPlan
  <2>2. CASE Goes /\ op.todo = <<ConfOut>> \o op.undo
    <3>1. Tail(op.todo) = op.undo
      BY <1>3, <2>2, EndTails
    <3>2. CASE op.undo = <<>>
      <4>1. op' = Idle
        BY <1>3, <2>2, <3>1, <3>2, GoesOp
      <4> QED
        BY <1>3, <1>4, <4>1, IdlePlan
    <3>3. CASE op.undo # <<>>
      <4>1. op' \in Ops /\ op'.todo = op.undo /\ op'.undo = op.undo
        BY <1>3, <2>2, <3>1, <3>3, GoesOp
      <4>2. IsLeaving'
        BY <1>3, <3>3, <4>1 DEF IsLeaving, Ends
      <4> QED
        BY <1>3, <4>1, <4>2 DEF PlanPart
    <3> QED
      BY <3>2, <3>3
  <2>3. CASE Goes /\ op.todo # <<ConfOut>> \o op.undo
    <3>1. /\ Tail(op.todo) \in {<<Cli, ConfOut>> \o op.undo, <<ConfOut>> \o op.undo}
          /\ Tail(op.todo) # <<>>
      <4>1. CASE op.todo = EraseEnd(op.undo)
        BY <1>3, <4>1, EndTails
      <4>2. CASE op.todo = <<Cli, ConfOut>> \o op.undo
        BY <1>3, <4>2, EndTails
      <4> QED
        BY <1>4, <2>3, <4>1, <4>2
    <3>2. op' \in Ops /\ op'.todo = Tail(op.todo) /\ op'.undo = op.undo
      BY <1>3, <2>3, <3>1, GoesOp
    <3>3. op'.todo \in {<<Cli, ConfOut>> \o op'.undo, <<ConfOut>> \o op'.undo}
      BY <3>1, <3>2
    <3>4. CleansFiles'
      BY <1>4, <1>5, <3>3 DEF CleansFiles
    <3>5. InCleanup'
      BY <1>3, <3>2, <3>4 DEF InCleanup
    <3> QED
      BY <1>3, <3>2, <3>5 DEF PlanPart
  <2> QED
    BY <1>2, <2>1, <2>2, <2>3
<1> QED
  BY <1>1, <1>3, <1>6 DEF IInv, TypePart

LEMMA GoneStep ==
  ASSUME IInv, Gone
  PROVE  IInv'
<1>1. At("gone", "plugin") /\ Goes /\ ~loaded'
  BY DEF Gone
<1>2. UNCHANGED <<sidecar, wrapper, owned, prepared, override>>
  BY DEF Gone, pair
<1>3. op \in Ops /\ op.todo # <<>> /\ IsLeaving
  BY <1>1, Where DEF ActingKinds
<1>4. Tail(op.todo) = <<>>
  BY <1>3 DEF IsLeaving
<1>5. op' = Idle
  BY <1>1, <1>3, <1>4, GoesOp
<1> QED
  BY <1>1, <1>2, <1>5, IdleIs DEF IInv, TypePart, PlanPart

LEMMA CrashStep ==
  ASSUME IInv, Crash
  PROVE  IInv'
<1>1. ~loaded' /\ op' = Idle /\ UNCHANGED <<sidecar, wrapper, owned, prepared, override>>
  BY DEF Crash, pair
<1> QED
  BY <1>1, IdleIs DEF IInv, TypePart, PlanPart
-----------------------------------------------------------------------------
(* What begins a method.                                                   *)

\* Both: two steps for each element of a set, one element after the other.
LEMMA SetToSeqIs ==
  ASSUME NEW S, IsFiniteSet(S)
  PROVE  /\ SetToSeq(S) \in Seq(S) /\ Len(SetToSeq(S)) \in Nat
         /\ \A i, j \in 1 .. Len(SetToSeq(S)) : SetToSeq(S)[i] = SetToSeq(S)[j] => i = j
         /\ \A x \in S : \E i \in 1 .. Len(SetToSeq(S)) : SetToSeq(S)[i] = x
<1> DEFINE n == Cardinality(S)  f == SetToSeq(S)
<1>1. n \in Nat /\ ExistsBijection(1 .. n, S)
  BY FS_CardinalityType
<1>2. PICK g \in [1 .. n -> S] : IsInjective(g)
  BY <1>1 DEF ExistsBijection, Bijection, Injection
<1>3. f \in [1 .. n -> S] /\ IsInjective(f)
  BY <1>2 DEF SetToSeq
<1>4. f \in Injection(1 .. n, S) /\ IsFiniteSet(1 .. n) /\ Cardinality(1 .. n) = n
  BY <1>1, <1>3, FS_Interval DEF Injection
<1> HIDE DEF n, f
<1>5. f \in Surjection(1 .. n, S)
  <2>1. Cardinality(1 .. n) = Cardinality(S)
    BY <1>4 DEF n
  <2> QED
    BY <1>4, <2>1, FS_Injection
<1>6. f \in Seq(S) /\ Len(f) = n
  BY <1>1, <1>3
<1>7. \A x \in S : \E i \in 1 .. n : f[i] = x
  BY <1>5 DEF Surjection
<1>8. \A i, j \in 1 .. n : f[i] = f[j] => i = j
  BY <1>3 DEF IsInjective
<1> QED
  BY <1>1, <1>6, <1>7, <1>8 DEF f

LEMMA Halves ==
  /\ \A k \in Nat \ {0} : /\ (2 * k - 1) % 2 = 1 /\ ((2 * k - 1) + 1) \div 2 = k
                          /\ (2 * k) % 2 = 0 /\ (2 * k + 1) \div 2 = k
  /\ \A i \in Nat \ {0} : \E k \in Nat \ {0} : i = 2 * k - 1 \/ i = 2 * k
<1>1. \A k \in Nat \ {0} : /\ (2 * k - 1) % 2 = 1 /\ ((2 * k - 1) + 1) \div 2 = k
                           /\ (2 * k) % 2 = 0 /\ (2 * k + 1) \div 2 = k
  OBVIOUS
<1>2. \A i \in Nat \ {0} : \E k \in Nat \ {0} : i = 2 * k - 1 \/ i = 2 * k
  <2> SUFFICES ASSUME NEW i \in Nat \ {0}
               PROVE  \E k \in Nat \ {0} : i = 2 * k - 1 \/ i = 2 * k
    OBVIOUS
  <2> DEFINE k == (i + 1) \div 2
  <2>1. k \in Nat \ {0} /\ (i = 2 * k - 1 \/ i = 2 * k)
    OBVIOUS
  <2> QED
    BY <2>1
<1> QED
  BY <1>1, <1>2

LEMMA BothIs ==
  ASSUME NEW S, IsFiniteSet(S), NEW first, NEW second, first # second
  PROVE  /\ Both(first, second, S) \in Seq({first, second} \X S)
         /\ Pairs(Both(first, second, S), first, second)
         /\ \A x \in S : Pends(<<second, x>>, Both(first, second, S))
         /\ Both(first, second, S) # <<>> => Both(first, second, S)[1][1] = first
<1> DEFINE each == SetToSeq(S)  n == Len(each)  b == Both(first, second, S)
<1>1. /\ each \in Seq(S) /\ n \in Nat
      /\ \A i, j \in 1 .. n : each[i] = each[j] => i = j
      /\ \A x \in S : \E i \in 1 .. n : each[i] = x
      /\ \A i \in 1 .. n : each[i] \in S
  BY SetToSeqIs, ElementOfSeq
<1>2. b = [i \in 1 .. 2 * n |->
             <<IF i % 2 = 1 THEN first ELSE second, each[(i + 1) \div 2]>>]
  BY DEF Both
<1> HIDE DEF each, n, b
<1>3. DOMAIN b = 1 .. 2 * n
  BY <1>2
<1>4. ASSUME NEW k \in Nat \ {0}
      PROVE  /\ 2 * k - 1 \in DOMAIN b <=> k \in 1 .. n
             /\ 2 * k \in DOMAIN b <=> k \in 1 .. n
             /\ 2 * k - 1 \in DOMAIN b => b[2 * k - 1] = <<first, each[k]>>
             /\ 2 * k \in DOMAIN b => b[2 * k] = <<second, each[k]>>
  <2>1. (2 * k - 1 \in 1 .. 2 * n <=> k \in 1 .. n) /\ (2 * k \in 1 .. 2 * n <=> k \in 1 .. n)
    BY <1>1
  <2>2. /\ (2 * k - 1) % 2 = 1 /\ ((2 * k - 1) + 1) \div 2 = k
        /\ (2 * k) % 2 = 0 /\ (2 * k + 1) \div 2 = k
    BY Halves
  <2> QED
    BY <1>2, <1>3, <2>1, <2>2
<1>5. \A i \in DOMAIN b : \E k \in 1 .. n : i = 2 * k - 1 \/ i = 2 * k
  <2> SUFFICES ASSUME NEW i \in DOMAIN b
               PROVE  \E k \in 1 .. n : i = 2 * k - 1 \/ i = 2 * k
    OBVIOUS
  <2>1. i \in Nat \ {0}
    BY <1>1, <1>3
  <2>2. PICK k \in Nat \ {0} : i = 2 * k - 1 \/ i = 2 * k
    BY <2>1, Halves
  <2> QED
    BY <1>4, <2>2
<1>6. b \in Seq({first, second} \X S)
  <2>1. \A i \in 1 .. 2 * n : b[i] \in {first, second} \X S
    <3> SUFFICES ASSUME NEW i \in 1 .. 2 * n
                 PROVE  b[i] \in {first, second} \X S
      OBVIOUS
    <3>1. PICK k \in 1 .. n : i = 2 * k - 1 \/ i = 2 * k
      BY <1>3, <1>5
    <3>2. k \in Nat \ {0} /\ each[k] \in S
      BY <1>1
    <3>3. b[i] \in {<<first, each[k]>>, <<second, each[k]>>}
      BY <1>3, <1>4, <3>1, <3>2
    <3> QED
      BY <3>2, <3>3
  <2>2. 2 * n \in Nat
    BY <1>1
  <2> QED
    BY <1>2, <2>1, <2>2
<1>7. Pairs(b, first, second)
  <2> SUFFICES ASSUME NEW i \in DOMAIN b
               PROVE  /\ b[i][1] = first => i + 1 \in DOMAIN b /\ b[i + 1] = <<second, b[i][2]>>
                      /\ b[i][1] = second /\ i + 1 \in DOMAIN b =>
                           b[i + 1][1] = first /\ b[i + 1][2] # b[i][2]
    BY DEF Pairs
  <2>1. PICK k \in 1 .. n : i = 2 * k - 1 \/ i = 2 * k
    BY <1>5
  <2>2. k \in Nat \ {0} /\ k + 1 \in Nat \ {0}
    BY <1>1
  <2>3. CASE i = 2 * k - 1
    <3>1. i + 1 = 2 * k
      BY <2>2, <2>3
    <3>2. b[i] = <<first, each[k]>> /\ 2 * k \in DOMAIN b /\ b[2 * k] = <<second, each[k]>>
      BY <1>4, <2>2, <2>3
    <3> QED
      BY <3>1, <3>2
  <2>4. CASE i = 2 * k
    <3>1. i + 1 = 2 * (k + 1) - 1 /\ k # k + 1
      BY <2>2, <2>4
    <3>2. b[i] = <<second, each[k]>>
      BY <1>4, <2>2, <2>4
    <3>3. i + 1 \in DOMAIN b => k + 1 \in 1 .. n /\ b[i + 1] = <<first, each[k + 1]>>
      BY <1>4, <2>2, <3>1
    <3>4. k + 1 \in 1 .. n => each[k + 1] # each[k]
      BY <1>1, <3>1
    <3> QED
      BY <3>2, <3>3, <3>4
  <2> QED
    BY <2>1, <2>3, <2>4
<1>8. ASSUME NEW x \in S PROVE Pends(<<second, x>>, b)
  <2>1. PICK k \in 1 .. n : each[k] = x
    BY <1>1
  <2>2. k \in Nat \ {0}
    BY <1>1
  <2> QED
    BY <1>4, <2>1, <2>2 DEF Pends
<1>9. b # <<>> => b[1][1] = first
  <2>1. SUFFICES ASSUME b # <<>> PROVE b[1][1] = first
    OBVIOUS
  <2>2. 1 \in DOMAIN b
    BY <1>6, <2>1, TailIs
  <2>3. 1 = 2 * 1 - 1 /\ 1 \in Nat \ {0}
    OBVIOUS
  <2> QED
    BY <1>4, <2>2, <2>3
<1> QED
  BY <1>6, <1>7, <1>8, <1>9 DEF b

\* Cleaning up, as it is planned.
Assoc(x, y, z) == (x \o y) \o z = x \o (y \o z)
Closed(x, y, S) == x \o y \in Seq(S)
Grouped(p, g, q, h, s, u) ==
  ((((p \o g) \o q) \o h) \o s) \o u = p \o (g \o (q \o (h \o (s \o u))))

LEMMA AssocIs ==
  ASSUME NEW S, NEW x \in Seq(S), NEW y \in Seq(S), NEW z \in Seq(S)
  PROVE  Assoc(x, y, z)
BY ConcatAssociative DEF Assoc

LEMMA ClosedIs ==
  ASSUME NEW S, NEW x \in Seq(S), NEW y \in Seq(S)
  PROVE  Closed(x, y, S)
BY ConcatProperties DEF Closed

LEMMA GroupedIs ==
  ASSUME NEW S, NEW p \in Seq(S), NEW g \in Seq(S), NEW q \in Seq(S), NEW h \in Seq(S),
         NEW s \in Seq(S), NEW u \in Seq(S)
  PROVE  Grouped(p, g, q, h, s, u)
<1> DEFINE pg == p \o g  pgq == pg \o q  r == pgq \o h
           su == s \o u  hsu == h \o su  qhsu == q \o hsu
<1>1. pg \in Seq(S) /\ su \in Seq(S)
  BY ClosedIs, Zenon DEF Closed
<1> HIDE DEF pg, su
<1>2. pgq \in Seq(S) /\ hsu \in Seq(S)
  BY <1>1, ClosedIs, Zenon DEF Closed
<1> HIDE DEF pgq, hsu
<1>3. r \in Seq(S) /\ qhsu \in Seq(S)
  BY <1>2, ClosedIs, Zenon DEF Closed
<1> HIDE DEF r, qhsu
<1>4. /\ Assoc(r, s, u) /\ Assoc(pgq, h, su) /\ Assoc(pg, q, hsu) /\ Assoc(p, g, qhsu)
  BY <1>1, <1>2, <1>3, AssocIs
<1>5. (r \o s) \o u = r \o su
  BY <1>4, Zenon DEF Assoc, su
<1>6. r \o su = pgq \o hsu
  BY <1>4, Zenon DEF Assoc, r, hsu
<1>7. pgq \o hsu = pg \o qhsu
  BY <1>4, Zenon DEF Assoc, pgq, qhsu
<1>8. pg \o qhsu = p \o (g \o qhsu)
  BY <1>4, Zenon DEF Assoc, pg
<1>9. (r \o s) \o u = p \o (g \o qhsu)
  BY <1>5, <1>6, <1>7, <1>8, Zenon
<1> QED
  BY <1>9, Zenon DEF Grouped, r, pgq, pg, qhsu, hsu, su

LastSix(w) == <<AllOut, WrapAs(w), SidePurge, Layer, Cli, ConfOut>>

LEMMA LastSixIs ==
  ASSUME NEW u \in Seq(Steps), NEW w \in {"purge", "pass"}
  PROVE  LastSix(w) \in Seq(Steps) /\ LastSix(w) \o u = AllEnd(w, u)
<1> DEFINE d == <<Layer, Cli, ConfOut>>  e == <<SidePurge, Layer, Cli, ConfOut>>
           f == <<WrapAs(w), SidePurge, Layer, Cli, ConfOut>>
           a == <<AllOut>>  b == <<WrapAs(w)>>  c == <<SidePurge>>
<1>1. /\ AllOut \in Steps /\ WrapAs(w) \in Steps /\ SidePurge \in Steps
      /\ Layer \in Steps /\ Cli \in Steps /\ ConfOut \in Steps
  BY StepSets
<1>2. /\ a \in Seq(Steps) /\ b \in Seq(Steps) /\ c \in Seq(Steps)
      /\ d \in Seq(Steps) /\ e \in Seq(Steps) /\ f \in Seq(Steps)
      /\ LastSix(w) \in Seq(Steps)
  BY <1>1 DEF LastSix
<1>3. e = c \o d
  BY <1>1
<1>4. f = b \o e
  BY <1>1
<1>5. LastSix(w) = a \o f
  BY <1>1 DEF LastSix
<1>6. AllEnd(w, u) = a \o (b \o (c \o (d \o u)))
  BY DEF AllEnd, WrapEnd, SideEnd, EraseEnd
<1> HIDE DEF a, b, c, d, e, f
<1>7. e \o u = c \o (d \o u)
  BY <1>2, <1>3
<1>8. f \o u = b \o (e \o u)
  BY <1>2, <1>4
<1>9. LastSix(w) \o u = a \o (f \o u)
  BY <1>2, <1>5
<1> QED
  BY <1>2, <1>6, <1>7, <1>8, <1>9

\* Cleaning up, as it is planned.
LEMMA CleanupIs ==
  ASSUME NEW u \in Ends, NEW w \in {"purge", "pass"},
         NEW p \in Seq(OfApps), p = Both("reset", "forget", {a \in Apps : prepared[a] # "no"}),
         NEW q \in Seq(OfBranches), q = Both("remove", "disown", owned)
  PROVE  Cleanup(w) \o u = AppEnd(p, q, w, u)
<1> DEFINE ga == <<GateA>>  gb == <<GateB>>
<1>1. Cleanup(w) = (((p \o ga) \o q) \o gb) \o LastSix(w)
  BY DEF Cleanup, RemoveEnvironment, LastSix, AllOut, WrapAs, SidePurge, Layer, Cli, ConfOut,
         GateA, GateB
<1>2. p \in Seq(Steps) /\ q \in Seq(Steps) /\ u \in Seq(Steps)
  BY StepSets, SeqMonotonic, EndSeq
<1>3. ga \in Seq(Steps) /\ gb \in Seq(Steps)
  BY StepSets
<1>4. LastSix(w) \in Seq(Steps) /\ LastSix(w) \o u = AllEnd(w, u)
  BY <1>2, LastSixIs
<1>6. AppEnd(p, q, w, u) = p \o (ga \o (q \o (gb \o AllEnd(w, u))))
  BY DEF AppEnd, BranchEnd
<1> HIDE DEF ga, gb
<1>7. Grouped(p, ga, q, gb, LastSix(w), u)
  BY <1>2, <1>3, <1>4, GroupedIs
<1> QED
  BY <1>1, <1>4, <1>6, <1>7, Zenon DEF Grouped

\* Between the methods.
LEMMA ReadyIs ==
  ASSUME IInv, Ready
  PROVE  loaded /\ op \in Ops /\ op.todo = <<>> /\ Settled /\ (InMethod \/ InUndoing)
<1>1. loaded /\ op \in Ops /\ op.todo = <<>>
  BY DEF IInv, TypePart, Ready
<1>2. ~InCleanup
  <2>1. SUFFICES ASSUME InCleanup PROVE FALSE
    OBVIOUS
  <2>2. op.undo \in Ends
    BY <2>1 DEF InCleanup
  <2>3. ~CleansSidecar /\ ~CleansFiles
    BY <1>1, <2>2, EndTails DEF CleansSidecar, CleansFiles
  <2>4. ASSUME NEW w \in {"purge", "pass"}
        PROVE  ~CleansProfiles(w) /\ ~CleansWrapper(w)
    BY <1>1, <2>2, EndTails DEF CleansProfiles, CleansWrapper
  <2>5. ASSUME NEW w \in {"purge", "pass"}, NEW q \in Seq(OfBranches)
        PROVE  ~CleansBranches(q, w)
    BY <1>1, <2>2, BranchEndIs DEF CleansBranches
  <2>6. ASSUME NEW w \in {"purge", "pass"}, NEW p \in Seq(OfApps), NEW q \in Seq(OfBranches)
        PROVE  ~CleansApps(p, q, w)
    BY <1>1, <2>2, AppEndIs DEF CleansApps
  <2> QED
    BY <2>1, <2>3, <2>4, <2>5, <2>6 DEF InCleanup
<1>3. ~InRepair /\ ~InPair /\ ~InHalf /\ ~InRestore /\ ~InRestored /\ ~IsLeaving
  BY <1>1 DEF InRepair, InPair, InHalf, InRestore, InRestored, IsLeaving
<1>4. InMethod \/ InUndoing
  BY <1>1, <1>2, <1>3 DEF IInv, PlanPart
<1> QED
  BY <1>1, <1>4 DEF InMethod, InUndoing

LEMMA PlannedOp ==
  ASSUME NEW o \in Ops, Planned(o)
  PROVE  op' \in Ops /\ (op' = o \/ op' = Idle)
BY IdleIs DEF Planned

\* A method that leaves the two files alone begins.
LEMMA Begins ==
  ASSUME IInv, Ready, NEW o \in Ops, Planned(o), o.undo = <<>>,
         \/ o.todo \in Seq(Acting)
         \/ o.todo \in Seq(Undoing) /\ ForgetsReset1(o.todo, override),
         UNCHANGED <<sidecar, wrapper, torn, loaded, owned, prepared, override>>
  PROVE  IInv'
<1>1. loaded' /\ Settled'
  BY ReadyIs DEF Settled, Follows, Migrated
<1>2. op' \in Ops /\ PlanPart'
  <2>1. CASE op' = Idle
    BY <1>1, <2>1, IdlePlan
  <2>2. CASE op' = o /\ o.todo \in Seq(Acting)
    <3>1. op'.undo \in Seq(Undoing) /\ ForgetsReset(op'.undo)
      BY <2>2, IdleIs
    <3>2. InMethod'
      BY <1>1, <2>2, <3>1 DEF InMethod, ForgetsReset
    <3> QED
      BY <1>1, <2>2, <3>2 DEF PlanPart
  <2>3. CASE op' = o /\ o.todo \in Seq(Undoing) /\ ForgetsReset1(o.todo, override)
    <3>1. InUndoing'
      BY <1>1, <2>3 DEF InUndoing, ForgetsReset1
    <3> QED
      BY <1>1, <2>3, <3>1 DEF PlanPart
  <2> QED
    BY <2>1, <2>2, <2>3, PlannedOp
<1> QED
  BY <1>2 DEF IInv, TypePart

LEMMA ActingPlans ==
  ASSUME NEW a \in Apps
  PROVE  /\ \A reset \in BOOLEAN : PrepareApp(a, reset) \in Seq(Acting)
         /\ ApplyState(a) \in Seq(Acting)
<1>1. /\ <<"extension", a>> \in Acting /\ <<"install", a>> \in Acting /\ <<"own", a>> \in Acting
      /\ <<"reset", a>> \in Acting /\ <<"prepare", a>> \in Acting /\ <<"record", a>> \in Acting
      /\ <<"apply", a>> \in Acting /\ <<"store", a>> \in Acting
  BY DEF Acting, Things
<1> DEFINE s == <<<<"extension", a>>, <<"install", a>>, <<"own", a>>>>
           r == <<<<"reset", a>>>>
           t == <<<<"prepare", a>>, <<"record", a>>>>
           u == <<<<"apply", a>>, <<"store", a>>>>
<1>2. /\ s \in Seq(Acting) /\ r \in Seq(Acting) /\ t \in Seq(Acting) /\ u \in Seq(Acting)
      /\ <<>> \in Seq(Acting)
  BY <1>1
<1>3. ASSUME NEW reset \in BOOLEAN PROVE PrepareApp(a, reset) \in Seq(Acting)
  <2> DEFINE m == IF reset THEN r ELSE <<>>
  <2>1. m \in Seq(Acting)
    BY <1>2
  <2>2. PrepareApp(a, reset) = (s \o m) \o t
    BY DEF PrepareApp
  <2> HIDE DEF s, t, m
  <2>3. s \o m \in Seq(Acting)
    BY <1>2, <2>1, ClosedIs DEF Closed
  <2> QED
    BY <1>2, <2>2, <2>3, ClosedIs DEF Closed
<1>4. ApplyState(a) \in Seq(Acting)
  <2> DEFINE m == PrepareApp(a, FALSE)
  <2>1. m \in Seq(Acting)
    BY <1>3
  <2>2. ApplyState(a) = (r \o m) \o u
    BY DEF ApplyState
  <2> HIDE DEF r, u, m
  <2>3. r \o m \in Seq(Acting)
    BY <1>2, <2>1, ClosedIs DEF Closed
  <2> QED
    BY <1>2, <2>2, <2>3, ClosedIs DEF Closed
<1> QED
  BY <1>3, <1>4

LEMMA EnableStep ==
  ASSUME IInv, NEW a \in Apps, EnableApp(a)
  PROVE  IInv'
<1> DEFINE p == PrepareApp(a, prepared[a] = "no")
           m == IF profiles[a] = "none" THEN <<<<"profile", a>>>> ELSE <<>>
           w == IF prepared[a] \in States THEN prepared[a] ELSE "plain"
           t == p \o m \o ApplyState(a)
           o == [Idle EXCEPT !.todo = t, !.ws = w]
<1>1. Ready /\ Planned(o)
  BY DEF EnableApp
<1>2. UNCHANGED <<sidecar, wrapper, torn, loaded, owned, prepared, override>>
  BY DEF EnableApp, flatpak, pair
<1>3. t \in Seq(Acting)
  <2>1. p \in Seq(Acting) /\ ApplyState(a) \in Seq(Acting)
    BY ActingPlans
  <2>2. m \in Seq(Acting)
    <3>1. <<"profile", a>> \in Acting
      BY DEF Acting, Things
    <3> QED
      BY <3>1
  <2> HIDE DEF p, m
  <2>3. p \o m \in Seq(Acting)
    BY <2>1, <2>2, ClosedIs DEF Closed
  <2> QED
    BY <2>1, <2>3, ClosedIs DEF Closed
<1>4. t \in Seq(Steps)
  BY <1>3, StepSets, SeqMonotonic
<1>5. w \in {"none"} \union States
  BY DEF States
<1> HIDE DEF t, w
<1>6. o \in Ops /\ o.todo = t /\ o.undo = <<>>
  BY <1>4, <1>5, IdleIs DEF Ops
<1> QED
  BY <1>1, <1>2, <1>3, <1>6, Begins

LEMMA SetFlatpakStep ==
  ASSUME IInv, NEW a \in Apps, NEW ws \in States, SetFlatpakState(a, ws)
  PROVE  IInv'
<1> DEFINE o == [Idle EXCEPT !.todo = ApplyState(a), !.ws = ws]
<1>1. Ready /\ Planned(o)
  BY DEF SetFlatpakState
<1>2. UNCHANGED <<sidecar, wrapper, torn, loaded, owned, prepared, override>>
  BY DEF SetFlatpakState, flatpak, pair
<1>3. ApplyState(a) \in Seq(Acting)
  BY ActingPlans
<1>4. ApplyState(a) \in Seq(Steps)
  BY <1>3, StepSets, SeqMonotonic
<1>5. o \in Ops /\ o.todo = ApplyState(a) /\ o.undo = <<>>
  BY <1>4, IdleIs DEF Ops
<1> QED
  BY <1>1, <1>2, <1>3, <1>5, Begins

LEMMA RemoveStep ==
  ASSUME IInv, NEW a \in Apps, RemoveApp(a)
  PROVE  IInv'
<1> DEFINE t == RemoveOverride(a) \o <<<<"unprofile", a>>>>
           o == [Idle EXCEPT !.todo = t]
<1>1. Ready /\ Planned(o)
  BY DEF RemoveApp
<1>2. UNCHANGED <<sidecar, wrapper, torn, loaded, owned, prepared, override>>
  BY DEF RemoveApp, flatpak, pair
<1>3. t \in Seq(Undoing) /\ ForgetsReset1(t, override)
  <2> DEFINE s == <<<<"reset", a>>, <<"forget", a>>>>  x == <<<<"unprofile", a>>>>
  <2>1. <<"reset", a>> \in Undoing /\ <<"forget", a>> \in Undoing /\ <<"unprofile", a>> \in Undoing
    BY DEF Undoing, Things
  <2>2. s \in Seq(Undoing) /\ Len(s) = 2 /\ s[1] = <<"reset", a>> /\ s[2] = <<"forget", a>>
    BY <2>1
  <2>3. x \in Seq(Undoing) /\ Len(x) = 1 /\ x[1] = <<"unprofile", a>>
    BY <2>1
  <2>4. t = IF prepared[a] = "no" THEN <<>> \o x ELSE s \o x
    BY DEF RemoveOverride
  <2> HIDE DEF s, x, t
  <2>5. CASE prepared[a] = "no"
    <3>1. t = x
      BY <2>3, <2>4, <2>5, ConcatEmptySeq
    <3> QED
      BY <2>3, <3>1, LenProperties DEF ForgetsReset1
  <2>6. CASE prepared[a] # "no"
    <3>1. t = s \o x
      BY <2>4, <2>6
    <3>2. /\ t \in Seq(Undoing) /\ Len(t) = 3
          /\ t[1] = <<"reset", a>> /\ t[2] = <<"forget", a>> /\ t[3] = <<"unprofile", a>>
      BY <2>2, <2>3, <3>1, ConcatProperties
    <3>3. DOMAIN t = 1 .. 3
      BY <3>2, LenProperties
    <3>4. ASSUME NEW i \in DOMAIN t, t[i][1] = "forget"
          PROVE  i = 2
      BY <3>2, <3>3, <3>4
    <3> QED
      BY <3>2, <3>4 DEF ForgetsReset1
  <2> QED
    BY <2>5, <2>6
<1>4. t \in Seq(Steps)
  BY <1>3, StepSets, SeqMonotonic
<1> HIDE DEF t
<1>5. o \in Ops /\ o.todo = t /\ o.undo = <<>>
  BY <1>4, IdleIs DEF Ops
<1> QED
  BY <1>1, <1>2, <1>3, <1>5, Begins

\* The steps for the apps that are prepared, and for the branches that are owned.
AppPart == Both("reset", "forget", {a \in Apps : prepared[a] # "no"})
BranchPart == Both("remove", "disown", owned)

LEMMA PartsAre ==
  ASSUME owned \subseteq Branches
  PROVE  /\ AppPart \in Seq(OfApps) /\ Pairs(AppPart, "reset", "forget")
         /\ \A a \in Apps : prepared[a] # "no" => Pends(<<"forget", a>>, AppPart)
         /\ AppPart # <<>> => AppPart[1][1] = "reset"
         /\ BranchPart \in Seq(OfBranches) /\ Pairs(BranchPart, "remove", "disown")
         /\ \A b \in owned : Pends(<<"disown", b>>, BranchPart)
<1> DEFINE as == {a \in Apps : prepared[a] # "no"}
<1>1. IsFiniteSet(as) /\ IsFiniteSet(owned)
  BY LsfgAssumption, FS_Subset
<1>2. /\ AppPart \in Seq({"reset", "forget"} \X as) /\ Pairs(AppPart, "reset", "forget")
      /\ \A a \in as : Pends(<<"forget", a>>, AppPart)
      /\ AppPart # <<>> => AppPart[1][1] = "reset"
  BY <1>1, BothIs DEF AppPart
<1>3. /\ BranchPart \in Seq({"remove", "disown"} \X owned)
      /\ Pairs(BranchPart, "remove", "disown")
      /\ \A b \in owned : Pends(<<"disown", b>>, BranchPart)
  BY <1>1, BothIs DEF BranchPart
<1>4. {"reset", "forget"} \X as \subseteq OfApps /\ {"remove", "disown"} \X owned \subseteq OfBranches
  BY DEF OfApps, OfBranches
<1>5. AppPart \in Seq(OfApps)
  BY <1>2, <1>4, SeqMonotonic
<1>6. BranchPart \in Seq(OfBranches)
  BY <1>3, <1>4, SeqMonotonic
<1> QED
  BY <1>2, <1>3, <1>5, <1>6

LEMMA CleanupSeq ==
  ASSUME owned \subseteq Branches, NEW w \in {"purge", "pass"}
  PROVE  Cleanup(w) \in Seq(Steps)
<1> DEFINE ga == <<GateA>>  gb == <<GateB>>
           pg == AppPart \o ga  pgq == pg \o BranchPart  r == pgq \o gb
<1>1. Cleanup(w) = r \o LastSix(w)
  BY DEF Cleanup, RemoveEnvironment, LastSix, AllOut, WrapAs, SidePurge, Layer, Cli, ConfOut,
         GateA, GateB, AppPart, BranchPart
<1>2. AppPart \in Seq(Steps) /\ BranchPart \in Seq(Steps) /\ <<>> \in Seq(Steps)
  BY PartsAre, StepSets, SeqMonotonic
<1>3. ga \in Seq(Steps) /\ gb \in Seq(Steps)
  BY StepSets
<1>4. LastSix(w) \in Seq(Steps)
  BY <1>2, LastSixIs
<1> HIDE DEF ga, gb
<1>5. pg \in Seq(Steps)
  BY <1>2, <1>3, ClosedIs, Zenon DEF Closed
<1> HIDE DEF pg
<1>6. pgq \in Seq(Steps)
  BY <1>2, <1>5, ClosedIs, Zenon DEF Closed
<1> HIDE DEF pgq
<1>7. r \in Seq(Steps)
  BY <1>3, <1>6, ClosedIs, Zenon DEF Closed
<1> HIDE DEF r
<1> QED
  BY <1>1, <1>4, <1>7, ClosedIs DEF Closed

\* Cleaning up begins: every app that is prepared and every branch that is owned
\* has its steps in the plan.
LEMMA CleaningBegins ==
  ASSUME IInv, Ready, NEW u \in Ends, NEW w \in {"purge", "pass"},
         Planned([Idle EXCEPT !.todo = Cleanup(w) \o u, !.undo = u]),
         UNCHANGED <<sidecar, wrapper, torn, loaded, owned, prepared, override>>
  PROVE  IInv'
<1> DEFINE t == Cleanup(w) \o u
           o == [Idle EXCEPT !.todo = t, !.undo = u]
<1>1. /\ loaded' /\ Settled'
      /\ owned \subseteq Branches
  BY ReadyIs DEF Settled, Follows, Migrated, IInv, TypePart
<1>2. PICK p \in Seq(OfApps), q \in Seq(OfBranches) : p = AppPart /\ q = BranchPart
  BY <1>1, PartsAre
<1>3. /\ Pairs(p, "reset", "forget") /\ Pairs(q, "remove", "disown")
      /\ \A a \in Apps : prepared[a] # "no" => Pends(<<"forget", a>>, p)
      /\ \A b \in owned : Pends(<<"disown", b>>, q)
      /\ p # <<>> => p[1][1] = "reset"
  BY <1>1, <1>2, PartsAre
<1>7. t = AppEnd(p, q, w, u)
  BY <1>2, CleanupIs DEF AppPart, BranchPart
<1>8. t \in Seq(Steps) /\ t # <<>> /\ u \in Seq(Steps)
  BY <1>7, CleanPlans, AppEndIs, EndSeq
<1> HIDE DEF t
<1>9. o \in Ops /\ o.todo = t /\ o.undo = u
  BY <1>8, IdleIs DEF Ops
<1>10. Planned(o)
  BY DEF t
<1>11. op' = o
  BY <1>8, <1>9, <1>10 DEF Planned
<1>12. CleansApps(p, q, w)'
  <2>1. op'.todo = AppEnd(p, q, w, op'.undo)
    BY <1>7, <1>9, <1>11
  <2>2. p # <<>> /\ p[1][1] = "forget" => override'[p[1][2]] = "none"
    BY <1>3
  <2>3. prepared' = prepared /\ owned' = owned
    OBVIOUS
  <2>4. /\ \A a \in Apps : prepared'[a] # "no" => op'.failed \/ Pends(<<"forget", a>>, p)
        /\ \A b \in owned' : Pends(<<"disown", b>>, q)
    BY <1>3, <2>3
  <2> QED
    BY <1>1, <1>3, <2>1, <2>2, <2>4 DEF CleansApps
<1>13. InCleanup'
  BY <1>9, <1>11, <1>12 DEF InCleanup
<1> QED
  BY <1>1, <1>9, <1>11, <1>13 DEF IInv, TypePart, PlanPart

LEMMA UninstallStep ==
  ASSUME IInv, Uninstall
  PROVE  IInv'
<1>1. Ready /\ Planned([Idle EXCEPT !.todo = Cleanup("purge")])
  BY DEF Uninstall
<1>2. UNCHANGED <<sidecar, wrapper, torn, loaded, owned, prepared, override>>
  BY DEF Uninstall, flatpak, pair
<1> DEFINE c == Cleanup("purge")
<1>3. c \in Seq(Steps)
  BY CleanupSeq DEF IInv, TypePart
<1> HIDE DEF c
<1>4. c \o <<>> = c
  BY <1>3, ConcatEmptySeq
<1>6. [Idle EXCEPT !.todo = c] = [Idle EXCEPT !.todo = c, !.undo = <<>>]
  BY IdleIs DEF Ops
<1>7. Planned([Idle EXCEPT !.todo = c \o <<>>, !.undo = <<>>])
  BY <1>1, <1>4, <1>6 DEF c
<1>5. <<>> \in Ends
  BY DEF Ends
<1> QED
  BY <1>1, <1>2, <1>5, <1>7, CleaningBegins DEF c

LEMMA DeckyStep ==
  ASSUME IInv, DeckyUninstalls
  PROVE  IInv'
<1>1. /\ Ready
      /\ Planned([Idle EXCEPT !.todo = Cleanup("pass") \o <<Leave>>, !.undo = <<Leave>>])
  BY DEF DeckyUninstalls, Leave
<1>2. UNCHANGED <<sidecar, wrapper, torn, loaded, owned, prepared, override>>
  BY DEF DeckyUninstalls, flatpak, pair
<1>3. <<Leave>> \in Ends
  BY DEF Ends
<1> QED
  BY <1>1, <1>2, <1>3, CleaningBegins

LEMMA InstallStep ==
  ASSUME IInv, Install
  PROVE  IInv'
<1> DEFINE t == <<<<"config", "legacy">>, <<"put", "cli">>, <<"put", "layer">>,
                  <<"config", "write">>>>
           o == [Idle EXCEPT !.todo = t]
<1>1. Ready /\ Planned(o)
  BY DEF Install
<1>2. UNCHANGED <<sidecar, wrapper, torn, loaded, owned, prepared, override>>
  BY DEF Install, flatpak, pair
<1>3. t \in Seq(Acting)
  BY DEF Acting, Things
<1>4. t \in Seq(Steps)
  BY <1>3, StepSets, SeqMonotonic
<1> HIDE DEF t
<1>5. o \in Ops /\ o.todo = t /\ o.undo = <<>>
  BY <1>4, IdleIs DEF Ops
<1> QED
  BY <1>1, <1>2, <1>3, <1>5, Begins

\* Reading the state.
LEMMA DocumentIs ==
  ASSUME sidecar \in Sidecars
  PROVE  /\ Document \in Docs /\ None \in Docs
         /\ Document = None => sidecar.apps = None
<1>1. sidecar.apps \in Docs
  BY DEF Sidecars
<1>2. Document \in Docs /\ None \in Docs
  BY <1>1 DEF Document, Migrated, Docs, States, None
<1>3. ASSUME Document = None PROVE sidecar.apps = None
  <2>1. \A g \in Games : sidecar.apps[g] = "none"
    <3> SUFFICES ASSUME NEW g \in Games PROVE sidecar.apps[g] = "none"
      OBVIOUS
    <3>1. Document[g] = "none"
      BY <1>3 DEF None
    <3> QED
      BY <3>1 DEF Document, Migrated
  <2> QED
    BY <1>1, <2>1 DEF Docs, None
<1> QED
  BY <1>2, <1>3

\* _write_pair(), as it is planned.
LEMMA PairIs ==
  ASSUME sidecar \in Sidecars, wrapper \in Wrappers, NEW doc \in Docs
  PROVE  /\ WritePair(doc) \in Ops /\ WritePair(doc).todo = <<SideNew, WrapNew>>
         /\ WritePair(doc).undo = <<SideOld, WrapOld>> /\ WritePair(doc).doc = doc
         /\ WritePair(doc).back = <<sidecar, wrapper>>
<1> DEFINE t == <<SideNew, WrapNew>>  u == <<SideOld, WrapOld>>  b == <<sidecar, wrapper>>
<1>1. t \in Seq(Steps) /\ u \in Seq(Steps) /\ b \in Sidecars \X Wrappers
  BY StepSets
<1>2. WritePair(doc) = [Idle EXCEPT !.doc = doc, !.back = b, !.todo = t, !.undo = u]
  BY DEF WritePair, SideNew, WrapNew, SideOld, WrapOld
<1> HIDE DEF t, u, b
<1>3. Idle \in Ops
  BY IdleIs
<1>4. /\ [Idle EXCEPT !.doc = doc, !.back = b, !.todo = t, !.undo = u] \in Ops
      /\ [Idle EXCEPT !.doc = doc, !.back = b, !.todo = t, !.undo = u].todo = t
      /\ [Idle EXCEPT !.doc = doc, !.back = b, !.todo = t, !.undo = u].undo = u
      /\ [Idle EXCEPT !.doc = doc, !.back = b, !.todo = t, !.undo = u].doc = doc
      /\ [Idle EXCEPT !.doc = doc, !.back = b, !.todo = t, !.undo = u].back = b
  BY <1>1, <1>3 DEF Ops
<1> QED
  BY <1>2, <1>4 DEF t, u, b

LEMMA PairBegins ==
  ASSUME IInv, Ready, NEW doc \in Docs, Planned(WritePair(doc)),
         UNCHANGED <<sidecar, wrapper, torn, loaded, owned, prepared, override>>
  PROVE  IInv'
<1> DEFINE o == WritePair(doc)
<1>1. /\ o \in Ops /\ o.todo = <<SideNew, WrapNew>> /\ o.undo = <<SideOld, WrapOld>>
      /\ o.back = <<sidecar, wrapper>>
  BY PairIs DEF IInv, TypePart
<1> HIDE DEF o
<1>2. Planned(o)
  BY DEF o
<1>3. op' = o
  BY <1>1, <1>2 DEF Planned
<1>4. InPair' /\ loaded'
  BY <1>1, <1>3, ReadyIs DEF InPair
<1> QED
  BY <1>1, <1>3, <1>4 DEF IInv, TypePart, PlanPart

LEMMA SetStateStep ==
  ASSUME IInv, NEW g \in Games, NEW ws \in States, SetState(g, ws)
  PROVE  IInv'
<1>1. Ready /\ Planned(WritePair([Document EXCEPT ![g] = ws]))
  BY DEF SetState
<1>2. UNCHANGED <<sidecar, wrapper, torn, loaded, owned, prepared, override>>
  BY DEF SetState, flatpak, pair
<1>3. [Document EXCEPT ![g] = ws] \in Docs
  BY DocumentIs DEF IInv, TypePart, Docs
<1> QED
  BY <1>1, <1>2, <1>3, PairBegins

LEMMA RemoveStateStep ==
  ASSUME IInv, NEW g \in Games, RemoveState(g)
  PROVE  IInv'
<1>1. Ready /\ Planned(WritePair([Document EXCEPT ![g] = "none"]))
  BY DEF RemoveState
<1>2. UNCHANGED <<sidecar, wrapper, torn, loaded, owned, prepared, override>>
  BY DEF RemoveState, flatpak, pair
<1>3. [Document EXCEPT ![g] = "none"] \in Docs
  BY DocumentIs DEF IInv, TypePart, Docs
<1> QED
  BY <1>1, <1>2, <1>3, PairBegins

\* The plugin is loaded: what it repairs, if anything, and then the profiles.
LEMMA LoadStep ==
  ASSUME IInv, Load
  PROVE  IInv'
<1> DEFINE r == Repair  o == [r EXCEPT !.todo = <<Adr>> \o @]
<1>1. /\ ~loaded /\ loaded' /\ op' = o
      /\ UNCHANGED <<sidecar, wrapper, owned, prepared, override>>
  BY DEF Load, flatpak, Adr
<1>2. sidecar \in Sidecars /\ wrapper \in Wrappers /\ Adr \in Acting /\ Adr \in Steps
  BY StepSets DEF IInv, TypePart, Acting, Things, Adr
<1>3. r \in Ops
         => /\ o \in Ops /\ o.todo = <<Adr>> \o r.todo /\ o.undo = r.undo /\ o.doc = r.doc
            /\ o.back = r.back
  <2> SUFFICES ASSUME r \in Ops
               PROVE  /\ o \in Ops /\ o.todo = <<Adr>> \o r.todo /\ o.undo = r.undo
                      /\ o.doc = r.doc /\ o.back = r.back
    OBVIOUS
  <2> DEFINE t == <<Adr>> \o r.todo
  <2>1. t \in Seq(Steps)
    BY <1>2, ConsIs DEF Ops
  <2>2. o = [r EXCEPT !.todo = t]
    OBVIOUS
  <2> HIDE DEF t, r
  <2>3. /\ [r EXCEPT !.todo = t] \in Ops /\ [r EXCEPT !.todo = t].todo = t
        /\ [r EXCEPT !.todo = t].undo = r.undo /\ [r EXCEPT !.todo = t].doc = r.doc
        /\ [r EXCEPT !.todo = t].back = r.back
    BY <2>1 DEF Ops
  <2> QED
    BY <2>2, <2>3 DEF t
<1> HIDE DEF o
<1>4. CASE Document = None \/ wrapper.is = "foreign"
  <2>1. r = Idle
    BY <1>4 DEF Repair
  <2>2. o \in Ops /\ o.todo = <<Adr>> /\ o.undo = <<>>
    <3>1. <<Adr>> \in Seq(Acting)
      BY <1>2
    <3> QED
      BY <1>3, <2>1, <3>1, IdleIs, ConcatEmptySeq
  <2>3. Settled'
    BY <1>1, <1>2, <1>4, DocumentIs DEF Settled, Follows
  <2>4. InMethod'
    <3>1. op'.todo \in Seq(Acting)
      BY <1>1, <1>2, <2>2
    <3>2. op'.undo \in Seq(Undoing) /\ ForgetsReset(op'.undo)
      BY <1>1, <2>2, IdleIs
    <3> QED
      BY <2>3, <3>1, <3>2 DEF InMethod, ForgetsReset
  <2> QED
    BY <1>1, <2>2, <2>4 DEF IInv, TypePart, PlanPart
<1>5. CASE Document # None /\ wrapper.is # "foreign" /\ sidecar.is = "old"
  <2>1. r = WritePair(Document) /\ Document \in Docs
    BY <1>2, <1>5, DocumentIs DEF Repair
  <2>2. /\ r \in Ops /\ r.todo = <<SideNew, WrapNew>> /\ r.undo = <<SideOld, WrapOld>>
        /\ r.back = <<sidecar, wrapper>>
    BY <1>2, <2>1, PairIs
  <2>3. <<Adr>> \o <<SideNew, WrapNew>> = <<Adr, SideNew, WrapNew>>
    <3> DEFINE x == <<Adr>>  t == <<SideNew, WrapNew>>  c == <<Adr, SideNew, WrapNew>>
    <3>1. /\ x \in Seq(Steps) /\ Len(x) = 1 /\ x[1] = Adr
          /\ t \in Seq(Steps) /\ Len(t) = 2 /\ t[1] = SideNew /\ t[2] = WrapNew
          /\ c \in Seq(Steps) /\ Len(c) = 3 /\ c[1] = Adr /\ c[2] = SideNew /\ c[3] = WrapNew
      BY StepSets
    <3> HIDE DEF x, t, c
    <3>2. /\ x \o t \in Seq(Steps) /\ Len(x \o t) = Len(x) + Len(t)
          /\ \A i \in 1 .. Len(x) + Len(t) :
               (x \o t)[i] = IF i <= Len(x) THEN x[i] ELSE t[i - Len(x)]
      BY <3>1, ConcatProperties
    <3>3. x \o t = c
      BY <3>1, <3>2, SeqEqual
    <3> QED
      BY <3>3 DEF x, t, c
  <2>4. InPair'
    BY <1>1, <1>3, <2>2, <2>3 DEF InPair
  <2> QED
    BY <1>1, <1>3, <2>2, <2>4 DEF IInv, TypePart, PlanPart
<1>6. CASE Document # None /\ wrapper.is # "foreign" /\ sidecar.is # "old"
  <2> DEFINE t == <<WrapNew>>
  <2>1. r = [Idle EXCEPT !.doc = Document, !.todo = t] /\ Document \in Docs
    BY <1>2, <1>6, DocumentIs DEF Repair, WrapNew
  <2>2. t \in Seq(Steps)
    BY StepSets
  <2> HIDE DEF t
  <2>3. r \in Ops /\ r.todo = t /\ r.undo = <<>> /\ r.doc = Document
    BY <2>1, <2>2, IdleIs DEF Ops
  <2>4. <<Adr>> \o t = <<Adr, WrapNew>>
    BY TwoSteps DEF t
  <2>5. InRepair'
    <3>1. Document' = Document
      BY <1>1 DEF Document, Migrated
    <3> QED
      BY <1>1, <1>3, <2>3, <2>4, <3>1 DEF InRepair
  <2> QED
    BY <1>1, <1>3, <2>3, <2>5 DEF IInv, TypePart, PlanPart
<1> QED
  BY <1>4, <1>5, <1>6

\* What is done at once, between the methods.
LEMMA AtOnce ==
  ASSUME IInv, Ready, UNCHANGED <<pair, flatpak, loaded, op>>
  PROVE  IInv'
<1>1. /\ sidecar' = sidecar /\ wrapper' = wrapper /\ torn' = torn /\ owned' = owned
      /\ prepared' = prepared /\ override' = override /\ loaded' = loaded /\ op' = op
  BY DEF pair, flatpak
<1>2. loaded /\ (InMethod \/ InUndoing)
  BY ReadyIs
<1>3. InMethod => InMethod'
  BY <1>1 DEF InMethod, ForgetsReset, Settled, Follows, Migrated
<1>4. InUndoing => InUndoing'
  BY <1>1 DEF InUndoing, ForgetsReset1, Settled, Follows, Migrated
<1> QED
  BY <1>1, <1>2, <1>3, <1>4 DEF IInv, TypePart, PlanPart

LEMMA UpdateSteps ==
  ASSUME IInv, \/ \E g \in Games : UpdateGame(g)
               \/ \E gs \in SUBSET Games : ResetGames(gs)
               \/ \E a \in Apps : UpdateApp(a)
  PROVE  IInv'
<1>1. Ready /\ UNCHANGED <<pair, flatpak, loaded, op>>
  BY DEF UpdateGame, ResetGames, UpdateApp
<1> QED
  BY <1>1, AtOnce

\* What others do takes nothing from a plan but the override that a step of it
\* was to take.
LEMMA OthersKeep ==
  ASSUME IInv, UNCHANGED <<pair, loaded, op, owned, prepared, profiles>>,
         override' = [a \in Apps |-> override'[a]],
         \A a \in Apps : override'[a] \in {override[a], "none"}
  PROVE  IInv'
<1>1. /\ sidecar' = sidecar /\ wrapper' = wrapper /\ torn' = torn /\ owned' = owned
      /\ prepared' = prepared /\ loaded' = loaded /\ op' = op /\ profiles' = profiles
  BY DEF pair
<1>2. TypePart'
  BY <1>1 DEF IInv, TypePart
<1>3. (Settled <=> Settled') /\ (BackAgrees <=> BackAgrees') /\ Document' = Document
      /\ (NoApps <=> NoApps') /\ (NoProfiles <=> NoProfiles')
  BY <1>1 DEF Settled, BackAgrees, Follows, Document, Migrated, NoApps, NoProfiles
<1>4. InMethod => InMethod'
  BY <1>1, <1>3 DEF InMethod, ForgetsReset
<1>5. InUndoing => InUndoing'
  <2> SUFFICES ASSUME InUndoing PROVE InUndoing'
    OBVIOUS
  <2>1. op.todo \in Seq(Undoing) /\ op.undo = <<>> /\ ForgetsReset1(op.todo, override)
    BY DEF InUndoing
  <2>2. \A i \in DOMAIN op.todo : op.todo[i][1] = "forget" => op.todo[i][2] \in Apps
    <3>1. \A i \in DOMAIN op.todo : op.todo[i] \in Undoing
      BY <2>1, ElementOfSeq, LenProperties
    <3> QED
      BY <3>1 DEF Undoing
  <2>3. ForgetsReset1(op.todo, override')
    BY <2>1, <2>2 DEF ForgetsReset1
  <2> QED
    BY <1>1, <1>3, <2>1, <2>3 DEF InUndoing
<1>6. /\ (InRepair => InRepair') /\ (InPair => InPair') /\ (InHalf => InHalf')
      /\ (InRestore => InRestore') /\ (InRestored => InRestored') /\ (IsLeaving => IsLeaving')
  BY <1>1, <1>3 DEF InRepair, InPair, InHalf, InRestore, InRestored, IsLeaving
<1>7. ASSUME NEW w \in {"purge", "pass"}, NEW p \in Seq(OfApps), NEW q \in Seq(OfBranches),
             CleansApps(p, q, w)
      PROVE  CleansApps(p, q, w)'
  <2>1. p # <<>> /\ p[1][1] = "forget" => override'[p[1][2]] = "none"
    <3> SUFFICES ASSUME p # <<>>, p[1][1] = "forget" PROVE override'[p[1][2]] = "none"
      OBVIOUS
    <3>1. p[1] \in OfApps
      BY TailIs
    <3>2. p[1][2] \in Apps /\ override[p[1][2]] = "none"
      BY <1>7, <3>1 DEF OfApps, CleansApps
    <3> QED
      BY <3>2
  <2> QED
    BY <1>1, <1>3, <1>7, <2>1 DEF CleansApps
<1>8. ASSUME NEW w \in {"purge", "pass"}
      PROVE  /\ \A q \in Seq(OfBranches) : CleansBranches(q, w) => CleansBranches(q, w)'
             /\ CleansProfiles(w) => CleansProfiles(w)'
             /\ CleansWrapper(w) => CleansWrapper(w)'
  BY <1>1, <1>3 DEF CleansBranches, CleansProfiles, CleansWrapper
<1>9. (CleansSidecar => CleansSidecar') /\ (CleansFiles => CleansFiles')
  BY <1>1, <1>3 DEF CleansSidecar, CleansFiles
<1>10. InCleanup => InCleanup'
  <2> SUFFICES ASSUME InCleanup PROVE InCleanup'
    OBVIOUS
  <2>1. op'.undo \in Ends
    BY <1>1 DEF InCleanup
  <2>2. CASE CleansSidecar \/ CleansFiles
    BY <1>9, <2>1, <2>2 DEF InCleanup
  <2>3. ASSUME NEW w \in {"purge", "pass"}, NEW p \in Seq(OfApps), NEW q \in Seq(OfBranches),
               CleansApps(p, q, w)
        PROVE  InCleanup'
    BY <1>7, <2>1, <2>3 DEF InCleanup
  <2>4. ASSUME NEW w \in {"purge", "pass"}, NEW q \in Seq(OfBranches), CleansBranches(q, w)
        PROVE  InCleanup'
    BY <1>8, <2>1, <2>4 DEF InCleanup
  <2>5. ASSUME NEW w \in {"purge", "pass"}, CleansProfiles(w) \/ CleansWrapper(w)
        PROVE  InCleanup'
    BY <1>8, <2>1, <2>5 DEF InCleanup
  <2>6. \/ \E w \in {"purge", "pass"} :
             \/ \E p \in Seq(OfApps), q \in Seq(OfBranches) : CleansApps(p, q, w)
             \/ \E q \in Seq(OfBranches) : CleansBranches(q, w)
             \/ CleansProfiles(w) \/ CleansWrapper(w)
        \/ CleansSidecar \/ CleansFiles
    BY DEF InCleanup
  <2> QED
    BY <2>2, <2>3, <2>4, <2>5, <2>6
<1>11. PlanPart'
  BY <1>1, <1>4, <1>5, <1>6, <1>10 DEF IInv, PlanPart
<1> QED
  BY <1>2, <1>11 DEF IInv

LEMMA OthersSteps ==
  ASSUME IInv, Others
  PROVE  IInv'
<1>1. CASE \E a \in Apps : OthersReset(a)
  <2>1. PICK a \in Apps : OthersReset(a)
    BY <1>1
  <2>2. override' = [override EXCEPT ![a] = "none"]
        /\ UNCHANGED <<pair, loaded, op, owned, prepared, profiles>>
    BY <2>1 DEF OthersReset, config
  <2>3. override = [c \in Apps |-> override[c]]
    BY DEF IInv, TypePart
  <2>4. /\ override' = [c \in Apps |-> override'[c]]
        /\ \A c \in Apps : override'[c] \in {override[c], "none"}
    BY <2>2, <2>3
  <2> QED
    BY <2>2, <2>4, OthersKeep
<1>2. CASE \E b \in Branches : OthersExtension(b)
  <2>1. UNCHANGED <<pair, loaded, op, owned, prepared, profiles, override>>
    BY <1>2 DEF OthersExtension, config
  <2>2. override = [c \in Apps |-> override[c]]
    BY DEF IInv, TypePart
  <2> QED
    BY <2>1, <2>2, OthersKeep
<1> QED
  BY <1>1, <1>2 DEF Others

LEMMA StutterStep ==
  ASSUME IInv, UNCHANGED vars
  PROVE  IInv'
<1>1. UNCHANGED <<pair, loaded, op, owned, prepared, profiles, override>>
  BY DEF vars, flatpak, config
<1>2. override = [c \in Apps |-> override[c]]
  BY DEF IInv, TypePart
<1> QED
  BY <1>1, <1>2, OthersKeep
-----------------------------------------------------------------------------
(* The theorems.                                                           *)

LEMMA StepKeeps ==
  ASSUME IInv, Step
  PROVE  IInv'
<1>1. ASSUME NEW a \in Apps,
             \/ Extension(a) \/ InstallExtension(a) \/ OwnExtension(a) \/ Reset(a)
             \/ Prepare(a) \/ RecordApp(a) \/ ForgetApp(a) \/ Apply(a) \/ StoreState(a)
             \/ CreateProfile(a) \/ DropProfile(a)
      PROVE  IInv'
  <2>1. CASE Extension(a) \/ Reset(a) \/ ForgetApp(a)
    BY <2>1, ExtensionStep, ResetStep, ForgetStep
  <2>2. CASE InstallExtension(a) \/ OwnExtension(a) \/ Prepare(a) \/ Apply(a) \/ StoreState(a)
    BY <2>2, FlatpakSteps
  <2>3. CASE RecordApp(a) \/ CreateProfile(a) \/ DropProfile(a)
    BY <2>3, RecordStep, CreateStep, DropStep
  <2> QED
    BY <1>1, <2>1, <2>2, <2>3
<1>2. ASSUME NEW x, WriteSidecar(x) \/ WriteWrapper(x)
      PROVE  IInv'
  BY <1>2, SidecarStep, WrapperStep
<1>3. ASSUME NEW f \in {"cli", "layer", "conf"}, PutFile(f) \/ EraseFile(f)
      PROVE  IInv'
  BY <1>3, FileSteps, EraseStep
<1>4. (\E x \in {"legacy", "write"} : InstallConfig(x)) => IInv'
  BY FileSteps
<1>5. ASSUME NEW b \in Branches, RemoveExtension(b) \/ Disown(b)
      PROVE  IInv'
  BY <1>5, BranchSteps
<1>6. ASSUME NEW x \in {"apps", "branches"}, Gate(x)
      PROVE  IInv'
  BY <1>6, GateStep
<1>7. DropProfiles \/ Adreno \/ Gone => IInv'
  BY DropAllStep, AdrenoStep, GoneStep
<1> QED
  BY <1>1, <1>2, <1>3, <1>4, <1>5, <1>6, <1>7 DEF Step

LEMMA CallsKeep ==
  ASSUME IInv, RuntimeCalls \/ (\E a \in Apps : FlatpakCalls(a)) \/ DeckyUninstalls \/ Load
  PROVE  IInv'
<1>1. CASE RuntimeCalls
  <2>1. ASSUME NEW g \in Games, NEW ws \in States, SetState(g, ws) PROVE IInv'
    BY <2>1, SetStateStep
  <2>2. ASSUME NEW g \in Games, RemoveState(g) PROVE IInv'
    BY <2>2, RemoveStateStep
  <2>3. (\E g \in Games : UpdateGame(g)) \/ (\E gs \in SUBSET Games : ResetGames(gs)) => IInv'
    BY UpdateSteps
  <2>4. Install \/ Uninstall => IInv'
    BY InstallStep, UninstallStep
  <2> QED
    BY <1>1, <2>1, <2>2, <2>3, <2>4 DEF RuntimeCalls
<1>2. CASE \E a \in Apps : FlatpakCalls(a)
  <2>1. ASSUME NEW a \in Apps, EnableApp(a) \/ RemoveApp(a) PROVE IInv'
    BY <2>1, EnableStep, RemoveStep
  <2>2. ASSUME NEW a \in Apps, NEW ws \in States, SetFlatpakState(a, ws) PROVE IInv'
    BY <2>2, SetFlatpakStep
  <2>3. (\E a \in Apps : UpdateApp(a)) => IInv'
    BY UpdateSteps
  <2> QED
    BY <1>2, <2>1, <2>2, <2>3 DEF FlatpakCalls
<1>3. CASE DeckyUninstalls \/ Load
  BY <1>3, DeckyStep, LoadStep
<1> QED
  BY <1>1, <1>2, <1>3

LEMMA NextKeeps ==
  ASSUME IInv, [Next]_vars
  PROVE  IInv'
BY CallsKeep, StepKeeps, CrashStep, OthersSteps, StutterStep DEF Next

LEMMA InitHolds ==
  ASSUME Init
  PROVE  IInv
<1>1. ~loaded /\ op = Idle /\ owned \subseteq Branches
      /\ prepared = [a \in Apps |-> prepared[a]] /\ override = [a \in Apps |-> override[a]]
  BY DEF Init
<1>2. sidecar \in Sidecars /\ wrapper \in Wrappers
  BY DEF Init, Absent, None, Sidecars, Wrappers, Docs, States
<1> QED
  BY <1>1, <1>2, IdleIs DEF IInv, TypePart, PlanPart

\* Where every method stands: what its plan still holds, what it would undo and
\* what was true when it got there (_write_pair(), remove_plugin_owned_environment(),
\* uninstall_lsfg_vk() and the rest), through failures, crashes and what others do.
THEOREM Invariance == Spec => []IInv
<1>1. Init => IInv
  BY InitHolds
<1>2. IInv /\ [Next]_vars => IInv'
  BY NextKeeps
<1> QED
  BY <1>1, <1>2, PTL DEF Spec

\* Between the methods the wrapper is the one its state describes: the two files
\* of _write_pair() are both new or both as they were, after every update, every
\* failure that could be undone and every repair at the start of the plugin.
THEOREM WrapperFollows == Spec => []WrapperFollowsState
<1>1. IInv => WrapperFollowsState
  BY ReadyIs DEF WrapperFollowsState, Settled
<1> QED
  BY <1>1, Invariance, PTL

Ordered ==
  /\ \A a \in Apps : prepared[a] # "no" /\ prepared'[a] = "no" => override[a] = "none"
  /\ owned \ owned' # {} => \A a \in Apps : prepared[a] = "no"
  /\ files \ files' # {} =>
       /\ owned = {} /\ \A a \in Apps : prepared[a] = "no" /\ profiles[a] = "none"
       /\ sidecar.is = "absent"

\* Most steps take nothing down.
LEMMA TakesNothing ==
  ASSUME UNCHANGED <<owned, prepared, files>>
  PROVE  Ordered
BY DEF Ordered

LEMMA StepOrdered ==
  ASSUME IInv, Step
  PROVE  Ordered
<1>1. ASSUME NEW a \in Apps, RecordApp(a) \/ ForgetApp(a) \/ StoreState(a) \/ OwnExtension(a)
      PROVE  Ordered
  <2>1. prepared = [c \in Apps |-> prepared[c]] /\ op.ws \in {"none"} \union States
    BY DEF IInv, TypePart, Ops
  <2>2. files' = files /\ owned \ owned' = {}
    BY <1>1 DEF RecordApp, ForgetApp, StoreState, OwnExtension
  <2>3. ForgetApp(a) => override[a] = "none"
    BY ForgetStep
  <2>4. \A c \in Apps : prepared[c] # "no" /\ prepared'[c] = "no" => override[c] = "none"
    <3>1. CASE RecordApp(a)
      BY <2>1, <3>1 DEF RecordApp
    <3>2. CASE ForgetApp(a)
      BY <2>1, <2>3, <3>2 DEF ForgetApp
    <3>3. CASE StoreState(a)
      BY <2>1, <3>3 DEF StoreState, States
    <3>4. CASE OwnExtension(a)
      BY <3>4 DEF OwnExtension
    <3> QED
      BY <1>1, <3>1, <3>2, <3>3, <3>4
  <2> QED
    BY <2>2, <2>4 DEF Ordered
<1>2. ASSUME NEW a \in Apps,
             \/ Extension(a) \/ InstallExtension(a) \/ Reset(a) \/ Prepare(a) \/ Apply(a)
             \/ CreateProfile(a) \/ DropProfile(a)
      PROVE  Ordered
  <2>1. UNCHANGED <<owned, prepared, files>>
    BY <1>2 DEF Extension, InstallExtension, Reset, Prepare, Apply, CreateProfile, DropProfile,
                ChangeProfiles, flatpak
  <2> QED
    BY <2>1, TakesNothing
<1>3. ASSUME NEW b \in Branches, RemoveExtension(b) \/ Disown(b)
      PROVE  Ordered
  <2>1. prepared' = prepared /\ files' = files
    BY <1>3 DEF RemoveExtension, Disown
  <2>2. RemoveExtension(b) => owned' = owned
    BY DEF RemoveExtension
  <2>3. Disown(b) => NoApps
    BY BranchSteps
  <2> QED
    BY <1>3, <2>1, <2>2, <2>3 DEF Ordered, NoApps
<1>4. ASSUME NEW f, PutFile(f) \/ EraseFile(f)
      PROVE  Ordered
  <2>1. prepared' = prepared /\ owned' = owned
    BY <1>4 DEF PutFile, EraseFile, flatpak
  <2>2. PutFile(f) => files \ files' = {}
    BY DEF PutFile
  <2>3. EraseFile(f) => NoApps /\ owned = {} /\ NoProfiles /\ sidecar.is = "absent"
    BY EraseStep DEF CleansFiles
  <2> QED
    BY <1>4, <2>1, <2>2, <2>3 DEF Ordered, NoApps, NoProfiles
<1>5. ASSUME NEW x, Gate(x) \/ WriteSidecar(x) \/ WriteWrapper(x) \/ InstallConfig(x)
      PROVE  Ordered
  <2>1. UNCHANGED <<owned, prepared, files>>
    BY <1>5 DEF Gate, WriteSidecar, WriteWrapper, InstallConfig, flatpak
  <2> QED
    BY <2>1, TakesNothing
<1>6. ASSUME DropProfiles \/ Adreno \/ Gone
      PROVE  Ordered
  <2>1. UNCHANGED <<owned, prepared, files>>
    BY <1>6 DEF DropProfiles, ChangeProfiles, Adreno, Gone, flatpak
  <2> QED
    BY <2>1, TakesNothing
<1> QED
  BY <1>1, <1>2, <1>3, <1>4, <1>5, <1>6 DEF Step

LEMMA OthersOrdered ==
  ASSUME \/ RuntimeCalls \/ (\E a \in Apps : FlatpakCalls(a))
         \/ DeckyUninstalls \/ Load \/ Crash \/ Others \/ UNCHANGED vars
  PROVE  Ordered
<1>1. CASE RuntimeCalls
  <2>1. UNCHANGED <<owned, prepared, files>>
    BY <1>1 DEF RuntimeCalls, Install, Uninstall, UpdateGame, RemoveState, SetState, ResetGames,
                flatpak
  <2> QED
    BY <2>1, TakesNothing
<1>2. CASE \E a \in Apps : FlatpakCalls(a)
  <2>1. UNCHANGED <<owned, prepared, files>>
    BY <1>2 DEF FlatpakCalls, EnableApp, UpdateApp, RemoveApp, SetFlatpakState, flatpak
  <2> QED
    BY <2>1, TakesNothing
<1>3. CASE DeckyUninstalls \/ Load \/ Crash \/ UNCHANGED vars
  <2>1. UNCHANGED <<owned, prepared, files>>
    BY <1>3 DEF DeckyUninstalls, Load, Crash, vars, flatpak
  <2> QED
    BY <2>1, TakesNothing
<1>4. CASE Others
  <2>1. UNCHANGED <<owned, prepared, files>>
    BY <1>4 DEF Others, OthersReset, OthersExtension
  <2> QED
    BY <2>1, TakesNothing
<1> QED
  BY <1>1, <1>2, <1>3, <1>4

\* remove_app_override(), uninstall_extension() and uninstall_lsfg_vk() take down
\* in this order whatever failed, died or was retried before: an app is forgotten
\* with its override empty, an extension is given up with no app prepared, and a
\* file of the plugin goes when there is nothing left that needs it.
THEOREM TakenDownInOrder == Spec => TeardownOrder
<1>1. IInv /\ [Next]_vars => [Ordered]_vars
  BY StepOrdered, OthersOrdered DEF Next
<1>2. Spec => [][Ordered]_vars
  BY <1>1, Invariance, PTL DEF Spec
<1> QED
  BY <1>2 DEF TeardownOrder, Ordered
=============================================================================
