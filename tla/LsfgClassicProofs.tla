--------------------------- MODULE LsfgClassicProofs ---------------------------
(***************************************************************************)
(* What the classic plugin guarantees for any list of profile names and    *)
(* any number of failures and crashes: there is a default and a current    *)
(* profile whatever was cut short, and the launch script is the current    *)
(* profile's.                                                              *)
(***************************************************************************)
EXTENDS LsfgClassic, TLAPS

\* A configuration as the file may hold it, and as it is after reading.
Written(c) ==
  /\ c = [current |-> c.current, games |-> c.games]
  /\ c.games = [n \in DOMAIN c.games |-> c.games[n]]
  /\ DOMAIN c.games \subseteq Profiles
  /\ c.current \in DOMAIN c.games => Default \in DOMAIN c.games
Sound(c) == Written(c) /\ c.current \in DOMAIN c.games

LEMMA Names1 == Default \in ToSet(Names) /\ Default \in Profiles /\ 1 \in DOMAIN Names
<1>1. 1 \in DOMAIN Names
  BY ClassicAssumption
<1> QED
  BY <1>1 DEF Default, Profiles, ToSet

LEMMA DefaultNotCut == Default # "cut" /\ "lost" \notin Profiles
BY Names1, ClassicAssumption DEF Profiles

LEMMA DefaultFirst ==
  ASSUME NEW n \in Profiles, n # Default
  PROVE  Before(Default, n)
<1>1. CASE n = "cut"
  BY <1>1, DefaultNotCut DEF Before
<1>2. CASE n \in ToSet(Names)
  <2>1. PICK j \in DOMAIN Names : n = Names[j]
    BY <1>2 DEF ToSet
  <2>2. 1 < j
    <3>1. j \in 1..Len(Names) /\ Len(Names) \in Nat
      BY ClassicAssumption
    <3>2. j # 1
      BY <2>1 DEF Default
    <3> QED
      BY <3>1, <3>2
  <2> QED
    BY <2>1, <2>2, Names1 DEF Before, Default
<1> QED
  BY <1>1, <1>2 DEF Profiles

LEMMA FreshSound == Sound(Fresh)
BY Names1 DEF Sound, Written, Fresh

\* Reading repairs what a cut left.
LEMMA ParseSound ==
  ASSUME NEW c, Written(c)
  PROVE  Sound(Parse(c)) /\ (Sound(c) => Parse(c) = c) /\ Default \in DOMAIN Parse(c).games
<1>1. CASE c.current \in DOMAIN c.games
  BY <1>1 DEF Parse, Sound, Written
<1>2. CASE c.current \notin DOMAIN c.games /\ Default \in DOMAIN c.games
  BY <1>2 DEF Parse, Sound, Written
<1>3. CASE c.current \notin DOMAIN c.games /\ Default \notin DOMAIN c.games
  BY <1>3, Names1 DEF Parse, Sound, Written
<1> QED
  BY <1>1, <1>2, <1>3

\* What a cut leaves of a configuration that is in order can be read.
LEMMA CutsWritten ==
  ASSUME NEW c, Sound(c), NEW d \in Cuts(c)
  PROVE  Written(d)
<1> DEFINE first == {p \in SUBSET DOMAIN c.games :
                  \A n \in p, m \in DOMAIN c.games : Before(m, n) => m \in p}
           whole(p) == [n \in p |-> c.games[n]]
           bare(p) == [n \in p |-> IF \A m \in p : ~Before(n, m) THEN "off" ELSE c.games[n]]
           next(p) == [n \in p \union {"cut"} |-> IF n \in p THEN c.games[n] ELSE "off"]
           room == {p \in first : p # DOMAIN c.games /\ "cut" \notin DOMAIN c.games}
<1>1. \/ d = [current |-> "lost", games |-> <<>>]
      \/ \E p \in first : d = [current |-> c.current, games |-> whole(p)]
      \/ \E p \in first : d = [current |-> c.current, games |-> bare(p)]
      \/ \E p \in room : d = [current |-> c.current, games |-> next(p)]
  BY DEF Cuts
<1>2. \A p \in first : c.current \in p => Default \in p
  <2> SUFFICES ASSUME NEW p \in first, c.current \in p, c.current # Default
               PROVE  Default \in p
    OBVIOUS
  <2>1. Before(Default, c.current)
    BY DefaultFirst DEF Sound, Written
  <2> QED
    BY <2>1 DEF Sound, Written
<1>3. \A p \in first : p \subseteq Profiles
  BY DEF Sound, Written
<1>4. CASE d = [current |-> "lost", games |-> <<>>]
  BY <1>4 DEF Written
<1>5. ASSUME NEW p \in first, d = [current |-> c.current, games |-> whole(p)]
      PROVE  Written(d)
  BY <1>2, <1>3, <1>5 DEF Written
<1>6. ASSUME NEW p \in first, d = [current |-> c.current, games |-> bare(p)]
      PROVE  Written(d)
  <2>1. DOMAIN bare(p) = p /\ bare(p) = [n \in DOMAIN bare(p) |-> bare(p)[n]]
    OBVIOUS
  <2> HIDE DEF bare
  <2> QED
    BY <1>2, <1>3, <1>6, <2>1 DEF Written
<1>7. ASSUME NEW p \in room, d = [current |-> c.current, games |-> next(p)]
      PROVE  Written(d)
  <2>1. c.current \in p \union {"cut"} => c.current \in p
    BY DEF Sound
  <2>2. p \union {"cut"} \subseteq Profiles
    BY <1>3 DEF Profiles
  <2> QED
    BY <1>2, <1>7, <2>1, <2>2 DEF Written
<1> QED
  BY <1>1, <1>4, <1>5, <1>6, <1>7
-----------------------------------------------------------------------------
\* The file, if it is there, is one that can be read.
FilePart == conf = {} \/ \E c : conf = {c} /\ Written(c)

\* The steps that touch configuration or script, and the plans that lead to them.
Conf == <<"write", "conf">>
Run  == <<"write", "script">>
Inst == <<"script", "default">>
Lib  == <<"put", "lib">>
Json == <<"put", "json">>
Steps == {"write", "script", "put", "erase", "clean", "ext", "dll", "config", "env"}
           \X ({"conf", "script", "default", "lib", "json", "23.08", "24.08"} \union Apps)
Quiet(todo) == \A i \in DOMAIN todo : todo[i] \notin {Conf, Run, Inst}
Plan(todo) ==
  \/ Quiet(todo)
  \/ todo \in {<<Conf>>, <<Conf, Run>>, <<Run>>, <<Conf, Inst>>, <<Inst>>,
               <<Json, Conf, Inst>>, <<Lib, Json, Conf, Inst>>}

OpPart ==
  /\ op = [todo |-> op.todo, data |-> op.data]
  /\ op.todo \in Seq(Steps) /\ Plan(op.todo)
  /\ Sound(op.data)

\* The script agrees with the configuration, except where it is still to be
\* written; and then the file is what it will be written from.
Agrees(d) == ~stale /\ script.is # "absent" => script = Script(d)
ScriptPart ==
  /\ op.todo \notin {<<Run>>, <<Inst>>} => Agrees(Data)
  /\ op.todo = <<Conf>> => Agrees(op.data)
  /\ op.todo = <<Run>> => conf = {op.data}

IInv == FilePart /\ OpPart /\ ScriptPart /\ budget \in Int

LEMMA DataSound == FilePart => Sound(Data) /\ Default \in DOMAIN Data.games
<1>1. ASSUME conf = {} PROVE Sound(Data) /\ Default \in DOMAIN Data.games
  BY <1>1, FreshSound DEF Data, Fresh
<1>2. ASSUME NEW c, conf = {c}, Written(c)
      PROVE  Sound(Data) /\ Default \in DOMAIN Data.games
  <2>1. Data = Parse(c)
    BY <1>2 DEF Data
  <2> QED
    BY <1>2, <2>1, ParseSound
<1> QED
  BY <1>1, <1>2 DEF FilePart

LEMMA DataIs ==
  ASSUME NEW c, Sound(c), conf = {c}
  PROVE  Data = c
<1>1. Data = Parse(c)
  BY DEF Data
<1> QED
  BY <1>1, ParseSound DEF Sound
-----------------------------------------------------------------------------
(* Plans.                                                                  *)

LEMMA Tuples ==
  ASSUME NEW x, NEW y
  PROVE  /\ Head(<<x>>) = x /\ Tail(<<x>>) = <<>>
         /\ Head(<<x, y>>) = x /\ Tail(<<x, y>>) = <<y>>
<1>1. Head(<<x>>) = x /\ Head(<<x, y>>) = x
  OBVIOUS
<1>2. Tail(<<x>>) = <<>>
  OBVIOUS
<1>3. Tail(<<x, y>>) = <<y>>
  OBVIOUS
<1> QED
  BY <1>1, <1>2, <1>3

LEMMA Distinct ==
  /\ Conf # Run /\ Conf # Inst /\ Run # Inst
  /\ Lib \notin {Conf, Run, Inst} /\ Json \notin {Conf, Run, Inst}
BY DEF Conf, Run, Inst, Lib, Json

\* A step is the plan's head, and what it leaves is a plan.
LEMMA PlanTail ==
  ASSUME NEW S, NEW todo \in Seq(S), Plan(todo), todo # <<>>
  PROVE  /\ Plan(Tail(todo)) /\ Tail(todo) \in Seq(S)
         /\ Len(todo) = 1 => Tail(todo) = <<>>
         /\ Head(todo) = Conf => todo \in {<<Conf>>, <<Conf, Run>>, <<Conf, Inst>>}
         /\ Head(todo) = Run => todo = <<Run>>
         /\ Head(todo) = Inst => todo = <<Inst>>
         /\ Head(todo) \notin {Conf, Run, Inst} =>
              /\ Tail(todo) \notin {<<Run>>, <<Inst>>, <<Conf>>}
              /\ todo \notin {<<Run>>, <<Inst>>, <<Conf>>}
<1>1. Tail(todo) \in Seq(S) /\ Head(todo) = todo[1] /\ 1 \in DOMAIN todo
  OBVIOUS
<1>2. Len(todo) = 1 => Tail(todo) = <<>>
  OBVIOUS
<1>3. CASE Quiet(todo)
  <2>1. \A i \in DOMAIN Tail(todo) : i + 1 \in DOMAIN todo /\ Tail(todo)[i] = todo[i + 1]
    OBVIOUS
  <2>2. Quiet(Tail(todo))
    BY <2>1, <1>3 DEF Quiet
  <2>3. ~Quiet(<<Conf>>) /\ ~Quiet(<<Run>>) /\ ~Quiet(<<Inst>>)
    BY DEF Quiet
  <2>4. Plan(Tail(todo)) /\ Tail(todo) \notin {<<Run>>, <<Inst>>, <<Conf>>}
    BY <2>2, <2>3 DEF Plan
  <2>5. todo \notin {<<Run>>, <<Inst>>, <<Conf>>} /\ Head(todo) \notin {Conf, Run, Inst}
    BY <1>1, <1>3, <2>3 DEF Quiet
  <2> QED
    BY <1>1, <1>2, <2>4, <2>5
<1>4. CASE todo \in {<<Conf>>, <<Run>>, <<Inst>>}
  <2>1. Tail(todo) = <<>>
    BY <1>4, Tuples
  <2>3. Quiet(<<>>)
    BY DEF Quiet
  <2>2. /\ todo = <<Conf>> => Head(todo) = Conf
        /\ todo = <<Run>> => Head(todo) = Run
        /\ todo = <<Inst>> => Head(todo) = Inst
    BY <1>1
  <2> QED
    BY <1>1, <1>2, <1>4, <2>1, <2>2, <2>3, Distinct DEF Plan
<1>5. CASE todo \in {<<Conf, Run>>, <<Conf, Inst>>}
  <2>1. Head(todo) = Conf /\ Tail(todo) \in {<<Run>>, <<Inst>>}
    BY <1>5, Tuples
  <2> QED
    BY <1>1, <1>2, <1>5, <2>1, Distinct DEF Plan
<1>6. CASE todo = <<Json, Conf, Inst>>
  <2>1. Head(todo) = Json /\ Tail(todo) = <<Conf, Inst>> /\ Len(todo) = 3
    BY <1>6
  <2>2. \A x : /\ Len(<<x>>) = 1 /\ <<x>> # <<Conf, Inst>> /\ <<x>> # todo
    BY <1>6
  <2> QED
    BY <1>1, <1>2, <1>6, <2>1, <2>2, Distinct DEF Plan
<1>7. CASE todo = <<Lib, Json, Conf, Inst>>
  <2>1. Head(todo) = Lib /\ Tail(todo) = <<Json, Conf, Inst>> /\ Len(todo) = 4
    BY <1>7
  <2>2. \A x : /\ <<x>> # <<Json, Conf, Inst>> /\ <<x>> # todo
    BY <1>7
  <2> QED
    BY <1>1, <1>2, <1>7, <2>1, <2>2, Distinct DEF Plan
<1> QED
  BY <1>3, <1>4, <1>5, <1>6, <1>7 DEF Plan

LEMMA IdleOp ==
  ASSUME op' = Idle
  PROVE  OpPart' /\ op'.todo = <<>>
<1>1. Quiet(<<>>)
  BY DEF Quiet
<1> QED
  BY <1>1, FreshSound DEF Idle, OpPart, Plan

LEMMA GoesOp ==
  ASSUME OpPart, op.todo # <<>>, Goes
  PROVE  /\ OpPart' /\ op'.todo = Tail(op.todo)
         /\ op'.todo # <<>> => op'.data = op.data
<1> USE DEF OpPart
<1>1. CASE Len(op.todo) = 1
  BY <1>1, IdleOp, PlanTail DEF Goes
<1>2. CASE Len(op.todo) # 1
  <2>1. op' = [op EXCEPT !.todo = Tail(@)]
    BY <1>2 DEF Goes
  <2>2. op' = [todo |-> Tail(op.todo), data |-> op.data]
    BY <2>1
  <2> QED
    BY <2>2, PlanTail
<1> QED
  BY <1>1, <1>2

\* Steps that change neither configuration nor script (or erase the script)
\* change nothing that matters here, wherever they lead.
LEMMA OtherStep ==
  ASSUME IInv, OpPart', conf' = conf, script' \in {script, NoScript},
         stale => stale', budget' \in Int,
         ~stale' => /\ op.todo \notin {<<Run>>, <<Inst>>}
                    /\ op'.todo = <<Conf>> => Agrees(op.data)',
         op'.todo \notin {<<Run>>, <<Inst>>}
  PROVE  IInv'
<1>1. Data' = Data
  BY DEF Data
<1>3. Agrees(Data)'
  BY <1>1 DEF IInv, ScriptPart, Agrees, NoScript, Script
<1>4. FilePart'
  BY DEF IInv, FilePart
<1>5. op'.todo = <<Conf>> => Agrees(op.data)'
  BY DEF Agrees
<1>6. ScriptPart'
  BY <1>3, <1>5 DEF ScriptPart
<1> QED
  BY <1>4, <1>6 DEF IInv
-----------------------------------------------------------------------------
(* The steps of a plan.                                                    *)

LEMMA WriteConfStep ==
  ASSUME IInv, WriteConf
  PROVE  IInv'
<1>1. op.todo # <<>> /\ Head(op.todo) = Conf
  BY DEF WriteConf, At, Conf
<1>2. op.todo \in {<<Conf>>, <<Conf, Run>>, <<Conf, Inst>>}
  BY <1>1, PlanTail DEF IInv, OpPart
<1>3. PICK d : d = op.data
  OBVIOUS
<1>4. Sound(d) /\ Written(d)
  BY <1>3 DEF IInv, OpPart, Sound
<1>5. CASE conf' = {op.data} /\ Goes /\ budget' = budget
  <2>1. /\ OpPart' /\ op'.todo = Tail(op.todo)
        /\ op'.todo # <<>> => op'.data = op.data
    BY <1>1, <1>5, GoesOp DEF IInv
  <2>2. conf' = {d} /\ Data' = d /\ (stale => stale') /\ script' = script
    <3>1. conf' = {d} /\ (stale => stale') /\ script' = script
      BY <1>3, <1>5 DEF WriteConf, IInv
    <3>2. Data' = Parse(d)
      BY <3>1 DEF Data
    <3> QED
      BY <1>4, <3>1, <3>2, ParseSound
  <2>3. \/ op.todo = <<Conf>> /\ op'.todo = <<>>
        \/ op'.todo \in {<<Run>>, <<Inst>>}
    <3>1. /\ Tail(<<Conf>>) = <<>> /\ Tail(<<Conf, Run>>) = <<Run>>
          /\ Tail(<<Conf, Inst>>) = <<Inst>>
      BY Tuples
    <3> QED
      BY <1>2, <2>1, <3>1
  <2>4. op.todo = <<Conf>> => Agrees(Data)'
    BY <1>3, <2>2 DEF Agrees, IInv, ScriptPart
  <2>5. <<Run>> # <<Conf>> /\ <<Inst>> # <<Conf>>
    BY Distinct
  <2>6. ScriptPart'
    BY <1>3, <2>1, <2>2, <2>3, <2>4, <2>5 DEF ScriptPart
  <2> QED
    BY <1>4, <1>5, <2>1, <2>2, <2>6 DEF IInv, FilePart
<1>6. CASE (\E c \in Cuts(op.data) : conf' = {c}) /\ Stops
  <2>1. OpPart' /\ op'.todo = <<>>
    BY <1>6, IdleOp DEF Stops
  <2>2. budget' \in Int /\ budget' # budget
    BY <1>6 DEF Stops, Spend, IInv
  <2>4. stale'
    BY <2>2 DEF WriteConf
  <2>3. FilePart'
    BY <1>3, <1>4, <1>6, CutsWritten DEF FilePart
  <2> QED
    BY <2>1, <2>2, <2>3, <2>4 DEF IInv, ScriptPart, Agrees
<1> QED
  BY <1>5, <1>6 DEF WriteConf

LEMMA WriteScriptStep ==
  ASSUME IInv, WriteScript
  PROVE  IInv'
<1>1. op.todo # <<>> /\ Head(op.todo) = Run
  BY DEF WriteScript, At, Run
<1>2. op.todo = <<Run>>
  BY <1>1, PlanTail DEF IInv, OpPart
<1>3. OpPart' /\ op'.todo = <<>>
  BY <1>1, <1>2, GoesOp, Tuples DEF WriteScript, IInv
<1>4. PICK d : d = op.data
  OBVIOUS
<1>5. conf' = {d} /\ Data' = d
  <2>1. conf' = {d} /\ Sound(d)
    BY <1>2, <1>4 DEF WriteScript, IInv, ScriptPart, OpPart
  <2>2. Data' = Parse(d)
    BY <2>1 DEF Data
  <2> QED
    BY <2>1, <2>2, ParseSound DEF Sound
<1>6. Agrees(Data)'
  BY <1>4, <1>5 DEF WriteScript, Agrees
<1>7. FilePart' /\ budget' \in Int
  BY DEF WriteScript, IInv, FilePart, Spend
<1> QED
  BY <1>3, <1>6, <1>7 DEF IInv, ScriptPart

LEMMA InstallScriptStep ==
  ASSUME IInv, InstallScript
  PROVE  IInv'
<1>1. op.todo # <<>> /\ Head(op.todo) = Inst
  BY DEF InstallScript, At, Inst
<1>2. op.todo = <<Inst>>
  BY <1>1, PlanTail DEF IInv, OpPart
<1>3. OpPart' /\ op'.todo = <<>>
  BY <1>1, <1>2, GoesOp, IdleOp, Tuples DEF InstallScript, IInv, Stops
<1>4. FilePart' /\ budget' \in Int /\ stale'
  BY DEF InstallScript, IInv, FilePart, Stops, Spend
<1> QED
  BY <1>3, <1>4 DEF IInv, ScriptPart, Agrees

LEMMA QuietStep ==
  ASSUME IInv, op.todo # <<>>, Head(op.todo) \notin {Conf, Run, Inst}, Goes \/ op' = Idle,
         conf' = conf, script' \in {script, NoScript}, stale' = stale, budget' \in Int
  PROVE  IInv'
<1>1. /\ op.todo \notin {<<Run>>, <<Inst>>}
      /\ Tail(op.todo) \notin {<<Run>>, <<Inst>>, <<Conf>>}
  BY PlanTail DEF IInv, OpPart
<1>2. OpPart' /\ op'.todo \in {<<>>, Tail(op.todo)}
  BY GoesOp, IdleOp DEF IInv
<1>3. \A x : <<>> # <<x>>
  OBVIOUS
<1>4. op'.todo \notin {<<Run>>, <<Inst>>, <<Conf>>}
  BY <1>1, <1>2, <1>3
<1> QED
  BY <1>1, <1>2, <1>4, OtherStep DEF IInv

LEMMA CrashStep ==
  ASSUME IInv, Crash
  PROVE  IInv'
<1>1. OpPart' /\ op'.todo = <<>> /\ budget' \in Int
  BY IdleOp DEF Crash, Stops, Spend, IInv
<1>2. op.todo # <<>> /\ op.todo \in Seq(Steps)
  BY DEF Crash, Ready, IInv, OpPart
<1>3. Head(op.todo) \in {Conf, Run, Inst} => stale'
  <2>1. \A x : Head(op.todo) = x => Contains(op.todo, x)
    BY <1>2 DEF Contains
  <2> QED
    BY <2>1 DEF Crash, Conf, Run, Inst
<1>4. stale => stale'
  BY DEF Crash, IInv
<1>5. CASE UNCHANGED <<conf, script>>
  <2>1. op.todo \in {<<Run>>, <<Inst>>} => stale'
    BY <1>3, Tuples
  <2> QED
    BY <1>1, <1>4, <1>5, <2>1, OtherStep
<1>6. CASE /\ At("write", "conf") /\ (\E c \in Cuts(op.data) : conf' = {c})
  <2>1. stale'
    BY <1>3, <1>6 DEF At, Conf
  <2>2. PICK d : d = op.data /\ Sound(d)
    BY DEF IInv, OpPart
  <2>3. FilePart'
    BY <1>6, <2>2, CutsWritten DEF FilePart
  <2> QED
    BY <1>1, <2>1, <2>3 DEF IInv, ScriptPart, Agrees
<1>7. CASE (At("write", "script") \/ At("script", "default")) /\ conf' = conf
  <2>1. stale'
    BY <1>3, <1>7 DEF At, Run, Inst
  <2>2. FilePart'
    BY <1>7 DEF IInv, FilePart
  <2> QED
    BY <1>1, <2>1, <2>2 DEF IInv, ScriptPart, Agrees
<1> QED
  BY <1>5, <1>6, <1>7 DEF Crash
-----------------------------------------------------------------------------
(* The methods' beginnings.                                                *)

LEMMA InitIInv == Init => IInv
<1> SUFFICES ASSUME Init PROVE IInv
  OBVIOUS
<1>1. OpPart /\ op.todo = <<>>
  <2>1. Quiet(<<>>)
    BY DEF Quiet
  <2> QED
    BY <2>1, FreshSound DEF Init, Idle, OpPart, Plan
<1>2. \A x : <<>> # <<x>>
  OBVIOUS
<1>3. ScriptPart
  BY <1>1, <1>2 DEF ScriptPart, Agrees, Init, NoScript
<1> QED
  BY <1>1, <1>3, ClassicAssumption DEF Init, IInv, FilePart

\* The plans.
LEMMA PlansTyped ==
  /\ <<Conf>> \in Seq(Steps) /\ Plan(<<Conf>>)
  /\ Both = <<Conf, Run>> /\ Both \in Seq(Steps) /\ Plan(Both)
  /\ Both \notin {<<Conf>>, <<Run>>, <<Inst>>} /\ <<Conf>> \notin {<<Run>>, <<Inst>>}
<1>1. Conf \in Steps /\ Run \in Steps
  BY DEF Steps, Conf, Run
<1>2. Both = <<Conf, Run>>
  BY DEF Both, Conf, Run
<1>3. <<Conf>> \in Seq(Steps) /\ <<Conf, Run>> \in Seq(Steps)
  BY <1>1
<1>4. \A x : <<Conf, Run>> # <<x>>
  OBVIOUS
<1> QED
  BY <1>2, <1>3, <1>4, Distinct DEF Plan

\* The plans that write neither configuration nor script.
LEMMA QuietPlans ==
  ASSUME NEW todo \in Seq(Steps), \A i \in DOMAIN todo : todo[i] \notin {Conf, Run, Inst}
  PROVE  Plan(todo) /\ todo \notin {<<Conf>>, <<Run>>, <<Inst>>}
<1>1. Quiet(todo)
  BY DEF Quiet
<1>2. ~Quiet(<<Conf>>) /\ ~Quiet(<<Run>>) /\ ~Quiet(<<Inst>>)
  BY DEF Quiet
<1> QED
  BY <1>1, <1>2 DEF Plan

\* A method that begins with nothing but what it will write.
LEMMA BeginStep ==
  ASSUME IInv, Ready, OpPart', op'.todo \notin {<<Run>>, <<Inst>>},
         op'.todo = <<Conf>> => (Agrees(Data) => Agrees(op.data)'),
         UNCHANGED <<conf, script, files, ext, over, stale, budget>>
  PROVE  IInv'
<1>1. op.todo = <<>> /\ op.todo \notin {<<Run>>, <<Inst>>}
  BY DEF Ready
<1>2. Agrees(Data)
  BY <1>1 DEF IInv, ScriptPart
<1> QED
  BY <1>1, <1>2, OtherStep DEF IInv

\* Editing keeps a configuration in order.
LEMMA EditsSound ==
  ASSUME NEW d, Sound(d), Default \in DOMAIN d.games, NEW n, NEW m
  PROVE  /\ n \in Profiles /\ n \notin DOMAIN d.games /\ m \in DOMAIN d.games =>
              /\ Sound(Created(d, n, m))
              /\ Script(Created(d, n, m)) = Script(d)
         /\ n \in DOMAIN d.games /\ n # Default => Sound(Deleted(d, n))
         /\ n \in DOMAIN d.games /\ n # Default /\ m \in Profiles /\ m \notin DOMAIN d.games =>
              Sound(Renamed(d, n, m))
         /\ n \in DOMAIN d.games => Sound(Chosen(d, n))
<1> USE DEF Sound, Written
<1>1. ASSUME n \in Profiles, n \notin DOMAIN d.games, m \in DOMAIN d.games
      PROVE  Sound(Created(d, n, m)) /\ Script(Created(d, n, m)) = Script(d)
  <2>1. Created(d, n, m) =
          [current |-> d.current,
           games |-> [k \in DOMAIN d.games \union {n} |->
                        IF k = n THEN d.games[m] ELSE d.games[k]]]
    BY DEF Created
  <2>2. d.current \in DOMAIN d.games /\ d.current # n
    BY <1>1
  <2> QED
    BY <1>1, <2>1, <2>2 DEF Script
<1>2. ASSUME n \in DOMAIN d.games, n # Default
      PROVE  Sound(Deleted(d, n))
  BY <1>2 DEF Deleted
<1>3. ASSUME n \in DOMAIN d.games, n # Default, m \in Profiles, m \notin DOMAIN d.games
      PROVE  Sound(Renamed(d, n, m))
  BY <1>3 DEF Renamed
<1>4. ASSUME n \in DOMAIN d.games
      PROVE  Sound(Chosen(d, n))
  <2>1. Chosen(d, n) = [current |-> n, games |-> d.games]
    BY DEF Chosen
  <2> QED
    BY <1>4, <2>1
<1> QED
  BY <1>1, <1>2, <1>3, <1>4

LEMMA SetSound ==
  ASSUME NEW d, Sound(d), NEW n \in DOMAIN d.games, NEW set
  PROVE  /\ Sound([d EXCEPT !.games[n] = set])
         /\ n # d.current => Script([d EXCEPT !.games[n] = set]) = Script(d)
<1> USE DEF Sound, Written
<1> DEFINE g == [d.games EXCEPT ![n] = set]
<1>1. [d EXCEPT !.games[n] = set] = [current |-> d.current, games |-> g]
  OBVIOUS
<1>2. DOMAIN g = DOMAIN d.games /\ g = [k \in DOMAIN g |-> g[k]]
      /\ \A k \in DOMAIN d.games : k # n => g[k] = d.games[k]
  OBVIOUS
<1> HIDE DEF g
<1>3. Sound([d EXCEPT !.games[n] = set])
  BY <1>1, <1>2
<1>4. n # d.current => Script([current |-> d.current, games |-> g]) = Script(d)
  BY <1>2 DEF Script
<1> QED
  BY <1>1, <1>3, <1>4

LEMMA ProfileStep ==
  ASSUME IInv,
         NEW n \in Profiles, NEW m \in ToSet(Names), NEW set \in Settings,
         \/ SetCurrentProfile(n) \/ DeleteProfile(n) \/ UpdateProfile(n, set)
         \/ RenameProfile(n, m) \/ CreateProfile(m, n)
  PROVE  IInv'
<1>1. Sound(Data) /\ Default \in DOMAIN Data.games
  BY DataSound DEF IInv
<1>2. m \in Profiles
  BY DEF Profiles
<1>3. PICK d : d = Data
  OBVIOUS
<1>4. ASSUME NEW e, Sound(e), NEW todo, Begin(e, todo),
             \/ todo = Both
             \/ todo = <<Conf>> /\ Script(e) = Script(d)
      PROVE  IInv'
  <2>1. /\ op' = [todo |-> todo, data |-> e] /\ Ready
        /\ UNCHANGED <<conf, script, files, ext, over, stale, budget>>
    BY <1>4 DEF Begin
  <2>2. OpPart' /\ op'.todo \notin {<<Run>>, <<Inst>>}
    BY <1>4, <2>1, PlansTyped DEF OpPart
  <2>3. op'.todo = <<Conf>> => (Agrees(Data) => Agrees(op.data)')
    BY <1>3, <1>4, <2>1, PlansTyped DEF Agrees
  <2> QED
    BY <2>1, <2>2, <2>3, BeginStep
<1>5. CASE SetCurrentProfile(n)
  BY <1>1, <1>3, <1>4, <1>5, EditsSound DEF SetCurrentProfile, Has
<1>6. CASE DeleteProfile(n)
  BY <1>1, <1>3, <1>4, <1>6, EditsSound DEF DeleteProfile, Has
<1>7. CASE RenameProfile(n, m)
  BY <1>1, <1>2, <1>3, <1>4, <1>7, EditsSound DEF RenameProfile, Has
<1>8. CASE CreateProfile(m, n)
  <2>1. Begin(Created(d, m, n), <<Conf>>) /\ m \notin DOMAIN d.games /\ n \in DOMAIN d.games
    BY <1>3, <1>8 DEF CreateProfile, Has, Conf
  <2>2. Sound(Created(d, m, n)) /\ Script(Created(d, m, n)) = Script(d)
    BY <1>1, <1>2, <1>3, <2>1, EditsSound
  <2> QED
    BY <1>4, <2>1, <2>2
<1>9. CASE UpdateProfile(n, set)
  <2> DEFINE e == [d EXCEPT !.games[n] = set]
  <2>1. n \in DOMAIN d.games /\ Begin(e, IF n = d.current THEN Both ELSE <<Conf>>)
    BY <1>3, <1>9 DEF UpdateProfile, Has, Conf
  <2>2. Sound(e) /\ (n # d.current => Script(e) = Script(d))
    BY <1>1, <1>3, <2>1, SetSound
  <2> HIDE DEF e
  <2>3. CASE n = d.current
    BY <1>4, <2>1, <2>2, <2>3
  <2>4. CASE n # d.current
    BY <1>4, <2>1, <2>2, <2>4
  <2> QED
    BY <2>3, <2>4
<1> QED
  BY <1>5, <1>6, <1>7, <1>8, <1>9

LEMMA EditOtherStep == IInv /\ EditOther => IInv'
<1> SUFFICES ASSUME IInv, EditOther PROVE IInv'
  OBVIOUS
<1>1. PICK d : d = Data
  OBVIOUS
<1>2. Sound(d)
  BY <1>1, DataSound DEF IInv
<1> DEFINE e == [d EXCEPT !.games[d.current] = Shown(d)]
<1>3. Begin(e, Both)
  BY <1>1 DEF EditOther, UpdateProfile
<1>4. Sound(e)
  BY <1>2, SetSound DEF Sound
<1> HIDE DEF e
<1>5. OpPart' /\ op'.todo \notin {<<Run>>, <<Inst>>, <<Conf>>}
  BY <1>3, <1>4, PlansTyped DEF Begin, OpPart
<1> QED
  BY <1>3, <1>5, BeginStep DEF Begin

\* Installing, removing and granting begin with the configuration that is read.
LEMMA OtherPlans ==
  /\ <<Lib, Json, Conf, Inst>> \in Seq(Steps)
  /\ Plan(<<Lib, Json, Conf, Inst>>)
  /\ <<Lib, Json, Conf, Inst>> \notin {<<Conf>>, <<Run>>, <<Inst>>}
<1>1. Lib \in Steps /\ Json \in Steps /\ Conf \in Steps /\ Inst \in Steps
  BY DEF Steps, Lib, Json, Conf, Inst
<1>2. \A x : <<Lib, Json, Conf, Inst>> # <<x>>
  OBVIOUS
<1> QED
  BY <1>1, <1>2 DEF Plan

LEMMA MethodStep ==
  ASSUME IInv, Install \/ Uninstall \/ DeckyUninstalls \/ \E a \in Apps : SetOverride(a)
  PROVE  IInv'
<1>1. Sound(Data) /\ Sound(Merged(Data))
  <2>1. Sound(Data) /\ DOMAIN Data.games # {}
    BY DataSound DEF IInv
  <2> QED
    BY <2>1 DEF Merged
<1>2. ASSUME NEW todo \in Seq(Steps), Plan(todo), todo \notin {<<Conf>>, <<Run>>, <<Inst>>},
             Begin(Data, todo) \/ Begin(Merged(Data), todo)
      PROVE  IInv'
  <2>1. OpPart' /\ op'.todo = todo
    BY <1>1, <1>2 DEF Begin, OpPart
  <2> QED
    BY <1>2, <2>1, BeginStep DEF Begin
<1>3. CASE Install
  <2>1. Begin(Merged(Data), <<Lib, Json, Conf, Inst>>)
    BY <1>3 DEF Install, Lib, Json, Conf, Inst
  <2> QED
    BY <1>2, <2>1, OtherPlans
<1>4. CASE Uninstall
  <2> DEFINE todo == <<<<"erase", "lib">>, <<"erase", "json">>, <<"erase", "script">>>>
  <2>1. todo \in Seq(Steps)
    BY DEF Steps
  <2>2. \A i \in DOMAIN todo : todo[i] \notin {Conf, Run, Inst}
    BY DEF Conf, Run, Inst
  <2>3. Begin(Data, todo)
    BY <1>4 DEF Uninstall
  <2> HIDE DEF todo
  <2> QED
    BY <1>2, <2>1, <2>2, <2>3, QuietPlans
<1>5. CASE DeckyUninstalls
  <2> DEFINE todo == <<<<"clean", "lib">>, <<"clean", "json">>, <<"clean", "script">>,
                       <<"ext", "23.08">>, <<"ext", "24.08">>>>
  <2>1. todo \in Seq(Steps)
    BY DEF Steps
  <2>2. \A i \in DOMAIN todo : todo[i] \notin {Conf, Run, Inst}
    BY DEF Conf, Run, Inst
  <2>3. Begin(Data, todo)
    BY <1>5 DEF DeckyUninstalls
  <2> HIDE DEF todo
  <2> QED
    BY <1>2, <2>1, <2>2, <2>3, QuietPlans
<1>6. ASSUME NEW a \in Apps, SetOverride(a)
      PROVE  IInv'
  <2> DEFINE todo == [i \in 1..4 |-> <<Grants[i], a>>]
  <2>1. \A i \in 1..4 : Grants[i] \in {"dll", "config", "script", "env"}
    BY DEF Grants
  <2>2. todo \in Seq(Steps)
    <3>1. \A i \in 1..4 : <<Grants[i], a>> \in Steps
      BY <2>1 DEF Steps
    <3> QED
      BY <3>1
  <2>3. \A i \in DOMAIN todo : todo[i] \notin {Conf, Run, Inst}
    BY <2>1, ClassicAssumption DEF Conf, Run, Inst
  <2>4. Begin(Data, todo)
    BY <1>6 DEF SetOverride
  <2> HIDE DEF todo
  <2> QED
    BY <1>2, <2>2, <2>3, <2>4, QuietPlans
<1> QED
  BY <1>3, <1>4, <1>5, <1>6

LEMMA FileStep ==
  ASSUME IInv, NEW f \in {"lib", "json", "script"}, NEW s \in {"erase", "clean"},
         PutFile(f) \/ EraseFile(s, f)
  PROVE  IInv'
<1>1. /\ op.todo # <<>> /\ Head(op.todo) \notin {Conf, Run, Inst}
  BY DEF PutFile, EraseFile, At, Conf, Run, Inst
<1>2. /\ Goes \/ op' = Idle
      /\ budget' \in Int /\ stale' = stale /\ conf' = conf /\ script' \in {script, NoScript}
  BY DEF PutFile, EraseFile, RemoveIfExists, Stops, Spend, IInv
<1> QED
  BY <1>1, <1>2, QuietStep

LEMMA FlatpakStep ==
  ASSUME IInv,
         \/ \E v \in Versions : InstallExtension(v) \/ UninstallExtension(v)
         \/ \E a \in Apps : RemoveOverride(a) \/ \E g \in ToSet(Grants) : Grant(g, a)
  PROVE  IInv'
<1>1. conf' = conf /\ script' = script /\ stale' = stale /\ budget' \in Int
  BY DEF InstallExtension, UninstallExtension, RemoveOverride, Grant, CommandFails,
         Spend, Stops, IInv
<1>2. CASE Ready /\ op' = op
  <2>1. op.todo = <<>> /\ OpPart'
    BY <1>2 DEF Ready, IInv, OpPart
  <2>2. \A x : <<>> # <<x>>
    OBVIOUS
  <2> QED
    BY <1>1, <1>2, <2>1, <2>2, OtherStep
<1>3. ASSUME NEW v \in Versions, At("ext", v), Goes
      PROVE  IInv'
  <2>1. op.todo # <<>> /\ Head(op.todo) \notin {Conf, Run, Inst}
    BY <1>3 DEF At, Conf, Run, Inst
  <2> QED
    BY <1>1, <1>3, <2>1, QuietStep
<1>4. ASSUME NEW a \in Apps, NEW g \in ToSet(Grants), At(g, a), Goes \/ Stops
      PROVE  IInv'
  <2>1. g # "write" /\ a # "default"
    BY ClassicAssumption DEF ToSet, Grants
  <2>2. op.todo # <<>> /\ Head(op.todo) \notin {Conf, Run, Inst}
    BY <1>4, <2>1 DEF At, Conf, Run, Inst
  <2> QED
    BY <1>1, <1>4, <2>2, QuietStep DEF Stops
<1>5. ASSUME NEW v \in Versions, InstallExtension(v) \/ UninstallExtension(v)
      PROVE  IInv'
  BY <1>2, <1>3, <1>5 DEF InstallExtension, UninstallExtension
<1>6. ASSUME NEW a \in Apps, RemoveOverride(a)
      PROVE  IInv'
  BY <1>2, <1>6 DEF RemoveOverride
<1>7. ASSUME NEW a \in Apps, NEW g \in ToSet(Grants), Grant(g, a)
      PROVE  IInv'
  BY <1>4, <1>7 DEF Grant, CommandFails
<1> QED
  BY <1>5, <1>6, <1>7

LEMMA StutterStep ==
  ASSUME IInv, UNCHANGED vars
  PROVE  IInv'
<1>1. Data' = Data
  BY DEF Data, vars
<1> QED
  BY <1>1 DEF vars, IInv, FilePart, OpPart, ScriptPart, Agrees

\* Every step keeps the invariant.
THEOREM Invariance == Spec => []IInv
<1>1. IInv /\ [Next]_vars => IInv'
  <2> SUFFICES ASSUME IInv, [Next]_vars PROVE IInv'
    OBVIOUS
  <2>1. ASSUME NEW n \in Profiles, NEW m \in ToSet(Names), NEW set \in Settings,
               \/ SetCurrentProfile(n) \/ DeleteProfile(n) \/ UpdateProfile(n, set)
               \/ RenameProfile(n, m) \/ CreateProfile(m, n)
        PROVE  IInv'
    BY <2>1, ProfileStep
  <2>2. CASE EditOther
    BY <2>2, EditOtherStep
  <2>3. CASE WriteConf \/ WriteScript \/ InstallScript \/ Crash
    BY <2>3, WriteConfStep, WriteScriptStep, InstallScriptStep, CrashStep
  <2>4. CASE Install \/ Uninstall \/ DeckyUninstalls \/ \E a \in Apps : SetOverride(a)
    BY <2>4, MethodStep
  <2>5. ASSUME NEW f \in {"lib", "json", "script"}, NEW s \in {"erase", "clean"},
               PutFile(f) \/ EraseFile(s, f)
        PROVE  IInv'
    BY <2>5, FileStep
  <2>6. CASE \/ \E v \in Versions : InstallExtension(v) \/ UninstallExtension(v)
             \/ \E a \in Apps : RemoveOverride(a) \/ \E g \in ToSet(Grants) : Grant(g, a)
    BY <2>6, FlatpakStep
  <2>7. CASE UNCHANGED vars
    BY <2>7, StutterStep
  <2>8. \E m \in ToSet(Names), set \in Settings : TRUE
    BY Names1 DEF Settings
  <2>9. \E s \in {"erase", "clean"} : TRUE
    OBVIOUS
  <2> QED
    BY <2>1, <2>2, <2>3, <2>4, <2>5, <2>6, <2>7, <2>8, <2>9
    DEF Next, InstallCalls, ProfileCalls, FlatpakCalls, Step
<1> QED
  BY <1>1, InitIInv, PTL DEF Spec

\* Whatever a cut left of the configuration and whatever was created, deleted
\* or renamed, what _parse_toml_content_multi_profile() reads has the default
\* profile and a current one that exists.
THEOREM DefaultProfile == Spec => []DefaultStays
<1>1. IInv => DefaultStays
  BY DataSound DEF IInv, DefaultStays, Has, Sound
<1> QED
  BY <1>1, Invariance, PTL

\* Between the methods the launch script is the current profile's.
THEOREM ScriptCurrent == Spec => []ScriptFollowsProfile
<1>1. IInv => ScriptFollowsProfile
  <2> SUFFICES ASSUME IInv, Ready PROVE Agrees(Data)
    BY DEF ScriptFollowsProfile, Agrees
  <2>1. \A x : <<>> # <<x>>
    OBVIOUS
  <2> QED
    BY <2>1 DEF IInv, ScriptPart, Ready
<1> QED
  BY <1>1, Invariance, PTL
=============================================================================
