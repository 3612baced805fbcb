------------------------------ MODULE RgbLighting ------------------------------
(***************************************************************************)
(* armada-rgb: commands that set, apply or darken the lights, each a       *)
(* process of its own, and the watcher that follows the screen.  They      *)
(* share the lights, the saved configuration and the temporary file it is  *)
(* written through, and no lock.                                           *)
(*                                                                         *)
(* Simplifications.  Color, saturation and correction are a look; the      *)
(* lights' own brightness is the level "own", that of a linked             *)
(* configuration is the screen's.  Values are valid.                       *)
(***************************************************************************)
EXTENDS Naturals, Sequences

CONSTANTS
  Users,      \* processes that run a command
  Looks,
  Levels,     \* of the screen
  Backends,   \* the backends to consider
  Budget      \* bound on commands, failures, kills and changes of the screen

Watcher == "watcher"

ASSUME RgbAssumption ==
  /\ Backends \subseteq {"gcmhid", "serial", "channels", "multicolor"}
  /\ Watcher \notin Users /\ Budget \in Nat

VARIABLES
  backend,
  saved,      \* rgb.json: a configuration, or Part of one
  temp,       \* rgb.tmp: the same, or NoFile
  lights,     \* target |-> [look, level]
  screen,
  run,        \* process |-> the command it runs
  watch,      \* the watcher: [on, seen, read]
  budget

vars == <<backend, saved, temp, lights, screen, run, watch, budget>>

Targets == IF backend = "serial" THEN 1..1 ELSE 1..2
Dark == [look |-> CHOOSE k \in Looks : TRUE, level |-> "dark"]
Default == [on |-> FALSE, link |-> FALSE, look |-> CHOOSE k \in Looks : TRUE]
Part == [Default EXCEPT !.look = "part"]
NoFile == [Default EXCEPT !.look = "none"]
Linked(c) == c.on /\ c.link
Idle == [cmd |-> "none", at |-> "idle", cfg |-> Default, level |-> "dark",
         todo |-> <<>>, fd |-> "none"]

Init ==
  /\ backend \in Backends
  \* What an earlier session saved; nothing applies it when the device starts.
  /\ saved \in {Default} \union [on : {TRUE}, link : {TRUE}, look : Looks]
  /\ temp = NoFile
  /\ lights = [t \in Targets |-> Dark]
  /\ screen \in Levels
  /\ run = [p \in Users \union {Watcher} |-> Idle]
  /\ watch = [on |-> FALSE, seen |-> "none", read |-> "none"]
  /\ budget = Budget

Spend == budget > 0 /\ budget' = budget - 1
At(p, s) == run[p].at = s
Goes(p, s) == run' = [run EXCEPT ![p].at = s] /\ UNCHANGED <<watch, budget>>

\* Faulty variant: a brightness counts as followed although applying it failed.
EndsSeen(p, ok) ==
  /\ run' = [run EXCEPT ![p] = Idle]
  /\ watch' = IF p = Watcher THEN [watch EXCEPT !.seen = watch.read] ELSE watch
\* A command ends; the watcher remembers the brightness it has followed.
Ends(p, ok) ==
  /\ run' = [run EXCEPT ![p] = Idle]
  /\ watch' = IF p = Watcher /\ ok THEN [watch EXCEPT !.seen = watch.read] ELSE watch
Done(p) == Ends(p, TRUE) /\ UNCHANGED budget
Fails(p) == Ends(p, FALSE) /\ Spend
-----------------------------------------------------------------------------
(* A command.                                                              *)

\* sleep and wake do nothing but with lights that a microcontroller drives.
Start(p, cmd) ==
  /\ At(p, "idle") /\ Spend
  /\ cmd \in {"sleep", "wake"} => backend = "serial"
  /\ run' = [run EXCEPT ![p] = [Idle EXCEPT !.cmd = cmd, !.at = "get"]]
  /\ UNCHANGED <<backend, saved, temp, lights, screen, watch>>

\* What set makes of the saved configuration, what off and sleep do, and apply.
Wanted(cmd, c) ==
  CASE cmd = "set" -> {[on |-> TRUE, link |-> l, look |-> k] : l \in BOOLEAN, k \in Looks}
    [] cmd \in {"off", "sleep"} -> {[c EXCEPT !.on = FALSE]}
    [] OTHER -> {c}

Get(p) ==
  /\ At(p, "get")
  /\ IF saved = Part THEN Ends(p, FALSE)
     ELSE IF p = Watcher /\ ~Linked(saved) THEN Ends(p, TRUE)
     ELSE /\ \E c \in Wanted(run[p].cmd, saved) :
               run' = [run EXCEPT ![p].at = "link", ![p].cfg = c]
          /\ UNCHANGED watch
  /\ UNCHANGED <<backend, saved, temp, lights, screen, budget>>

\* The brightness of linked lights follows the screen and is never dark.
Level(c) == IF ~c.on THEN "dark" ELSE IF c.link THEN screen ELSE "own"

\* config_for_apply(): the screen's brightness is read again, or cannot be.
Link(p) ==
  /\ At(p, "link")
  /\ \/ /\ run' = [run EXCEPT ![p].at = "prepare", ![p].level = Level(run[p].cfg)]
        /\ UNCHANGED <<watch, budget>>
     \/ Linked(run[p].cfg) /\ Fails(p)
  /\ UNCHANGED <<backend, saved, temp, lights, screen>>

\* The writes of a backend, in their order: colors before brightnesses, or
\* both at once.
MulticolorWrites(c) ==
  IF c.on THEN <<<<"look", 1>>, <<"look", 2>>, <<"level", 1>>, <<"level", 2>>>>
          ELSE <<<<"level", 1>>, <<"level", 2>>>>
ChannelWrites == <<<<"both", 1>>, <<"both", 2>>>>
StripWrites == <<<<"both", 1>>, <<"both", 2>>>>
SerialWrites == <<<<"both", 1>>>>
Writes(c) ==
  CASE backend = "multicolor" -> MulticolorWrites(c)
    [] backend = "channels" -> ChannelWrites
    [] backend = "gcmhid" -> StripWrites
    [] backend = "serial" -> SerialWrites

\* Every target is opened before any is written.
Prepare(p) ==
  /\ At(p, "prepare")
  /\ \/ /\ run' = [run EXCEPT ![p].at = "write", ![p].todo = Writes(run[p].cfg)]
        /\ UNCHANGED <<watch, budget>>
     \/ Fails(p)
  /\ UNCHANGED <<backend, saved, temp, lights, screen>>

Put(p, w) ==
  lights' = [lights EXCEPT ![w[2]] =
    [look  |-> IF w[1] = "level" THEN @.look ELSE run[p].cfg.look,
     level |-> IF w[1] = "look" THEN @.level ELSE run[p].level]]

\* After a failed write the lights of the LED class are darkened as well as can be.
Blank(p) ==
  IF backend = "channels" \/ (backend = "multicolor" /\ run[p].cfg.on)
  THEN \E dark \in SUBSET Targets :
         lights' = [t \in Targets |-> IF t \in dark THEN [lights[t] EXCEPT !.level = "dark"]
                                                    ELSE lights[t]]
  ELSE UNCHANGED lights

Write(p) ==
  /\ At(p, "write")
  /\ LET todo == run[p].todo IN
     \/ /\ Put(p, Head(todo))
        /\ UNCHANGED budget
        /\ IF Len(todo) > 1
           THEN run' = [run EXCEPT ![p].todo = Tail(todo)] /\ UNCHANGED watch
           ELSE IF run[p].cmd \in {"set", "off"}
           THEN run' = [run EXCEPT ![p].at = "open", ![p].todo = <<>>] /\ UNCHANGED watch
           ELSE Ends(p, TRUE)
     \/ Blank(p) /\ Fails(p)
  /\ UNCHANGED <<backend, saved, temp, screen>>

\* save(): the temporary file is the same for all; one that has it open goes on
\* writing to it wherever it was renamed to.
Open(p) ==
  /\ At(p, "open")
  /\ run' = [run EXCEPT ![p].at = "fill", ![p].fd = "temp"]
  /\ temp' = Part
  /\ UNCHANGED <<backend, saved, lights, screen, watch, budget>>

Fill(p) ==
  /\ At(p, "fill")
  /\ \/ /\ temp' = IF run[p].fd = "temp" THEN run[p].cfg ELSE temp
        /\ saved' = IF run[p].fd = "saved" THEN run[p].cfg ELSE saved
        /\ Goes(p, "rename")
     \/ Fails(p) /\ UNCHANGED <<temp, saved>>
  /\ UNCHANGED <<backend, lights, screen>>

Rename(p) ==
  /\ At(p, "rename")
  /\ IF temp = NoFile
     THEN Ends(p, FALSE) /\ UNCHANGED <<saved, temp>>
     ELSE /\ saved' = temp /\ temp' = NoFile
          /\ run' = [q \in DOMAIN run |->
                       IF q = p THEN Idle
                       ELSE [run[q] EXCEPT !.fd = CASE @ = "temp" -> "saved"
                                                    [] @ = "saved" -> "lost"
                                                    [] OTHER -> @]]
          /\ UNCHANGED watch
  /\ UNCHANGED <<backend, lights, screen, budget>>

\* A command is killed: armada-control gives it five seconds.
Killed(p) ==
  /\ ~At(p, "idle") /\ Fails(p)
  /\ UNCHANGED <<backend, saved, temp, lights, screen>>
-----------------------------------------------------------------------------
(* The watcher, and the screen.                                            *)

WatchStarts ==
  /\ ~watch.on /\ Spend
  /\ watch' = [on |-> TRUE, seen |-> "none", read |-> "none"]
  /\ UNCHANGED <<backend, saved, temp, lights, screen, run>>

Poll ==
  /\ watch.on /\ At(Watcher, "idle")
  /\ IF ~Linked(saved)
     THEN watch' = [watch EXCEPT !.on = FALSE] /\ UNCHANGED run
     ELSE /\ screen # watch.seen
          /\ watch' = [watch EXCEPT !.read = screen]
          /\ run' = [run EXCEPT ![Watcher] = [Idle EXCEPT !.cmd = "follow", !.at = "get"]]
  /\ UNCHANGED <<backend, saved, temp, lights, screen, budget>>

ScreenChanges(l) ==
  /\ l # screen /\ Spend
  /\ screen' = l
  /\ UNCHANGED <<backend, saved, temp, lights, run, watch>>

Step(p) ==
  Get(p) \/ Link(p) \/ Prepare(p) \/ Write(p) \/ Open(p) \/ Fill(p) \/ Rename(p)

Next ==
  \/ \E p \in Users :
       \/ \E cmd \in {"set", "off", "apply", "sleep", "wake"} : Start(p, cmd)
       \/ Killed(p)
  \/ \E p \in Users \union {Watcher} : Step(p)
  \/ WatchStarts \/ Poll
  \/ \E l \in Levels : ScreenChanges(l)

\* The watcher's loop goes on, and what it does not wait for ends.
Spec == Init /\ [][Next]_vars /\ WF_vars(Poll) /\ WF_vars(Step(Watcher))
-----------------------------------------------------------------------------
Quiet == \A p \in Users : At(p, "idle")
InSync == \A t \in Targets : lights[t] = [look |-> saved.look, level |-> screen]

\* A brightness that the watcher finds to be new while no command runs is on
\* the lights in the end, with the look that is saved, whatever fails meanwhile,
\* unless the screen changes again or somebody runs a command.
WatcherCatchesUp ==
  \A l \in Levels :
    (Quiet /\ watch.on /\ At(Watcher, "idle") /\ Linked(saved)
       /\ screen = l /\ watch.seen # l)
      ~> (~Quiet \/ screen # l \/ InSync)
=============================================================================
