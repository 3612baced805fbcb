------------------------------ MODULE StorePanel ------------------------------
(***************************************************************************)
(* The panel of armada-store (Content.tsx) with its backend: it polls the  *)
(* status while it is open and gives every app that state.json owes one a  *)
(* shortcut in Steam.  Its calls to the backend end in any order, and fail *)
(* when the backend restarts.                                              *)
(*                                                                         *)
(* Simplifications.  A closed panel is one that does not poll; what a menu *)
(* offers follows a status that may be old, so any request may be made.    *)
(* What get_status() reads, it reads at once.                              *)
(* A shortcut is an id whose target is fixed: Old starts the rival         *)
(* packaging, the others the app's own.                                    *)
(***************************************************************************)
EXTENDS StoreJobs

VARIABLES
  poll,       \* {what get_status() read}, {} when none is under way
  attempted,  \* autoAddAttempted
  removing,   \* app |-> the shortcut whose removal is in flight, 0 for none
  adding,     \* [app, id]: shortcuts made and not recorded yet
  tried       \* history: apps of which an add was begun since the last status
              \* taken, or start of the front end, without a debt of theirs

panel == <<poll, attempted, removing, adding>>
code == <<backend, panel>>
vars == <<code, tried>>

PanelInit ==
  /\ Init
  /\ poll = {} /\ attempted = {} /\ removing = [a \in Apps |-> 0] /\ adding = {}
  /\ tried = {}

NewId(a) == CHOOSE id \in NewIds : id # shortcut[a]

\* addToSteam() for each of the apps
AddToSteam(apps) == {[app |-> a, id |-> NewId(a)] : a \in apps}

\* refreshStatus() asks, one request at a time, what is there and what is owed.
PollReads ==
  /\ poll = {} /\ pending \union attempted # {}    \* others change nothing
  /\ poll' = {[owed     |-> {a \in pending : Launchable(a) /\ Installed(a)},
               pending  |-> pending,
               shortcut |-> shortcut]}
  /\ UNCHANGED <<backend, attempted, removing, adding>>

\* Faulty variant: an attempt is remembered for good.
RememberedEver(s) == attempted

\* What the effect keeps of autoAddAttempted.
Remembered(s) == attempted \intersect s.pending

\* The answer arrives and the effect runs: attempts that are no longer owed are
\* forgotten; an owed app that is installed loses the shortcut it has, and gets
\* one once in the life of the front end.
PollEnds ==
  \E s \in poll :
    LET drops == {a \in s.owed : s.shortcut[a] # 0 /\ removing[a] = 0}
        adds  == {a \in s.owed : s.shortcut[a] = 0} \ attempted
    IN  /\ poll' = {}
        /\ attempted' = Remembered(s) \union adds
        /\ removing' = [a \in Apps |-> IF a \in drops THEN s.shortcut[a] ELSE removing[a]]
        /\ \/ /\ adding' = adding \union AddToSteam(adds)
              /\ UNCHANGED budget
           \/ adds # {} /\ Spend /\ UNCHANGED adding    \* Steam refuses
        /\ UNCHANGED <<kind, disk, store, list, cache>>

\* The panel is closed: the answer to its last request is dropped.
Close ==
  /\ poll # {} /\ Spend
  /\ poll' = {}
  /\ UNCHANGED <<kind, disk, store, list, cache, attempted, removing, adding>>

\* record_shortcut()
RecordShortcut ==
  \E c \in adding :
    /\ adding' = adding \ {c}
    /\ shortcut' = [shortcut EXCEPT ![c.app] = c.id]
    /\ pending' = pending \ {c.app}
    /\ UNCHANGED <<kind, disk, record, list, cache, budget, poll, attempted, removing>>

\* clear_shortcut() keeps what is owed, and only acts on the record the caller
\* set out to remove.
ClearShortcut(a, id) ==
  shortcut' = IF shortcut[a] = id /\ a \in pending THEN [shortcut EXCEPT ![a] = 0]
              ELSE shortcut

\* dropOldShortcut()
DropOldShortcut(a) ==
  /\ removing[a] # 0
  /\ \/ ClearShortcut(a, removing[a]) /\ UNCHANGED budget
     \/ Spend /\ UNCHANGED shortcut    \* Steam refuses: the next status retries
  /\ removing' = [removing EXCEPT ![a] = 0]
  /\ UNCHANGED <<kind, disk, record, pending, list, cache, poll, attempted, adding>>
-----------------------------------------------------------------------------
(* The menu.                                                               *)

MenuStarts(a, action) == Start(a, action) /\ UNCHANGED panel

MenuCancels(a) == Cancel(a) /\ UNCHANGED panel

\* "Add to Steam"
MenuAdds(a) ==
  /\ Launchable(a) /\ Spend
  /\ adding' = adding \union AddToSteam({a})
  /\ UNCHANGED <<kind, disk, store, list, cache, poll, attempted, removing>>

\* "Remove from Steam", and the first half of "Uninstall".
MenuRemoves(a) ==
  /\ Launchable(a) /\ Spend
  /\ shortcut' = [shortcut EXCEPT ![a] = 0]
  /\ pending' = pending \ {a}
  /\ UNCHANGED <<kind, disk, record, list, cache, panel>>
-----------------------------------------------------------------------------
\* The front end restarts; calls under way are not answered.
FrontEndRestarts ==
  /\ Spend
  /\ poll' = {}
  /\ attempted' = {} /\ removing' = [a \in Apps |-> 0] /\ adding' = {}
  /\ UNCHANGED <<kind, disk, store, list, cache>>

\* The back end restarts; the calls to it fail.
BackEndRestarts ==
  /\ BackendRestarts
  /\ poll' = {} /\ removing' = [a \in Apps |-> 0] /\ adding' = {}
  /\ UNCHANGED attempted

Backend == Work \/ Refresh \/ ReadFlatpaks \/ Stamp \/ Age

Step ==
  \/ Backend /\ UNCHANGED panel
  \/ Close \/ PollReads \/ RecordShortcut \/ BackEndRestarts
  \/ \E a \in Apps : \/ DropOldShortcut(a) \/ MenuCancels(a) \/ MenuAdds(a)
                     \/ MenuRemoves(a)
                     \/ \E action \in {"install", "replace", "uninstall"} :
                          MenuStarts(a, action)

\* The panel can tell a debt from the one before it when a status without a debt
\* came in between, or the front end started.
Next ==
  \/ PollEnds /\ tried' = (tried \intersect UNION {s.pending : s \in poll})
                            \union (attempted' \ attempted)
  \/ FrontEndRestarts /\ tried' = {}
  \/ Step /\ UNCHANGED tried

Spec == PanelInit /\ [][Next]_vars

\* The worker's subprocesses end; time passes, the polls of an open panel and
\* the calls under way are answered, and the user looks at the panel again.
FairSpec ==
  /\ Spec
  /\ WF_code(Work /\ UNCHANGED panel)
  /\ WF_code(Refresh /\ UNCHANGED panel) /\ WF_code(ReadFlatpaks /\ UNCHANGED panel)
  /\ WF_code(Stamp /\ UNCHANGED panel) /\ WF_code(Age /\ UNCHANGED panel)
  /\ WF_code(PollReads) /\ WF_code(PollEnds)
  /\ WF_code(RecordShortcut) /\ \A a \in Apps : WF_code(DropOldShortcut(a))
-----------------------------------------------------------------------------
\* The job list, the queue and the worker agree: a job waits in the queue once,
\* or is in the worker's hands, or is finished, and a queue has a live worker.
JobsOK ==
  /\ IsInjective(queue)
  /\ \A a \in Apps : Active(a) <=> Contains(queue, a) \/ worker = a
  /\ \A a \in Apps : ~(Contains(queue, a) /\ worker = a)
  /\ queue # <<>> => worker # "gone"

\* Every accepted job ends, whatever is started, cancelled or fails beside it.
JobsEnd == \A a \in Apps : Active(a) ~> ~Active(a)

\* A replacement takes the packaging that is there away only once the new one
\* is on the disk, and while the old one's shortcut is recorded, only once a
\* new shortcut is owed: whoever dies in between strands nothing.
ReplacementOwed ==
  [][\A a \in Apps : "rival" \in disk[a] \ disk'[a] =>
       "one" \in disk[a] /\ (shortcut[a] = Old => a \in pending)]_vars

\* "Off the queue: a later install or replacement gets a fresh attempt."  The
\* debt of an installed app that the panel can tell from the one before it is
\* tried for, however the earlier attempt, the old shortcut, the cache of the
\* flatpaks, the closed panel and restarts fell together.
PendingServed ==
  \A a \in Apps :
    a \in pending \ tried /\ Launchable(a) /\ "one" \in disk[a]
      ~> a \in tried \/ a \notin pending \/ "one" \notin disk[a]
=============================================================================
