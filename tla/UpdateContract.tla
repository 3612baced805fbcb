--------------------------- MODULE UpdateContract ---------------------------
(***************************************************************************)
(* What the v2 updater promises its caller about the Linux boot slot: an   *)
(* update is all or nothing.  Between two updates `active' is the kernel   *)
(* release whose complete image boot_a holds (NoRelease when the slot      *)
(* holds no complete image), and the outcome an update reports decides     *)
(* what `active' may have become.  How the slot is written, and in how     *)
(* many steps, is not visible here.                                        *)
(***************************************************************************)
EXTENDS Naturals

CONSTANTS Releases, NoRelease

VARIABLES
  phase,     \* "idle" between updates, "updating" during one
  active,    \* the release boot_a boots, as of the last moment of rest
  recorded,  \* the release named by the installed-release file
  outcome    \* what the last update reported

vars == <<phase, active, recorded, outcome>>

Outcomes == {"none", "refused", "installed", "unrecorded", "restored",
             "restoreFailed", "powerLost"}

Init ==
  /\ phase = "idle"
  /\ active \in Releases
  /\ recorded \in Releases \union {NoRelease}
  /\ outcome = "none"

Begin ==
  /\ phase = "idle"
  /\ phase' = "updating"
  /\ outcome' = "none"
  /\ UNCHANGED <<active, recorded>>

\* Success: the new release is both what boots and what is recorded.
Install ==
  /\ phase = "updating"
  /\ phase' = "idle"
  /\ outcome' = "installed"
  /\ active' \in Releases
  /\ recorded' = active'

\* The update stood, but its last bookkeeping writes did not.
StandUnrecorded ==
  /\ phase = "updating"
  /\ phase' = "idle"
  /\ outcome' = "unrecorded"
  /\ active' \in Releases
  /\ UNCHANGED recorded

\* A refusal or a rollback leaves the slot as it was.
KeepOld ==
  /\ phase = "updating"
  /\ phase' = "idle"
  /\ outcome' \in {"refused", "restored"}
  /\ UNCHANGED <<active, recorded>>

\* Only a rollback that itself fails may leave the slot in any state.
LoseSlot ==
  /\ phase = "updating"
  /\ phase' = "idle"
  /\ outcome' = "restoreFailed"
  /\ active' \in Releases \union {NoRelease}
  /\ UNCHANGED recorded

\* Power may be lost at any moment; at rest that changes nothing.
LosePower ==
  /\ phase' = "idle"
  /\ outcome' = "powerLost"
  /\ active' \in Releases \union {NoRelease}
  /\ phase = "idle" => active' = active
  /\ UNCHANGED recorded

Next == Begin \/ Install \/ StandUnrecorded \/ KeepOld \/ LoseSlot \/ LosePower

Spec == Init /\ [][Next]_vars
=============================================================================
