------------------------- MODULE KernelUpdateProofs -------------------------
(***************************************************************************)
(* Proofs about KernelUpdate, for any number of releases and of chunks and *)
(* for a SIGTERM that reaches the hook as well as the updater.             *)
(***************************************************************************)
EXTENDS KernelUpdate, TLAPS

\* The state predicate that the steps preserve, in parts.

RestorePcs == {"untar", "extract", "unlock", "write", "readback"}
PersistPcs == {"persistConf", "persistTag"}

\* A hook runs only under a waiting pacman, and pacman only under the updater.
Nesting ==
  /\ hook.pc # "idle" => pacman = "wait"
  /\ pacman # "none" <=> upd.pc = "pacman"

Bootable(r) == boot = Image(r) /\ modules[r] = "complete"

\* At rest the device boots, and if the updater may start then what boots is
\* the running kernel.
RestPart ==
  upd.pc \in {"idle", "backup"} /\ ~damaged =>
    \E r \in Releases : Bootable(r) /\ (Preflight => running = r)

StartPart == upd.pc = "backup" => Preflight /\ upd.from = running

\* While an update runs, its backup is the image of the kernel it came from,
\* with that kernel's whole module tree.
BackupPart ==
  upd.pc \in {"pacman"} \union RestorePcs =>
    /\ upd.tree \in Packaged
    /\ ~damaged => /\ upd.copy = Image(upd.from)
                   /\ upd.from = running
                   /\ upd.tree = "complete"

ModulesPart ==
  upd.pc \in {"unlock", "write", "readback"} =>
    modules[upd.from] \in {upd.tree, "complete"}

\* What pacman has committed is there.
CommittedPart ==
  pacman \in {"companion", "postHooks", "wait", "ok"} =>
    modules[upd.target] = "complete"

LivePart ==
  upd.pc \in PersistPcs => /\ Bootable(upd.target)
                           /\ \A q \in Packages : pkg[q] = upd.target

RestoredPart ==
  outcome = "restored" => /\ upd.pc = "idle"
                          /\ boot = upd.copy
                          /\ modules[upd.from] \in {upd.tree, "complete"}
                          /\ ~damaged => modules[upd.from] = "complete"

IInv ==
  /\ TypeOK
  /\ Nesting
  /\ RestPart
  /\ StartPart
  /\ BackupPart
  /\ ModulesPart
  /\ CommittedPart
  /\ LivePart
  /\ RestoredPart
-----------------------------------------------------------------------------
LEMMA HeldImage ==
  ASSUME NEW r \in Releases
  PROVE  Image(r) \in Contents /\ Held(Image(r)) = r
BY ConstantsAssumption DEF Held, Image, Contents, Chunks, Releases

LEMMA HeldType ==
  ASSUME NEW b \in Contents
  PROVE  Held(b) \in Releases \union {NoRelease}
BY ConstantsAssumption DEF Held, Image, Contents, Chunks, Releases, NoRelease

LEMMA First == 1 \in Releases /\ 1 \in Chunks /\ Image(1) \in Contents
BY ConstantsAssumption, HeldImage DEF Releases, Chunks

LEMMA NextChunk == \A k \in Chunks : k # NChunks => k + 1 \in Chunks
BY ConstantsAssumption DEF Chunks

\* Every variable keeps its type.
THEOREM TypeCorrect == Spec => []TypeOK
<1>1. Init => TypeOK
  <2> SUFFICES ASSUME Init PROVE TypeOK
    OBVIOUS
  <2>1. upd \in UpdaterStates
    BY First DEF Init, IdleUpdater, UpdaterStates, UpdaterPcs, TreeStates
  <2>2. hook \in HookStates
    BY First DEF Init, IdleHook, HookStates, HookPcs
  <2> QED
    BY <2>1, <2>2, First DEF Init, TypeOK, PacmanPcs, Outcomes, TreeStates
<1>2. TypeOK /\ [Next]_vars => TypeOK'
  <2> SUFFICES ASSUME TypeOK, [Next]_vars PROVE TypeOK'
    OBVIOUS
  <2> USE DEF device, history, hookOthers, TreeStates, Unfinished, Packaged
  <2>1. CASE Publish
    BY ConstantsAssumption, <2>1 DEF TypeOK, Publish, PacmanPcs, Releases
  <2>2. CASE PowerCycle
    <3>1. upd' \in UpdaterStates
      BY <2>2, First DEF TypeOK, PowerCycle, UpdaterStates, UpdaterPcs, IdleUpdater
    <3>2. hook' \in HookStates
      BY <2>2, First DEF TypeOK, PowerCycle, HookStates, HookPcs, IdleHook
    <3> QED
      BY HeldType, <2>2, <3>1, <3>2 DEF TypeOK, PowerCycle, PacmanPcs, Outcomes
  <2>3. CASE Start
    <3>1. upd' \in UpdaterStates
      BY <2>3 DEF TypeOK, Start, UpdaterStates, UpdaterPcs, Preflight
    <3> QED
      BY <2>3, <3>1 DEF TypeOK, Start, Outcomes
  <2>4. CASE Interrupt
    <3>1. upd' \in UpdaterStates
      BY <2>4 DEF TypeOK, Interrupt, UpdaterStates, UpdaterPcs
    <3>2. hook' \in HookStates
      BY <2>4 DEF TypeOK, Interrupt, HookStates, HookPcs
    <3> QED
      BY <2>4, <3>1, <3>2 DEF TypeOK, Interrupt, PacmanPcs
  <2>5. CASE Backup
    <3>1. upd' \in UpdaterStates
      BY <2>5 DEF TypeOK, Backup, UpdaterStates, UpdaterPcs
    <3> QED
      BY <2>5, <3>1 DEF TypeOK, Backup, PacmanPcs
  <2>6. CASE BackupFails
    <3>1. upd' \in UpdaterStates
      BY <2>6 DEF TypeOK, BackupFails, UpdaterStates, UpdaterPcs
    <3> QED
      BY <2>6, <3>1 DEF TypeOK, BackupFails, Outcomes
  <2>7. CASE Verify
    <3>1. upd' \in UpdaterStates
      BY <2>7 DEF TypeOK, Verify, UpdaterStates, UpdaterPcs
    <3> QED
      BY <2>7, <3>1 DEF TypeOK, Verify, PacmanPcs
  <2>8. CASE RestoreUntar
    <3>1. upd' \in UpdaterStates
      BY <2>8 DEF TypeOK, RestoreUntar, UpdaterStates, UpdaterPcs
    <3> QED
      BY <2>8, <3>1 DEF TypeOK, RestoreUntar, UpdaterStates
  <2>9. CASE RestoreModules
    <3>1. upd' \in UpdaterStates
      BY <2>9 DEF TypeOK, RestoreModules, UpdaterStates, UpdaterPcs
    <3> QED
      BY <2>9, <3>1 DEF TypeOK, RestoreModules, UpdaterStates
  <2>10. CASE RestoreUnlock
    <3>1. upd' \in UpdaterStates
      BY <2>10, First DEF TypeOK, RestoreUnlock, UpdaterStates, UpdaterPcs
    <3> QED
      BY <2>10, <3>1 DEF TypeOK, RestoreUnlock
  <2>11. CASE RestoreWrite
    <3>1. upd' \in UpdaterStates
      BY <2>11, First, NextChunk DEF TypeOK, RestoreWrite, UpdaterStates, UpdaterPcs
    <3>2. boot' \in Contents
      BY <2>11 DEF TypeOK, RestoreWrite, UpdaterStates, Contents
    <3> QED
      BY <2>11, <3>1, <3>2 DEF TypeOK, RestoreWrite
  <2>12. CASE RestoreDone
    <3>1. upd' \in UpdaterStates
      BY <2>12 DEF TypeOK, RestoreDone, UpdaterStates, UpdaterPcs
    <3> QED
      BY <2>12, <3>1 DEF TypeOK, RestoreDone, Outcomes, UpdaterStates
  <2>13. CASE RestoreFails
    <3>1. upd' \in UpdaterStates
      BY <2>13 DEF TypeOK, RestoreFails, UpdaterStates, UpdaterPcs
    <3> QED
      BY <2>13, <3>1 DEF TypeOK, RestoreFails, Outcomes, UpdaterStates
  <2>14. CASE PersistConf
    <3>1. upd' \in UpdaterStates
      BY <2>14 DEF TypeOK, PersistConf, UpdaterStates, UpdaterPcs
    <3> QED
      BY <2>14, <3>1 DEF TypeOK, PersistConf
  <2>15. CASE PersistTag
    <3>1. upd' \in UpdaterStates
      BY <2>15 DEF TypeOK, PersistTag, UpdaterStates, UpdaterPcs
    <3> QED
      BY <2>15, <3>1 DEF TypeOK, PersistTag, Outcomes, UpdaterStates
  <2>16. CASE PersistFails
    <3>1. upd' \in UpdaterStates
      BY <2>16 DEF TypeOK, PersistFails, UpdaterStates, UpdaterPcs
    <3> QED
      BY <2>16, <3>1 DEF TypeOK, PersistFails, Outcomes
  <2>17. CASE PacmanBackupHook
    BY <2>17 DEF TypeOK, PacmanBackupHook, PacmanPcs
  <2>18. CASE PacmanRemoves
    <3>1. PICK t \in Unfinished : modules' = [modules EXCEPT ![pkg["kernel"]] = t]
      BY <2>18 DEF PacmanRemoves
    <3>2. modules' \in [Releases -> TreeStates]
      BY <3>1 DEF TypeOK
    <3> QED
      BY <2>18, <3>2 DEF TypeOK, PacmanRemoves, PacmanPcs
  <2>19. CASE PacmanInstalls
    BY <2>19 DEF TypeOK, PacmanInstalls, PacmanPcs, UpdaterStates, Packages
  <2>20. CASE PacmanInstallsCompanion
    BY <2>20 DEF TypeOK, PacmanInstallsCompanion, PacmanPcs, UpdaterStates, Packages
  <2>21. CASE PacmanFails
    BY <2>21 DEF TypeOK, PacmanFails, PacmanPcs
  <2>22. CASE PacmanRunsHook
    <3>1. hook' \in HookStates
      BY <2>22 DEF TypeOK, PacmanRunsHook, HookStates, HookPcs, UpdaterStates
    <3> QED
      BY <2>22, <3>1 DEF TypeOK, PacmanRunsHook, PacmanPcs
  <2>23. CASE PacmanEnds
    BY <2>23 DEF TypeOK, PacmanEnds, PacmanPcs
  <2>24. CASE HookGivesUp
    <3>1. hook' \in HookStates
      BY <2>24 DEF TypeOK, HookGivesUp, HookStates, HookPcs
    <3> QED
      BY <2>24, <3>1 DEF TypeOK, HookGivesUp
  <2>25. CASE HookBuild
    <3>1. hook' \in HookStates
      BY <2>25 DEF TypeOK, HookBuild, HookStates, HookPcs
    <3> QED
      BY <2>25, <3>1 DEF TypeOK, HookBuild
  <2>26. CASE HookDigest
    <3>1. hook' \in HookStates
      BY <2>26 DEF TypeOK, HookDigest, HookStates, HookPcs
    <3> QED
      BY <2>26, <3>1 DEF TypeOK, HookDigest
  <2>27. CASE HookCopy
    <3>1. hook' \in HookStates
      BY <2>27 DEF TypeOK, HookCopy, HookStates, HookPcs
    <3> QED
      BY <2>27, <3>1 DEF TypeOK, HookCopy
  <2>28. CASE HookUnlock
    <3>1. hook' \in HookStates
      BY <2>28, First DEF TypeOK, HookUnlock, HookStates, HookPcs
    <3> QED
      BY <2>28, <3>1 DEF TypeOK, HookUnlock
  <2>29. CASE HookWrite
    <3>1. hook' \in HookStates
      BY <2>29, First, NextChunk DEF TypeOK, HookWrite, HookStates, HookPcs
    <3>2. boot' \in Contents
      BY <2>29 DEF TypeOK, HookWrite, HookStates, Contents
    <3> QED
      BY <2>29, <3>1, <3>2 DEF TypeOK, HookWrite
  <2>30. CASE HookWriteFails
    <3>1. hook' \in HookStates
      BY <2>30, First DEF TypeOK, HookWriteFails, HookStates, HookPcs
    <3> QED
      BY <2>30, <3>1 DEF TypeOK, HookWriteFails
  <2>31. CASE HookReadback
    <3>1. hook' \in HookStates
      BY <2>31, First DEF TypeOK, HookReadback, HookStates, HookPcs
    <3> QED
      BY <2>31, <3>1 DEF TypeOK, HookReadback, HookStates
  <2>32. CASE HookUndo
    <3>1. hook' \in HookStates
      BY <2>32, First, NextChunk DEF TypeOK, HookUndo, HookStates, HookPcs
    <3>2. boot' \in Contents
      BY <2>32 DEF TypeOK, HookUndo, HookStates, Contents
    <3> QED
      BY <2>32, <3>1, <3>2 DEF TypeOK, HookUndo
  <2>33. CASE HookUndoEnds
    <3>1. hook' \in HookStates
      BY <2>33 DEF TypeOK, HookUndoEnds, HookStates, HookPcs
    <3> QED
      BY <2>33, <3>1 DEF TypeOK, HookUndoEnds, HookStates
  <2>34. CASE HookReport
    <3>1. hook' \in HookStates
      BY <2>34 DEF TypeOK, HookReport, HookStates, HookPcs
    <3> QED
      BY <2>34, <3>1 DEF TypeOK, HookReport, HookStates
  <2>35. CASE PacmanUnpacks
    BY <2>35 DEF TypeOK, PacmanUnpacks, PacmanPcs, UpdaterStates
  <2>36. CASE UNCHANGED vars
    BY <2>36 DEF vars, TypeOK
  <2> QED
    BY <2>1, <2>2, <2>3, <2>4, <2>5, <2>6, <2>7, <2>8, <2>9, <2>10, <2>11,
       <2>12, <2>13, <2>14, <2>15, <2>16, <2>17, <2>18, <2>19, <2>20, <2>21,
       <2>22, <2>23, <2>24, <2>25, <2>26, <2>27, <2>28, <2>29, <2>30, <2>31,
       <2>32, <2>33, <2>34, <2>35, <2>36 DEF Next, Updater, Pacman, Hook
<1> QED
  BY <1>1, <1>2, PTL DEF Spec
-----------------------------------------------------------------------------
\* The parts of IInv, with the types of both states at hand.
LEMMA InductiveStep ==
  ASSUME ~HookSurvives, IInv, TypeOK', [Next]_vars
  PROVE  IInv'
<1> USE DEF IInv, Nesting, RestPart, StartPart, BackupPart, ModulesPart,
        CommittedPart, LivePart, RestoredPart, RestorePcs, PersistPcs, Bootable, Preflight
<1> USE DEF TypeOK, UpdaterStates, HookStates, device, history, hookOthers,
        TreeStates, Unfinished, Packaged
  <1>1. CASE Publish
    BY <1>1 DEF Publish
  <1>2. CASE PowerCycle
    <2>1. upd'.pc = "idle" /\ hook'.pc = "idle" /\ pacman' = "none" /\ outcome' = "powerLost"
      BY <1>2 DEF PowerCycle, IdleUpdater, IdleHook
    <2>2. ASSUME ~damaged' PROVE RestPart'
      <3>1. PICK r \in Releases : boot = Image(r) /\ modules[r] = "complete"
        BY <1>2, <2>2 DEF PowerCycle, AtRest
      <3>2. running' = r
        BY <1>2, <3>1, HeldImage DEF PowerCycle
      <3> QED
        BY <1>2, <3>1, <3>2 DEF PowerCycle
    <2> QED
      BY <2>1, <2>2
  <1>3. CASE Start
    BY <1>3 DEF Start
  <1>4. CASE Interrupt
    BY <1>4 DEF Interrupt
  <1>5. CASE Backup
    BY <1>5 DEF Backup
  <1>6. CASE BackupFails
    BY <1>6 DEF BackupFails
  <1>7. CASE Verify
    <2>1. CASE Verified
      BY <1>7, <2>1 DEF Verify, Verified, Packages
    <2>2. CASE ~Verified
      BY <1>7, <2>2 DEF Verify
    <2> QED
      BY <2>1, <2>2
  <1>8. CASE RestoreUntar
    BY <1>8 DEF RestoreUntar
  <1>9. CASE RestoreModules
    <2>1. PICK t \in {upd.tree, "complete", "partial"} :
            /\ upd.tree = "complete" => t = "complete"
            /\ modules' = [modules EXCEPT ![upd.from] = t]
      BY <1>9 DEF RestoreModules
    <2>2. modules'[upd.from] = t
      BY <2>1
    <2> QED
      BY <1>9, <2>1, <2>2 DEF RestoreModules
  <1>10. CASE RestoreUnlock
    BY <1>10 DEF RestoreUnlock
  <1>11. CASE RestoreWrite
    BY <1>11 DEF RestoreWrite
  <1>12. CASE RestoreDone
    BY <1>12 DEF RestoreDone
  <1>13. CASE RestoreFails
    BY <1>13 DEF RestoreFails
  <1>14. CASE PersistConf
    BY <1>14 DEF PersistConf
  <1>15. CASE PersistTag
    <2>1. Bootable(upd.target) /\ pkg["kernel"] = upd.target
      BY <1>15 DEF PersistTag, Packages
    <2> QED
      BY <1>15, <2>1 DEF PersistTag
  <1>16. CASE PersistFails
    <2>1. Bootable(upd.target) /\ pkg["kernel"] = upd.target
      BY <1>16 DEF PersistFails, Packages
    <2> QED
      BY <1>16, <2>1 DEF PersistFails
  <1>17. CASE PacmanBackupHook
    BY <1>17 DEF PacmanBackupHook
  <1>18. CASE PacmanRemoves
    BY <1>18 DEF PacmanRemoves
  <1>19. CASE PacmanInstalls
    BY <1>19 DEF PacmanInstalls
  <1>20. CASE PacmanInstallsCompanion
    BY <1>20 DEF PacmanInstallsCompanion
  <1>21. CASE PacmanFails
    BY <1>21 DEF PacmanFails
  <1>22. CASE PacmanRunsHook
    BY <1>22 DEF PacmanRunsHook
  <1>23. CASE PacmanEnds
    BY <1>23 DEF PacmanEnds
  <1>24. CASE HookGivesUp
    BY <1>24 DEF HookGivesUp
  <1>25. CASE HookBuild
    BY <1>25 DEF HookBuild
  <1>26. CASE HookDigest
    BY <1>26 DEF HookDigest
  <1>27. CASE HookCopy
    BY <1>27 DEF HookCopy
  <1>28. CASE HookUnlock
    BY <1>28 DEF HookUnlock
  <1>29. CASE HookWrite
    BY <1>29 DEF HookWrite
  <1>30. CASE HookWriteFails
    BY <1>30 DEF HookWriteFails
  <1>31. CASE HookReadback
    BY <1>31 DEF HookReadback
  <1>32. CASE HookUndo
    BY <1>32 DEF HookUndo
  <1>33. CASE HookUndoEnds
    BY <1>33 DEF HookUndoEnds
  <1>34. CASE HookReport
    BY <1>34 DEF HookReport
  <1>35. CASE PacmanUnpacks
    BY <1>35 DEF PacmanUnpacks
  <1>36. CASE UNCHANGED vars
    BY <1>36 DEF vars
  <1> QED
    BY <1>1, <1>2, <1>3, <1>4, <1>5, <1>6, <1>7, <1>8, <1>9, <1>10, <1>11,
       <1>12, <1>13, <1>14, <1>15, <1>16, <1>17, <1>18, <1>19, <1>20, <1>21,
       <1>22, <1>23, <1>24, <1>25, <1>26, <1>27, <1>28, <1>29, <1>30, <1>31,
       <1>32, <1>33, <1>34, <1>35, <1>36 DEF Next, Updater, Pacman, Hook

\* IInv holds in every state, and with it what it implies.
THEOREM Invariance == ~HookSurvives => (Spec => []IInv)
<1> SUFFICES ASSUME ~HookSurvives PROVE Spec => []IInv
  OBVIOUS
<1>1. Init /\ TypeOK => IInv
  BY First, HeldImage DEF Init, IInv, Nesting, RestPart, StartPart, BackupPart,
     ModulesPart, CommittedPart, LivePart, RestoredPart, RestorePcs, PersistPcs, Bootable,
     Preflight, IdleUpdater, IdleHook
<1>2. IInv /\ TypeOK' /\ [Next]_vars => IInv'
  BY InductiveStep
<1> QED
  BY <1>1, <1>2, TypeCorrect, PTL DEF Spec

\* After an update that reports a rollback, boot_a is the backup taken before
\* it and the old module tree is at least what it was at that backup: whole, if
\* no earlier rollback failed and no power was lost in an earlier update.
THEOREM RollbackRestores == ~HookSurvives => (Spec => []RestoredMeansPrevious)
<1>1. IInv => RestoredMeansPrevious
  BY DEF IInv, RestoredPart, RestoredMeansPrevious
<1> QED
  BY <1>1, Invariance, PTL

\* A device on which no update is running boots a complete image with a
\* complete module tree, whatever failed, as long as no rollback did.
THEOREM DeviceBootable == ~HookSurvives => (Spec => []BootableAtRest)
<1>1. IInv => BootableAtRest
  BY DEF IInv, RestPart, Bootable, BootableAtRest, AtRest
<1> QED
  BY <1>1, Invariance, PTL

\* installed-release is only ever written for a set that is live as a whole.
THEOREM RecordsLive == ~HookSurvives => (Spec => RecordsOnlyLiveSets)
<1>1. IInv /\ [Next]_vars => [LiveWhenRecorded]_vars
  <2> SUFFICES ASSUME IInv, [Next]_vars, recorded' # recorded
               PROVE  LiveWhenRecorded
    BY DEF LiveWhenRecorded
  <2>1. PersistTag
    BY DEF Next, Updater, Pacman, Hook, vars, device, history, hookOthers,
       Publish, PowerCycle, Start, Interrupt, Backup, BackupFails, Verify,
       RestoreUntar, RestoreModules, RestoreUnlock, RestoreWrite, RestoreDone,
       RestoreFails, PersistConf, PersistFails, PacmanBackupHook,
       PacmanRemoves, PacmanUnpacks, PacmanInstalls, PacmanInstallsCompanion, PacmanFails,
       PacmanRunsHook, PacmanEnds, HookGivesUp, HookBuild, HookDigest,
       HookCopy, HookUnlock, HookWrite, HookWriteFails, HookReadback, HookUndo,
       HookUndoEnds, HookReport
  <2> QED
    BY <2>1 DEF PersistTag, IInv, Nesting, LivePart, PersistPcs, Bootable,
            LiveWhenRecorded
<1> QED
  BY <1>1, Invariance, PTL DEF Spec, RecordsOnlyLiveSets
-----------------------------------------------------------------------------
(* Write protection.                                                       *)

HookOpenPcs == {"write", "readback", "undo", "undoCheck"}
RestoreOpenPcs == {"write", "readback"}

\* Who takes the protection off remembers that it was on, and until then and
\* afterwards it is on.
FlagPart ==
  ~leftOpen =>
    /\ hook.pc \in HookOpenPcs => hook.flag
    /\ upd.pc \in RestoreOpenPcs => upd.flag
    /\ hook.pc \notin HookOpenPcs /\ upd.pc \notin RestoreOpenPcs => ro

LEMMA FlagStep ==
  ASSUME ~HookSurvives, IInv, FlagPart, [Next]_vars
  PROVE  FlagPart'
<1> USE DEF FlagPart, HookOpenPcs, RestoreOpenPcs, device, history, hookOthers
<1>0. TypeOK /\ Nesting
  BY DEF IInv
<1> USE <1>0 DEF TypeOK, Nesting, UpdaterStates, HookStates
<1>1. CASE Publish
  BY <1>1 DEF Publish
<1>2. CASE PowerCycle
  BY <1>2 DEF PowerCycle, IdleUpdater, IdleHook
<1>3. CASE Start
  BY <1>3 DEF Start
<1>4. CASE Interrupt
  BY <1>4 DEF Interrupt
<1>5. CASE Backup \/ BackupFails
  BY <1>5 DEF Backup, BackupFails
<1>6. CASE Verify
  BY <1>6 DEF Verify
<1>7. CASE RestoreUntar \/ RestoreModules
  BY <1>7 DEF RestoreUntar, RestoreModules
<1>8. CASE RestoreUnlock
  BY <1>8 DEF RestoreUnlock
<1>9. CASE RestoreWrite
  BY <1>9 DEF RestoreWrite
<1>10. CASE RestoreDone
  BY <1>10 DEF RestoreDone
<1>11. CASE RestoreFails
  BY <1>11 DEF RestoreFails
<1>12. CASE PersistConf \/ PersistTag \/ PersistFails
  BY <1>12 DEF PersistConf, PersistTag, PersistFails
<1>13. CASE Pacman
  BY <1>13 DEF Pacman, PacmanBackupHook, PacmanRemoves, PacmanUnpacks,
     PacmanInstalls, PacmanInstallsCompanion, PacmanFails, PacmanRunsHook, PacmanEnds
<1>14. CASE HookGivesUp \/ HookBuild \/ HookDigest \/ HookCopy \/ HookReport
  BY <1>14 DEF HookGivesUp, HookBuild, HookDigest, HookCopy, HookReport
<1>15. CASE HookUnlock
  BY <1>15 DEF HookUnlock
<1>16. CASE HookWrite \/ HookWriteFails \/ HookUndo
  BY <1>16 DEF HookWrite, HookWriteFails, HookUndo
<1>17. CASE HookReadback
  BY <1>17 DEF HookReadback
<1>18. CASE HookUndoEnds
  BY <1>18 DEF HookUndoEnds
<1>19. CASE UNCHANGED vars
  BY <1>19 DEF vars
<1> QED
  BY <1>1, <1>2, <1>3, <1>4, <1>5, <1>6, <1>7, <1>8, <1>9, <1>10, <1>11, <1>12,
     <1>13, <1>14, <1>15, <1>16, <1>17, <1>18, <1>19 DEF Next, Updater, Hook

\* At rest boot_a is write-protected, unless a hook was killed while it had the
\* protection off.
THEOREM RestProtected == ~HookSurvives => (Spec => []ProtectedAtRest)
<1> SUFFICES ASSUME ~HookSurvives PROVE Spec => []ProtectedAtRest
  OBVIOUS
<1>1. Init => FlagPart
  BY DEF Init, FlagPart, IdleUpdater, IdleHook, HookOpenPcs, RestoreOpenPcs
<1>2. IInv /\ FlagPart /\ [Next]_vars => FlagPart'
  BY FlagStep
<1>3. FlagPart => ProtectedAtRest
  BY DEF FlagPart, ProtectedAtRest, AtRest, HookOpenPcs, RestoreOpenPcs
<1> QED
  BY <1>1, <1>2, <1>3, Invariance, PTL DEF Spec
-----------------------------------------------------------------------------
(* The contract.  While an update runs the slot that counts is the backup, *)
(* which only the step that takes it may change.                           *)

phaseBar  == IF upd.pc = "idle" THEN "idle" ELSE "updating"
activeBar == Held(IF upd.pc \in {"idle", "backup"} THEN boot ELSE upd.copy)

LEMMA ContractStep ==
  ASSUME IInv, IInv', [Next]_vars
  PROVE  [Contract!Next]_Contract!vars
<1> USE DEF device, history, hookOthers, phaseBar, activeBar
<1>0. TypeOK /\ Nesting /\ TypeOK'
  BY DEF IInv
<1> USE <1>0 DEF TypeOK, Nesting, UpdaterStates, HookStates
<1> DEFINE Same == UNCHANGED <<phaseBar, activeBar, recorded, outcome>>
<1>a. Same => [Contract!Next]_Contract!vars
  BY DEF Contract!vars
<1>b. activeBar' \in Releases \union {NoRelease}
  BY HeldType
<1>1. CASE PowerCycle
  <2>1. phaseBar' = "idle" /\ outcome' = "powerLost" /\ recorded' = recorded
    BY <1>1 DEF PowerCycle, IdleUpdater
  <2>2. phaseBar = "idle" => activeBar' = activeBar
    BY <1>1 DEF PowerCycle, IdleUpdater
  <2>3. Contract!LosePower
    BY <2>1, <2>2, <1>b DEF Contract!LosePower
  <2> QED
    BY <2>3 DEF Contract!Next
<1>2. CASE Start
  <2>1. Contract!Begin
    BY <1>2 DEF Start, Contract!Begin
  <2> QED
    BY <2>1 DEF Contract!Next
<1>3. CASE BackupFails
  <2>1. Contract!KeepOld
    BY <1>3 DEF BackupFails, Contract!KeepOld
  <2> QED
    BY <2>1 DEF Contract!Next
<1>4. CASE RestoreDone
  <2>1. Contract!KeepOld
    BY <1>4 DEF RestoreDone, Contract!KeepOld
  <2> QED
    BY <2>1 DEF Contract!Next
<1>5. CASE RestoreFails
  <2>1. Contract!LoseSlot
    BY <1>5, <1>b DEF RestoreFails, Contract!LoseSlot
  <2> QED
    BY <2>1 DEF Contract!Next
<1>6. CASE PersistTag
  <2>1. boot = Image(upd.target) /\ upd.target \in Releases
    BY <1>6 DEF PersistTag, IInv, LivePart, PersistPcs, Bootable
  <2>2. activeBar' = upd.target
    BY <1>6, <2>1, HeldImage DEF PersistTag
  <2>3. Contract!Install
    BY <1>6, <2>1, <2>2 DEF PersistTag, Contract!Install
  <2> QED
    BY <2>3 DEF Contract!Next
<1>7. CASE PersistFails
  <2>1. boot = Image(upd.target) /\ upd.target \in Releases
    BY <1>7 DEF PersistFails, IInv, LivePart, PersistPcs, Bootable
  <2>2. activeBar' = upd.target
    BY <1>7, <2>1, HeldImage DEF PersistFails
  <2>3. Contract!StandUnrecorded
    BY <1>7, <2>1, <2>2 DEF PersistFails, Contract!StandUnrecorded
  <2> QED
    BY <2>3 DEF Contract!Next
<1>8. CASE Publish \/ Interrupt \/ Backup \/ PersistConf
  <2>1. Same
    BY <1>8 DEF Publish, Interrupt, Backup, PersistConf
  <2> QED
    BY <2>1, <1>a
<1>9. CASE Verify \/ RestoreUntar \/ RestoreModules \/ RestoreUnlock \/ RestoreWrite
  <2>1. Same
    BY <1>9 DEF Verify, RestoreUntar, RestoreModules, RestoreUnlock, RestoreWrite
  <2> QED
    BY <2>1, <1>a
<1>10. CASE Pacman
  <2>1. Same
    BY <1>10 DEF Pacman, PacmanBackupHook, PacmanRemoves, PacmanUnpacks, PacmanInstalls,
       PacmanInstallsCompanion, PacmanFails, PacmanRunsHook, PacmanEnds
  <2> QED
    BY <2>1, <1>a
<1>11. CASE Hook
  <2>1. upd.pc = "pacman" /\ UNCHANGED <<upd, recorded, outcome>>
    BY <1>11 DEF Hook, HookGivesUp, HookBuild, HookDigest, HookCopy, HookUnlock,
       HookWrite, HookWriteFails, HookReadback, HookUndo, HookUndoEnds, HookReport
  <2>2. Same
    BY <2>1
  <2> QED
    BY <2>2, <1>a
<1>12. CASE UNCHANGED vars
  <2>1. Same
    BY <1>12 DEF vars
  <2> QED
    BY <2>1, <1>a
<1> QED
  BY <1>1, <1>2, <1>3, <1>4, <1>5, <1>6, <1>7, <1>8, <1>9, <1>10, <1>11, <1>12
     DEF Next, Updater

\* The updater, pacman and the hook together keep the promise of UpdateContract:
\* an update is all or nothing for the boot slot, unless a rollback fails or
\* power is lost.
THEOREM ContractKept == ~HookSurvives => (Spec => ImplementsContract)
<1> SUFFICES ASSUME ~HookSurvives PROVE Spec => ImplementsContract
  OBVIOUS
<1>1. Init => Contract!Init
  BY First, HeldImage DEF Init, IdleUpdater, Contract!Init
<1>2. IInv /\ IInv' /\ [Next]_vars => [Contract!Next]_Contract!vars
  BY ContractStep
<1> QED
  BY <1>1, <1>2, Invariance, PTL DEF Spec, ImplementsContract, Contract!Spec
=============================================================================
