---------------------------- MODULE KernelUpdate ----------------------------
(***************************************************************************)
(* One coordinated kernel update: the privileged updater                   *)
(* (tb322fc-update-v2.py), the pacman transaction it runs, and the         *)
(* post-transaction hook (freedom-kernel-update --hook) that writes the    *)
(* signed boot image to the raw boot_a partition.                          *)
(*                                                                         *)
(* Simplifications.  An image is identified with the kernel release it     *)
(* was built for, and so is a module tree, of which the model keeps how    *)
(* much is there: nothing, some files without the pkgbase file that        *)
(* preflight() reads, pkgbase with other files missing, or everything.     *)
(* Unpacking over a complete tree leaves it complete.  The four packages   *)
(* of a release                                                            *)
(* are the kernel and one companion (headers, ALS DKMS and kShim are       *)
(* committed after it, alike).  boot_a is a row of chunks written in       *)
(* order, as the 4 MiB write loops do.  What happens before the backup is  *)
(* taken (query, download, checksums) changes nothing the model keeps and  *)
(* is part of Start, which may decline.  The update.lock that serialises   *)
(* two hooks is modelled by letting a hook begin only when no other runs.  *)
(***************************************************************************)
EXTENDS Integers, FiniteSets

CONSTANTS
  MaxRelease,    \* releases are numbered 1 .. MaxRelease in order of publication
  NChunks,       \* write granularity of boot_a
  HookSurvives   \* TRUE: a SIGTERM reaches the updater alone and the hook lives on
                 \* FALSE: it reaches the whole control group, hook included

ASSUME ConstantsAssumption ==
  /\ MaxRelease \in Nat \ {0}
  /\ NChunks \in Nat \ {0}
  /\ HookSurvives \in BOOLEAN

Releases  == 1 .. MaxRelease
NoRelease == 0
Chunks    == 1 .. NChunks
Contents  == [Chunks -> Releases]      \* what boot_a or a copy of it may hold
Packages  == {"kernel", "companion"}

\* A module tree: missing, without its pkgbase, with it but not whole, whole.
TreeStates == {"absent", "bare", "partial", "complete"}
Unfinished == {"bare", "partial"}      \* while files come or go
Packaged   == {"partial", "complete"}  \* pkgbase can be read

\* The image of release r, complete.
Image(r) == [c \in Chunks |-> r]

\* The release whose complete image b holds; NoRelease when b is torn.
Held(b) == IF \E r \in Releases : b = Image(r) THEN b[1] ELSE NoRelease

VARIABLES
  published,   \* newest release with a complete manifest on the API
  running,     \* os.uname().release; NoRelease once the device cannot boot
  boot,        \* contents of boot_a
  ro,          \* read-only flag of boot_a and its disk (set by the initramfs)
  modules,     \* state of /usr/lib/modules/<release>
  pkg,         \* package versions in pacman's database
  report,      \* latest.json: the last boot image the hook reports as deployed
  fresh,       \* latest.json differs from the bytes the updater remembered
  recorded,    \* installed-release
  upd,         \* the updater process
  pacman,      \* the pacman child process
  hook,        \* the freedom-kernel-update child process
  outcome,     \* history: how the last update ended
  damaged,     \* history: a rollback failed or power was lost mid-update
               \* since the last verified deployment
  leftOpen     \* history: a hook was killed while boot_a was writable

device  == <<boot, ro, modules, pkg>>
history == <<outcome, damaged, leftOpen>>
vars == <<published, running, boot, ro, modules, pkg, report, fresh, recorded,
          upd, pacman, hook, outcome, damaged, leftOpen>>

UpdaterPcs == {"idle", "backup", "pacman", "untar", "extract", "unlock",
               "write", "readback", "persistConf", "persistTag"}
PacmanPcs  == {"none", "backupHook", "remove", "unpack", "install", "companion",
               "postHooks", "wait", "ok", "failed"}
HookPcs    == {"idle", "build", "digest", "copy", "unlock", "write",
               "readback", "undo", "undoCheck", "report"}
Outcomes   == {"none", "refused", "installed", "unrecorded", "restored",
               "restoreFailed", "powerLost"}

IdleUpdater == [pc |-> "idle", target |-> 1, from |-> 1, copy |-> Image(1),
                tree |-> "complete", flag |-> TRUE, pos |-> 1]
IdleHook    == [pc |-> "idle", release |-> 1, before |-> Image(1),
                copy |-> Image(1), flag |-> TRUE, pos |-> 1]

Init ==
  /\ published = 1
  /\ running = 1
  /\ boot = Image(1)
  /\ ro = TRUE
  /\ modules = [r \in Releases |-> IF r = 1 THEN "complete" ELSE "absent"]
  /\ pkg = [p \in Packages |-> 1]
  /\ report = 1
  /\ fresh = FALSE
  /\ recorded \in {NoRelease, 1}
  /\ upd = IdleUpdater
  /\ pacman = "none"
  /\ hook = IdleHook
  /\ outcome = "none"
  /\ damaged = FALSE
  /\ leftOpen = FALSE

\* No process that writes boot_a or the module trees is alive.
AtRest == upd.pc = "idle" /\ hook.pc = "idle"
-----------------------------------------------------------------------------
(* The environment: releases appear; power is lost.                        *)

Publish ==
  /\ published < MaxRelease
  /\ published' = published + 1
  /\ UNCHANGED <<running, boot, ro, modules, pkg, report, fresh, recorded,
                 upd, pacman, hook, history>>

\* A reboot at rest, or power lost in the middle: every process is gone, the
\* device boots what boot_a holds, and the initramfs write-protects it again.
PowerCycle ==
  /\ running # NoRelease
  /\ running' = Held(boot)
  /\ ro' = TRUE
  /\ upd' = IdleUpdater
  /\ pacman' = "none"
  /\ hook' = IdleHook
  /\ outcome' = "powerLost"
  /\ damaged' = (damaged \/ ~AtRest)
  /\ leftOpen' = FALSE
  /\ UNCHANGED <<published, boot, modules, pkg, report, fresh, recorded>>
-----------------------------------------------------------------------------
(* The updater, up to its pacman child.                                    *)

\* preflight(): the running kernel is the installed, packaged one.  Of its
\* module tree only pkgbase is read, so a tree that a failed restore or a power
\* loss left with files missing passes.
Preflight ==
  /\ running # NoRelease
  /\ pkg["kernel"] = running
  /\ modules[running] \in Packaged

\* main() and apply() up to the first write: the newest release is wanted and
\* all its packages are downloaded and verified.
Start ==
  /\ upd.pc = "idle"
  /\ Preflight
  /\ recorded # published
  /\ upd' = [upd EXCEPT !.pc = "backup", !.target = published, !.from = running]
  /\ outcome' = "none"
  /\ UNCHANGED <<published, running, device, report, fresh, recorded, pacman,
                 hook, damaged, leftOpen>>

\* backup(): boot_a and the running modules, whole or not, are copied, and the
\* bytes of the last report remembered; repo-add and the transaction's
\* pacman.conf follow.
Backup ==
  /\ upd.pc = "backup"
  /\ upd' = [upd EXCEPT !.pc = "pacman", !.copy = boot,
                        !.tree = modules[upd.from]]
  /\ fresh' = FALSE
  /\ pacman' = "backupHook"
  /\ UNCHANGED <<published, running, device, report, recorded, hook, history>>

\* Any failure before pacman starts: nothing was changed.
BackupFails ==
  /\ upd.pc = "backup"
  /\ upd' = [upd EXCEPT !.pc = "idle"]
  /\ outcome' = "refused"
  /\ UNCHANGED <<published, running, device, report, fresh, recorded, pacman,
                 hook, damaged, leftOpen>>
-----------------------------------------------------------------------------
(* pacman -Syu of the four packages, with its hooks.                       *)

\* The step of the transaction that changes nothing but pacman's own place in
\* it; the pre-transaction hook saves old boot bytes aside for manual rollback.
PacmanBackupHook ==
  /\ pacman = "backupHook"
  /\ hook.pc = "idle"              \* it takes update.lock
  /\ pacman' = "remove"
  /\ UNCHANGED <<published, running, device, report, fresh, recorded, upd,
                 hook, history>>

\* Committing the kernel package first deletes the old version's files ...
PacmanRemoves ==
  /\ pacman = "remove"
  /\ pacman' = "unpack"
  /\ \E t \in Unfinished : modules' = [modules EXCEPT ![pkg["kernel"]] = t]
  /\ UNCHANGED <<published, running, boot, ro, pkg, report, fresh, recorded,
                 upd, hook, history>>

\* ... then unpacks the new version's.
PacmanUnpacks ==
  /\ pacman = "unpack"
  /\ pacman' = "install"
  /\ \E t \in Unfinished :
       modules' = [modules EXCEPT ![pkg["kernel"]] = "absent", ![upd.target] = t]
  /\ UNCHANGED <<published, running, boot, ro, pkg, report, fresh, recorded,
                 upd, hook, history>>

PacmanInstalls ==
  /\ pacman = "install"
  /\ pacman' = "companion"
  /\ modules' = [modules EXCEPT ![upd.target] = "complete"]
  /\ pkg' = [pkg EXCEPT !["kernel"] = upd.target]
  /\ UNCHANGED <<published, running, boot, ro, report, fresh, recorded, upd,
                 hook, history>>

PacmanInstallsCompanion ==
  /\ pacman = "companion"
  /\ pacman' = "postHooks"
  /\ pkg' = [pkg EXCEPT !["companion"] = upd.target]
  /\ UNCHANGED <<published, running, boot, ro, modules, report, fresh,
                 recorded, upd, hook, history>>

\* The transaction aborts where it stands (a failed pre-transaction hook, a
\* full disk, a file conflict); what was committed stays.
PacmanFails ==
  /\ pacman \in {"backupHook", "remove", "unpack", "install", "companion"}
  /\ pacman' = "failed"
  /\ UNCHANGED <<published, running, device, report, fresh, recorded, upd,
                 hook, history>>

PacmanRunsHook ==
  /\ pacman = "postHooks"
  /\ hook.pc = "idle"              \* update.lock: one deployment at a time
  /\ pacman' = "wait"
  /\ hook' = [hook EXCEPT !.pc = "build", !.release = upd.target]
  /\ UNCHANGED <<published, running, device, report, fresh, recorded, upd,
                 history>>

\* Faulty variant: pacman waits for a hook that succeeded.
PacmanEndsOnSuccess ==
  /\ pacman = "wait"
  /\ hook.pc = "idle"
  /\ fresh
  /\ pacman' = "ok"
  /\ UNCHANGED <<published, running, device, report, fresh, recorded, upd,
                 hook, history>>

\* A failed post-transaction hook does not fail the transaction.
PacmanEnds ==
  /\ pacman = "wait"
  /\ hook.pc = "idle"
  /\ pacman' = "ok"
  /\ UNCHANGED <<published, running, device, report, fresh, recorded, upd,
                 hook, history>>
-----------------------------------------------------------------------------
(* freedom-kernel-update --hook: build, back up, write, read back, report. *)

hookOthers == <<published, running, modules, pkg, recorded, upd, pacman, history>>

\* A hook that exits without touching boot_a or the report (required module
\* missing, failed build or signature, failed backup).
HookGivesUp ==
  /\ hook.pc \in {"build", "digest", "copy", "unlock", "report"}
  /\ hook' = [hook EXCEPT !.pc = "idle"]
  /\ UNCHANGED <<hookOthers, boot, ro, report, fresh>>

HookBuild ==
  /\ hook.pc = "build"
  /\ modules[hook.release] = "complete"
  /\ hook' = [hook EXCEPT !.pc = "digest"]
  /\ UNCHANGED <<hookOthers, boot, ro, report, fresh>>

HookDigest ==
  /\ hook.pc = "digest"
  /\ hook' = [hook EXCEPT !.pc = "copy", !.before = boot]
  /\ UNCHANGED <<hookOthers, boot, ro, report, fresh>>

\* The copy must have the digest taken before it.
HookCopy ==
  /\ hook.pc = "copy"
  /\ hook' = [hook EXCEPT !.pc = IF boot = hook.before THEN "unlock" ELSE "idle",
                          !.copy = boot]
  /\ UNCHANGED <<hookOthers, boot, ro, report, fresh>>

HookUnlock ==
  /\ hook.pc = "unlock"
  /\ hook' = [hook EXCEPT !.pc = "write", !.flag = ro, !.pos = 1]
  /\ ro' = FALSE
  /\ UNCHANGED <<hookOthers, boot, report, fresh>>

\* Faulty variant: the position is not reset for the loop that follows.
HookWriteNoReset ==
  /\ hook.pc = "write"
  /\ ~ro
  /\ boot' = [boot EXCEPT ![hook.pos] = hook.release]
  /\ hook' = [hook EXCEPT !.pc = IF hook.pos = NChunks THEN "readback" ELSE "write",
                          !.pos = @ + 1]
  /\ UNCHANGED <<hookOthers, ro, report, fresh>>

\* One chunk of `write(image)'; after the last one comes the readback.
HookWrite ==
  /\ hook.pc = "write"
  /\ ~ro
  /\ boot' = [boot EXCEPT ![hook.pos] = hook.release]
  /\ hook' = [hook EXCEPT !.pc = IF hook.pos = NChunks THEN "readback" ELSE "write",
                          !.pos = IF @ = NChunks THEN 1 ELSE @ + 1]
  /\ UNCHANGED <<hookOthers, ro, report, fresh>>

HookWriteFails ==
  /\ hook.pc = "write"
  /\ hook' = [hook EXCEPT !.pc = "undo", !.pos = 1]
  /\ UNCHANGED <<hookOthers, boot, ro, report, fresh>>

\* Readback: on a match the finally clause restores the flag, otherwise the
\* backup is written back first.
HookReadback ==
  /\ hook.pc = "readback"
  /\ \/ /\ boot = Image(hook.release)
        /\ hook' = [hook EXCEPT !.pc = "report"]
        /\ ro' = hook.flag
     \/ /\ boot # Image(hook.release)
        /\ hook' = [hook EXCEPT !.pc = "undo", !.pos = 1]
        /\ UNCHANGED ro
  /\ UNCHANGED <<hookOthers, boot, report, fresh>>

HookUndo ==
  /\ hook.pc = "undo"
  /\ ~ro
  /\ boot' = [boot EXCEPT ![hook.pos] = hook.copy[hook.pos]]
  /\ hook' = [hook EXCEPT !.pc = IF hook.pos = NChunks THEN "undoCheck" ELSE "undo",
                          !.pos = IF @ = NChunks THEN 1 ELSE @ + 1]
  /\ UNCHANGED <<hookOthers, ro, report, fresh>>

\* Faulty variant: the flag is restored on success only, not in a finally.
HookUndoEndsOpen ==
  /\ hook.pc \in {"undo", "undoCheck"}
  /\ hook' = [hook EXCEPT !.pc = "idle"]
  /\ UNCHANGED <<hookOthers, boot, ro, report, fresh>>

\* The rollback ends, by its readback or by an error of its own: either way
\* the flag is restored and the exception goes on to end the hook.
HookUndoEnds ==
  /\ hook.pc \in {"undo", "undoCheck"}
  /\ hook' = [hook EXCEPT !.pc = "idle"]
  /\ ro' = hook.flag
  /\ UNCHANGED <<hookOthers, boot, report, fresh>>

\* latest.json is replaced only after a verified deployment.
HookReport ==
  /\ hook.pc = "report"
  /\ hook' = [hook EXCEPT !.pc = "idle"]
  /\ report' = hook.release
  /\ fresh' = TRUE
  /\ UNCHANGED <<hookOthers, boot, ro>>
-----------------------------------------------------------------------------
(* The updater again: verify and record, or restore.                       *)

\* Faulty variant: pacman's exit status is taken for a successful deployment.
VerifiedByExitStatus == pacman = "ok"

\* verify_deployment() and the version loop: a fresh report of a deployment of
\* the wanted release, whose image boot_a holds, and every package's version.
\* Of the module tree only build-manifest.json is read.
Verified ==
  /\ pacman = "ok"
  /\ fresh
  /\ report = upd.target
  /\ boot = Image(report)
  /\ modules[upd.target] # "absent"
  /\ \A p \in Packages : pkg[p] = upd.target

Verify ==
  /\ upd.pc = "pacman"
  /\ pacman \in {"ok", "failed"}
  /\ pacman' = "none"
  /\ upd' = [upd EXCEPT !.pc = IF Verified THEN "persistConf" ELSE "untar"]
  /\ UNCHANGED <<published, running, device, report, fresh, recorded, hook,
                 history>>

\* Faulty variant: only the boot bytes are restored, not the module tree.
RestoreUntarSkipped ==
  /\ upd.pc = "untar"
  /\ upd' = [upd EXCEPT !.pc = "unlock"]
  /\ UNCHANGED <<published, running, device, report, fresh, recorded, pacman,
                 hook, history>>

\* restore(): tar starts to extract the old module tree ...
RestoreUntar ==
  /\ upd.pc = "untar"
  /\ upd' = [upd EXCEPT !.pc = "extract"]
  /\ \E t \in IF modules[upd.from] = "complete" THEN {"complete"} ELSE Unfinished :
       modules' = [modules EXCEPT ![upd.from] = t]
  /\ UNCHANGED <<published, running, boot, ro, pkg, report, fresh, recorded,
                 pacman, hook, history>>

\* ... and finishes; depmod runs.  Files that the copy lacks may or may not be
\* in the tree it is extracted over.
RestoreModules ==
  /\ upd.pc = "extract"
  /\ upd' = [upd EXCEPT !.pc = "unlock"]
  /\ \E t \in IF "complete" \in {upd.tree, modules[upd.from]} THEN {"complete"}
              ELSE Packaged :
       modules' = [modules EXCEPT ![upd.from] = t]
  /\ UNCHANGED <<published, running, boot, ro, pkg, report, fresh, recorded,
                 pacman, hook, history>>

RestoreUnlock ==
  /\ upd.pc = "unlock"
  /\ upd' = [upd EXCEPT !.pc = "write", !.flag = ro, !.pos = 1]
  /\ ro' = FALSE
  /\ UNCHANGED <<published, running, boot, modules, pkg, report, fresh,
                 recorded, pacman, hook, history>>

RestoreWrite ==
  /\ upd.pc = "write"
  /\ ~ro
  /\ boot' = [boot EXCEPT ![upd.pos] = upd.copy[upd.pos]]
  /\ upd' = [upd EXCEPT !.pc = IF upd.pos = NChunks THEN "readback" ELSE "write",
                        !.pos = IF @ = NChunks THEN 1 ELSE @ + 1]
  /\ UNCHANGED <<published, running, ro, modules, pkg, report, fresh, recorded,
                 pacman, hook, history>>

\* The readback matches the backup: the flags go back, failed-restored is
\* written, and the updater exits with its error.
RestoreDone ==
  /\ upd.pc = "readback"
  /\ boot = upd.copy
  /\ upd' = [upd EXCEPT !.pc = "idle"]
  /\ ro' = upd.flag
  /\ outcome' = "restored"
  /\ UNCHANGED <<published, running, boot, modules, pkg, report, fresh,
                 recorded, pacman, hook, damaged, leftOpen>>

\* Faulty variant: failed-restored is touched even when the restore raised.
RestoreFailsMarked ==
  /\ upd.pc \in {"untar", "extract", "unlock", "write", "readback"}
  /\ upd' = [upd EXCEPT !.pc = "idle"]
  /\ ro' = IF upd.pc \in {"write", "readback"} THEN upd.flag ELSE ro
  /\ outcome' = "restored"
  /\ damaged' = TRUE
  /\ UNCHANGED <<published, running, boot, modules, pkg, report, fresh,
                 recorded, pacman, hook, leftOpen>>

\* restore() raises: an I/O error, a readback mismatch, or a second signal.
\* Inside its try block the finally clause still restores the flags.
RestoreFails ==
  /\ upd.pc \in {"untar", "extract", "unlock", "write", "readback"}
  /\ upd' = [upd EXCEPT !.pc = "idle"]
  /\ ro' = IF upd.pc \in {"write", "readback"} THEN upd.flag ELSE ro
  /\ outcome' = "restoreFailed"
  /\ damaged' = TRUE
  /\ UNCHANGED <<published, running, boot, modules, pkg, report, fresh,
                 recorded, pacman, hook, leftOpen>>

\* /etc/pacman.conf is switched to the v2 repository ...
PersistConf ==
  /\ upd.pc = "persistConf"
  /\ upd' = [upd EXCEPT !.pc = "persistTag"]
  /\ UNCHANGED <<published, running, device, report, fresh, recorded, pacman,
                 hook, history>>

\* ... and the release is recorded: the update is complete.
PersistTag ==
  /\ upd.pc = "persistTag"
  /\ upd' = [upd EXCEPT !.pc = "idle"]
  /\ recorded' = upd.target
  /\ outcome' = "installed"
  /\ damaged' = FALSE
  /\ UNCHANGED <<published, running, device, report, fresh, pacman, hook,
                 leftOpen>>

\* A failed write, or a signal, after the deployment was verified: this is
\* outside the try block, and nothing is restored.
PersistFails ==
  /\ upd.pc \in {"persistConf", "persistTag"}
  /\ upd' = [upd EXCEPT !.pc = "idle"]
  /\ outcome' = "unrecorded"
  /\ damaged' = FALSE
  /\ UNCHANGED <<published, running, device, report, fresh, recorded, pacman,
                 hook, leftOpen>>

\* Faulty variant: SIGTERM is left to its default action, so nothing restores.
InterruptExits ==
  /\ upd.pc = "pacman"
  /\ pacman' = "none"
  /\ upd' = [upd EXCEPT !.pc = "idle"]
  /\ hook' = IF HookSurvives THEN hook ELSE [hook EXCEPT !.pc = "idle"]
  /\ leftOpen' = (leftOpen \/ (~HookSurvives /\ ~ro))
  /\ UNCHANGED <<published, running, device, report, fresh, recorded, outcome,
                 damaged>>

\* SIGTERM while pacman runs: InterruptedError makes subprocess.run kill pacman
\* (but not pacman's children), and the except clause restores.  The hook has
\* no handler: a SIGTERM of its own ends it on the spot, with no finally clause
\* run.  A surviving hook that is still building fails by itself, because the
\* signer prints into the pipe that pacman no longer reads.
Interrupt ==
  /\ upd.pc = "pacman"
  /\ pacman' = "none"
  /\ upd' = [upd EXCEPT !.pc = "untar"]
  /\ hook' = IF HookSurvives /\ hook.pc # "build" THEN hook
             ELSE [hook EXCEPT !.pc = "idle"]
  /\ leftOpen' = (leftOpen \/ (~HookSurvives /\ ~ro))
  /\ UNCHANGED <<published, running, device, report, fresh, recorded, outcome,
                 damaged>>
-----------------------------------------------------------------------------
Updater ==
  \/ Backup \/ BackupFails \/ Verify \/ RestoreUntar \/ RestoreModules
  \/ RestoreUnlock \/ RestoreWrite \/ RestoreDone \/ RestoreFails
  \/ PersistConf \/ PersistTag \/ PersistFails

Pacman ==
  \/ PacmanBackupHook \/ PacmanRemoves \/ PacmanUnpacks \/ PacmanInstalls
  \/ PacmanInstallsCompanion \/ PacmanFails \/ PacmanRunsHook \/ PacmanEnds

Hook ==
  \/ HookGivesUp \/ HookBuild \/ HookDigest \/ HookCopy \/ HookUnlock
  \/ HookWrite \/ HookWriteFails \/ HookReadback \/ HookUndo
  \/ HookUndoEnds \/ HookReport

Next == Publish \/ PowerCycle \/ Start \/ Interrupt \/ Updater \/ Pacman \/ Hook

\* Each process goes on as long as it can: the updater waits for pacman, pacman
\* for its hook, and none of them for anything else.
Fairness == WF_vars(Updater) /\ WF_vars(Pacman) /\ WF_vars(Hook)

Spec == Init /\ [][Next]_vars
FairSpec == Spec /\ Fairness
-----------------------------------------------------------------------------
UpdaterStates == [pc : UpdaterPcs, target : Releases, from : Releases,
                  copy : Contents, tree : TreeStates, flag : BOOLEAN, pos : Chunks]
HookStates    == [pc : HookPcs, release : Releases, before : Contents,
                  copy : Contents, flag : BOOLEAN, pos : Chunks]

TypeOK ==
  /\ published \in Releases
  /\ running \in Releases \union {NoRelease}
  /\ boot \in Contents
  /\ ro \in BOOLEAN
  /\ modules \in [Releases -> TreeStates]
  /\ pkg \in [Packages -> Releases]
  /\ report \in Releases
  /\ fresh \in BOOLEAN
  /\ recorded \in Releases \union {NoRelease}
  /\ upd \in UpdaterStates
  /\ pacman \in PacmanPcs
  /\ hook \in HookStates
  /\ outcome \in Outcomes
  /\ damaged \in BOOLEAN
  /\ leftOpen \in BOOLEAN

\* Unless a rollback itself failed or power was lost in the middle, a device on
\* which no update is running boots: boot_a holds one complete image and the
\* module tree of that kernel is complete.
BootableAtRest ==
  AtRest /\ ~damaged =>
    \E r \in Releases : boot = Image(r) /\ modules[r] = "complete"

\* "previous boot and modules restored": after an update that says so, boot_a
\* is the backup taken before it, and the old module tree is what it was at that
\* backup, or whole.  It is whole unless the device was damaged before: an
\* update may begin on a tree that an earlier failed restore or a power loss
\* left with files missing, copies it as it is, and puts that back.
RestoredMeansPrevious ==
  outcome = "restored" => /\ boot = upd.copy
                          /\ modules[upd.from] \in {upd.tree, "complete"}
                          /\ ~damaged => modules[upd.from] = "complete"

\* At rest boot_a is write-protected again, unless a hook was killed while it
\* had the protection off.
ProtectedAtRest == AtRest /\ ~leftOpen => ro

\* installed-release is written only for a set that is live as a whole: its
\* image in boot_a, its modules complete, all its packages installed.
LiveWhenRecorded ==
  recorded' # recorded =>
    /\ boot = Image(recorded')
    /\ modules[recorded'] = "complete"
    /\ \A p \in Packages : pkg[p] = recorded'
    /\ hook.pc = "idle"

RecordsOnlyLiveSets == [][LiveWhenRecorded]_vars

\* Every update that starts comes to an end.
UpdateEnds == upd.pc # "idle" ~> upd.pc = "idle"

\* The updater keeps its all-or-nothing promise about the boot slot.
Contract == INSTANCE UpdateContract WITH
  phase  <- IF upd.pc = "idle" THEN "idle" ELSE "updating",
  active <- Held(IF upd.pc \in {"idle", "backup"} THEN boot ELSE upd.copy)

ImplementsContract == Contract!Spec
=============================================================================
