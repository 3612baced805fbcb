----------------------------- MODULE AndroidBase -----------------------------
(***************************************************************************)
(* Replacing the Android boot image that every Linux boot image is built   *)
(* from (kshim-android-base-replace), while kernel-update hooks            *)
(* (freedom-kernel-update) want to build from it: the base file, its       *)
(* digest in config.json, the latest.json pointer, and update.lock.        *)
(*                                                                         *)
(* Simplifications.  An image is identified with its digest.  Each         *)
(* replacement has one input image; what else config.json holds stays the  *)
(* same.  atomic_copy() and os.replace() are single steps, which is what   *)
(* their rename makes them.  Where a build writes its candidate files does *)
(* not matter, only whether it replaces latest.json.                       *)
(***************************************************************************)
EXTENDS Naturals

CONSTANTS
  Replacers,  \* runs of kshim-android-base-replace
  Hooks,      \* runs of freedom-kernel-update under a lock of their own
  Images,     \* Android boot images
  First,      \* the image installed at the start
  Input,      \* replacer |-> the image it is given
  NoOne, NoImage

ASSUME BaseAssumption ==
  /\ First \in Images
  /\ Input \in [Replacers -> Images]
  /\ NoImage \notin Images
  /\ NoOne \notin Replacers \union Hooks
  /\ Replacers \intersect Hooks = {}

Procs == Replacers \union Hooks

VARIABLES
  stock,    \* the file config.stock_boot names
  config,   \* config.stock_boot_sha256
  latest,   \* the image latest.json's candidate was built from, or NoImage
  lock,     \* holder of update.lock
  pc,       \* process |-> where it is
  seen,     \* process |-> stock_boot_sha256 in the config it read at its start
  kept,     \* replacer |-> its copies of the base, the digest and latest.json
  fresh,    \* replacer |-> latest.json is not the one it found
  commit,   \* replacer |-> commit_started
  child,    \* replacer |-> its builder process runs
  status,   \* replacer |-> status in its result.json
  torn      \* history: a replacement was cut short, or failed to roll back,
            \* and none completed since

vars == <<stock, config, latest, lock, pc, seen, kept, fresh, commit, child,
          status, torn>>
local == <<seen, kept, fresh, commit, child>>

Committing == {"checkLatest", "commitStock", "commitConfig", "verify"}
RollingBack == {"restoreStock", "restoreConfig", "restoreLatest", "mark"}
ReplacerPcs == {"idle", "wait", "backup", "build", "dead"} \union Committing
                 \union RollingBack
HookPcs     == {"idle", "wait", "build"}
Statuses    == {"none", "prepared", "built", "completed", "restored"}

NothingKept == [stock |-> NoImage, config |-> NoImage, latest |-> NoImage]

Init ==
  /\ stock = First
  /\ config = First
  /\ latest \in {NoImage, First}
  /\ lock = NoOne
  /\ pc = [p \in Procs |-> "idle"]
  /\ seen = [p \in Procs |-> NoImage]
  /\ kept = [r \in Replacers |-> NothingKept]
  /\ fresh = [r \in Replacers |-> FALSE]
  /\ commit = [r \in Replacers |-> FALSE]
  /\ child = [r \in Replacers |-> FALSE]
  /\ status = [r \in Replacers |-> "none"]
  /\ torn = FALSE

Goto(p, where) == pc' = [pc EXCEPT ![p] = where]
Unlock == lock' = NoOne

\* A process exits: its variables are gone with it.
Forget(p) ==
  /\ seen' = [seen EXCEPT ![p] = NoImage]
  /\ kept' = [r \in Replacers |-> IF r = p THEN NothingKept ELSE kept[r]]
  /\ fresh' = [r \in Replacers |-> r # p /\ fresh[r]]
  /\ commit' = [r \in Replacers |-> r # p /\ commit[r]]
Exit(p) == Goto(p, "idle") /\ Forget(p)
-----------------------------------------------------------------------------
(* kshim-android-base-replace, up to the build.                            *)

\* The first reading of the configuration, without the lock.
Begin(r) ==
  /\ pc[r] = "idle"
  /\ stock = config              \* else: "restore it first"
  /\ Goto(r, "wait")
  /\ seen' = [seen EXCEPT ![r] = config]
  /\ status' = [status EXCEPT ![r] = "none"]
  /\ UNCHANGED <<stock, config, latest, lock, kept, fresh, commit, child, torn>>

\* Faulty variant: the lock is not waited for.
LockTaken(r) ==
  /\ pc[r] = "wait"
  /\ IF config = seen[r] /\ stock = seen[r]
     THEN Goto(r, "backup") /\ lock' = r /\ UNCHANGED local
     ELSE Exit(r) /\ UNCHANGED <<lock, child>>
  /\ UNCHANGED <<stock, config, latest, status, torn>>

\* Under the lock the configuration and the base must be what was read.
Lock(r) ==
  /\ pc[r] = "wait"
  /\ lock = NoOne
  /\ IF config = seen[r] /\ stock = seen[r]
     THEN Goto(r, "backup") /\ lock' = r /\ UNCHANGED local
     ELSE Exit(r) /\ UNCHANGED <<lock, child>>
  /\ UNCHANGED <<stock, config, latest, status, torn>>

\* The input is a private copy and valid; the originals are copied and the
\* copy checked; the builder starts with the lock's descriptor.
Backup(r) ==
  /\ pc[r] = "backup"
  /\ stock = seen[r]
  /\ Goto(r, "build")
  /\ kept' = [kept EXCEPT ![r] = [stock |-> stock, config |-> config,
                                  latest |-> latest]]
  /\ fresh' = [fresh EXCEPT ![r] = FALSE]
  /\ commit' = [commit EXCEPT ![r] = FALSE]
  /\ child' = [child EXCEPT ![r] = TRUE]
  /\ status' = [status EXCEPT ![r] = "prepared"]
  /\ UNCHANGED <<stock, config, latest, lock, seen, torn>>

\* --check-only, an invalid image, a failed copy: nothing has been changed.
Refuse(r) ==
  /\ pc[r] = "backup"
  /\ Exit(r)
  /\ Unlock
  /\ UNCHANGED <<stock, config, latest, child, status, torn>>
-----------------------------------------------------------------------------
(* The builder: freedom-kernel-update --stage-only with the candidate       *)
(* configuration, which names the input image as the base.                 *)

\* A process that was killed has its descriptor of the lock closed; the
\* builder's own keeps the lock until the builder ends too.
Orphaned(r) == pc[r] = "dead"

BuilderEnds(r) ==
  /\ child[r]
  /\ child' = [child EXCEPT ![r] = FALSE]
  /\ IF Orphaned(r) THEN Goto(r, "idle") /\ Unlock ELSE UNCHANGED <<pc, lock>>
  /\ UNCHANGED <<stock, config, seen, kept, commit, status, torn>>

BuilderSucceeds(r) ==
  /\ BuilderEnds(r)
  /\ latest' = Input[r]
  /\ fresh' = [fresh EXCEPT ![r] = ~Orphaned(r)]

\* It fails, or exits without a candidate for this kernel.
BuilderFails(r) == BuilderEnds(r) /\ UNCHANGED <<latest, fresh>>
-----------------------------------------------------------------------------
(* The commit.                                                             *)

ToRollback(r) == Goto(r, IF commit[r] THEN "restoreStock" ELSE "restoreLatest")

\* build_candidate() returns once the builder is gone.
Built(r) ==
  /\ pc[r] = "build" /\ ~child[r]
  /\ Goto(r, "checkLatest")
  /\ UNCHANGED <<stock, config, latest, lock, local, status, torn>>

\* Faulty variant: commit_started is set after the base was copied.
CheckLatestLate(r) ==
  /\ pc[r] = "checkLatest"
  /\ fresh[r]
  /\ Goto(r, "commitStock")
  /\ status' = [status EXCEPT ![r] = "built"]
  /\ UNCHANGED <<stock, config, latest, lock, local, torn>>

\* A candidate that was not there before, for this kernel: "built", and
\* commit_started before the first copy.
CheckLatest(r) ==
  /\ pc[r] = "checkLatest"
  /\ fresh[r]
  /\ Goto(r, "commitStock")
  /\ status' = [status EXCEPT ![r] = "built"]
  /\ commit' = [commit EXCEPT ![r] = TRUE]
  /\ UNCHANGED <<stock, config, latest, lock, seen, kept, fresh, child, torn>>

CommitStock(r) ==
  /\ pc[r] = "commitStock"
  /\ Goto(r, "commitConfig")
  /\ stock' = Input[r]
  /\ UNCHANGED <<config, latest, lock, local, status, torn>>

CommitConfig(r) ==
  /\ pc[r] = "commitConfig"
  /\ Goto(r, "verify")
  /\ config' = Input[r]
  /\ UNCHANGED <<stock, latest, lock, local, status, torn>>

Complete(r) ==
  /\ pc[r] = "verify"
  /\ stock = Input[r] /\ config = Input[r]
  /\ Exit(r)
  /\ Unlock
  /\ status' = [status EXCEPT ![r] = "completed"]
  /\ torn' = FALSE
  /\ UNCHANGED <<stock, config, latest, child>>

\* Any exception from the build to the end of the try block.
Fails(r) ==
  /\ pc[r] \in Committing
  /\ ToRollback(r)
  /\ UNCHANGED <<stock, config, latest, lock, local, status, torn>>

\* Faulty variant: the builder is left to itself.
InterruptedLeaves(r) ==
  /\ pc[r] = "build"
  /\ ToRollback(r)
  /\ UNCHANGED <<stock, config, latest, lock, local, status, torn>>

\* SIGTERM or SIGHUP while the builder runs: it is terminated and waited for
\* before the rollback begins.
Interrupted(r) ==
  /\ pc[r] = "build"
  /\ child' = [child EXCEPT ![r] = FALSE]
  /\ ToRollback(r)
  /\ UNCHANGED <<stock, config, latest, lock, seen, kept, fresh, commit, status,
                 torn>>
-----------------------------------------------------------------------------
(* The rollback.                                                           *)

RestoreStock(r) ==
  /\ pc[r] = "restoreStock"
  /\ Goto(r, "restoreConfig")
  /\ stock' = kept[r].stock
  /\ UNCHANGED <<config, latest, lock, local, status, torn>>

RestoreConfig(r) ==
  /\ pc[r] = "restoreConfig"
  /\ Goto(r, "restoreLatest")
  /\ config' = kept[r].config
  /\ UNCHANGED <<stock, latest, lock, local, status, torn>>

\* Faulty variant: a pointer that did not exist before is left behind.
RestoreLatestIfKept(r) ==
  /\ pc[r] = "restoreLatest"
  /\ Goto(r, "mark")
  /\ latest' = IF kept[r].latest = NoImage THEN latest ELSE kept[r].latest
  /\ UNCHANGED <<stock, config, lock, local, status, torn>>

\* latest.json comes back, or is removed when there was none.
RestoreLatest(r) ==
  /\ pc[r] = "restoreLatest"
  /\ Goto(r, "mark")
  /\ latest' = kept[r].latest
  /\ UNCHANGED <<stock, config, lock, local, status, torn>>

\* "failed_original_restored", and the exception goes on.
MarkFailed(r) ==
  /\ pc[r] = "mark"
  /\ Exit(r)
  /\ Unlock
  /\ status' = [status EXCEPT ![r] = "restored"]
  /\ UNCHANGED <<stock, config, latest, child, torn>>

\* The rollback itself raises; the lock is closed on the way out.
RollbackFails(r) ==
  /\ pc[r] \in RollingBack
  /\ Exit(r)
  /\ Unlock
  /\ torn' = TRUE
  /\ UNCHANGED <<stock, config, latest, child, status>>
-----------------------------------------------------------------------------
(* freedom-kernel-update as a hook or by hand.                             *)

\* The configuration is read before the lock is taken.
HookBegin(h) ==
  /\ pc[h] = "idle"
  /\ Goto(h, "wait")
  /\ seen' = [seen EXCEPT ![h] = config]
  /\ UNCHANGED <<stock, config, latest, lock, kept, fresh, commit, child, status,
                 torn>>

\* Faulty variant: the base is not compared with the configured digest.
HookLockUnchecked(h) ==
  /\ pc[h] = "wait"
  /\ lock = NoOne
  /\ Goto(h, "build") /\ lock' = h
  /\ UNCHANGED <<stock, config, latest, local, status, torn>>

HookLock(h) ==
  /\ pc[h] = "wait"
  /\ lock = NoOne
  /\ IF stock = seen[h] THEN Goto(h, "build") /\ lock' = h /\ UNCHANGED local
     ELSE Exit(h) /\ UNCHANGED <<lock, child>>
  /\ UNCHANGED <<stock, config, latest, status, torn>>

HookSucceeds(h) ==
  /\ pc[h] = "build"
  /\ Exit(h)
  /\ Unlock
  /\ latest' = stock
  /\ UNCHANGED <<stock, config, child, status, torn>>

\* Faulty variant: a build that fails exits through a path that keeps the lock.
HookFailsLocked(h) ==
  /\ pc[h] = "build"
  /\ Exit(h)
  /\ UNCHANGED <<stock, config, latest, lock, child, status, torn>>

HookFails(h) ==
  /\ pc[h] = "build"
  /\ Exit(h)
  /\ Unlock
  /\ UNCHANGED <<stock, config, latest, child, status, torn>>
-----------------------------------------------------------------------------
\* SIGKILL: no handler and no rollback.
Kill(r) ==
  /\ pc[r] \in {"backup", "build"} \union Committing \union RollingBack
  /\ Forget(r)
  /\ IF child[r] THEN Goto(r, "dead") /\ UNCHANGED lock
     ELSE Goto(r, "idle") /\ Unlock
  /\ torn' = (torn \/ pc[r] # "backup")
  /\ UNCHANGED <<stock, config, latest, child, status>>

PowerLoss ==
  /\ \E p \in Procs : pc[p] # "idle"
  /\ pc' = [p \in Procs |-> "idle"]
  /\ child' = [r \in Replacers |-> FALSE]
  /\ Unlock
  /\ torn' = (torn \/ \E r \in Replacers : pc[r] \notin {"idle", "wait", "backup"})
  /\ seen' = [p \in Procs |-> NoImage]
  /\ kept' = [r \in Replacers |-> NothingKept]
  /\ fresh' = [r \in Replacers |-> FALSE]
  /\ commit' = [r \in Replacers |-> FALSE]
  /\ UNCHANGED <<stock, config, latest, status>>

Replace(r) ==
  \/ Lock(r) \/ Backup(r) \/ Refuse(r) \/ BuilderSucceeds(r) \/ BuilderFails(r)
  \/ Built(r) \/ CheckLatest(r) \/ CommitStock(r) \/ CommitConfig(r)
  \/ Complete(r) \/ Fails(r) \/ Interrupted(r) \/ RestoreStock(r)
  \/ RestoreConfig(r) \/ RestoreLatest(r) \/ MarkFailed(r) \/ RollbackFails(r)

Hook(h) == HookLock(h) \/ HookSucceeds(h) \/ HookFails(h)

Next ==
  \/ \E r \in Replacers : Begin(r) \/ Replace(r) \/ Kill(r)
  \/ \E h \in Hooks : HookBegin(h) \/ Hook(h)
  \/ PowerLoss

Spec == Init /\ [][Next]_vars

\* The kernel grants a released lock to each waiter sooner or later, and no
\* process stops by itself.
Fairness == /\ \A r \in Replacers : SF_vars(Lock(r)) /\ WF_vars(Replace(r))
            /\ \A h \in Hooks : SF_vars(HookLock(h)) /\ WF_vars(Hook(h))

FairSpec == Spec /\ Fairness
-----------------------------------------------------------------------------
\* Who must hold the lock: a process between its Lock and its exit, or the
\* builder it left behind.
NeedsLock(p) == pc[p] \notin {"idle", "wait"}

TypeOK ==
  /\ stock \in Images /\ config \in Images
  /\ latest \in Images \union {NoImage}
  /\ \A p \in Procs : NeedsLock(p) <=> lock = p
  /\ lock \in Procs \union {NoOne}
  /\ \A r \in Replacers : pc[r] \in ReplacerPcs
  /\ \A h \in Hooks : pc[h] \in HookPcs
  /\ seen \in [Procs -> Images \union {NoImage}]
  /\ kept \in [Replacers -> [stock : Images \union {NoImage},
                             config : Images \union {NoImage},
                             latest : Images \union {NoImage}]]
  /\ fresh \in [Replacers -> BOOLEAN]
  /\ commit \in [Replacers -> BOOLEAN]
  /\ child \in [Replacers -> BOOLEAN]
  /\ status \in [Replacers -> Statuses]
  /\ torn \in BOOLEAN

\* Whatever succeeded, failed or was interrupted: once the lock is free the
\* base file has the digest the configuration names, unless a replacement was
\* killed in the middle or could not roll back.
ConfigMatchesBase == lock = NoOne /\ ~torn => stock = config

\* latest.json never points to a candidate of a base that is not the one
\* installed.
LatestMatchesBase == lock = NoOne /\ ~torn => latest \in {config, NoImage}

\* "failed_original_restored" is written only when the base, the configuration
\* and the latest pointer are what the replacement found.
OriginalBack(r) ==
  status[r] # "restored" /\ status'[r] = "restored" =>
    /\ ~child'[r]
    /\ [stock |-> stock', config |-> config', latest |-> latest'] = kept[r]
FailedMeansOriginal == [][\A r \in Replacers : OriginalBack(r)]_vars

\* A kernel update builds from the base that the configuration it read names,
\* although it read it before the lock; and unless a replacement was cut short
\* while it waited, that is also the base configured when it is done.
HookBuilt(h) == pc[h] = "build" /\ pc'[h] = "idle" /\ latest' # latest
HookBuildsConfiguredBase ==
  [][\A h \in Hooks : HookBuilt(h) =>
       /\ latest' = seen[h] /\ stock = seen[h]
       /\ ~torn => config = seen[h]]_vars

\* A replacement that has started ends, and so does a hook: nobody keeps the
\* lock.
EverybodyEnds == \A p \in Procs : pc[p] # "idle" ~> pc[p] = "idle"
=============================================================================
