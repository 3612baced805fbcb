------------------------------- MODULE StoreJobs -------------------------------
(***************************************************************************)
(* The backend of the armada-store plugin: the job list and its one worker *)
(* thread, the packagings of an app on the disk, the state file, and the   *)
(* cache of the system's flatpaks.                                         *)
(*                                                                         *)
(* Simplifications.  The catalog does not change.  Of a job's phases only  *)
(* "queued" and the other active ones, "running", differ: a finished job   *)
(* is shown for a while and is otherwise as none.  A subprocess or a       *)
(* download is one step, which a cancellation can cut short.  The cache's  *)
(* age of 3 s is the flag fresh.  Versions, progress and the desktop       *)
(* entries are left out.                                                   *)
(***************************************************************************)
EXTENDS Naturals, Sequences, SequencesExt, FiniteSets

CONSTANTS
  Apps,
  Catalogs,   \* the catalogs to consider, each of app -> type of package
  Disks,      \* what may be installed at first, each of app -> packagings
  Budget      \* bound on requests, failures, restarts and what the user does

Kinds == {"flatpak", "appimage", "deckyplugin"}

ASSUME StoreAssumption ==
  /\ Catalogs \subseteq [Apps -> Kinds] /\ Budget \in Nat
  /\ Disks \subseteq [Apps -> SUBSET {"rival", "one"}]
  /\ {"idle", "gone"} \intersect Apps = {}

VARIABLES
  kind,       \* the catalog
  disk,       \* app |-> its packagings on the disk
  record,     \* app |-> the file name recorded in state.json, or "none"
  pending,    \* pendingShortcuts of state.json
  shortcut,   \* shortcuts of state.json, 0 for none
  jobs,       \* app |-> its job
  queue,
  worker,     \* the app whose job the worker holds, "idle" or "gone"
  step,       \* what the worker does next with it
  refs, fresh,\* the cache of the flatpaks, and whether its age is accepted
  lister,     \* who lists the flatpaks: "nobody", "status" or "worker"
  listed,     \* {what that listing read}, {} until it did
  budget

store == <<record, pending, shortcut>>
list  == <<jobs, queue, worker, step>>
cache == <<refs, fresh, lister, listed>>
backend == <<kind, disk, store, list, cache, budget>>

\* The file or directory an install may publish.
Names(a) == IF kind[a] = "deckyplugin" THEN {"one", "two"} ELSE {"one"}
\* What the worker does after it published n.
Recording(n) == IF n = "one" THEN "record one" ELSE "record two"
\* A rival packaging of the app, one of the other sort, is its only conflict.
RivalKind(a) == CASE kind[a] = "flatpak"  -> "appimage"
                  [] kind[a] = "appimage" -> "flatpak"
                  [] OTHER                -> "none"
Launchable(a) == kind[a] # "deckyplugin"
Old == 1          \* a shortcut to the rival; the others are to the app itself
NewIds == {2, 3}

\* Each flatpak that is installed, as <<app, packaging>>.
Flatpaks ==
  {f \in Apps \X {"rival", "one"} :
     /\ f[2] \in disk[f[1]]
     /\ IF f[2] = "rival" THEN RivalKind(f[1]) = "flatpak" ELSE kind[f[1]] = "flatpak"}

\* installed_info(), and the conflicts of installed_map().
Installed(a) ==
  CASE kind[a] = "flatpak"  -> <<a, "one">> \in refs
    [] kind[a] = "appimage" -> "one" \in disk[a]
    [] OTHER                -> record[a] \in disk[a]
Conflicts(a) ==
  \/ RivalKind(a) = "flatpak" /\ <<a, "rival">> \in refs
  \/ RivalKind(a) = "appimage" /\ "rival" \in disk[a]

NoJob == [action |-> "none", phase |-> "none", cancel |-> FALSE]
Active(a) == jobs[a] # NoJob

Init ==
  /\ kind \in Catalogs
  /\ disk \in Disks
  /\ \A a \in Apps : ~Launchable(a) => "rival" \notin disk[a]
  /\ record = [a \in Apps |-> IF "one" \in disk[a] /\ kind[a] # "flatpak"
                              THEN "one" ELSE "none"]
  /\ pending = {}
  /\ shortcut \in [Apps -> {0, Old}]
  /\ \A a \in Apps : shortcut[a] = Old => disk[a] = {"rival"}
  /\ jobs = [a \in Apps |-> NoJob]
  /\ queue = <<>> /\ worker = "gone" /\ step = "take"
  /\ refs = {} /\ fresh = FALSE /\ lister = "nobody" /\ listed = {}
  /\ budget = Budget

Spend == budget > 0 /\ budget' = budget - 1
-----------------------------------------------------------------------------
(* The requests on the job list, each under its lock.                      *)

Start(a, action) ==
  /\ Spend
  /\ ~Active(a)
  /\ jobs' = [jobs EXCEPT ![a] = [action |-> action, phase |-> "queued",
                                  cancel |-> FALSE]]
  /\ queue' = Append(queue, a)
  /\ IF worker = "gone" THEN worker' = "idle" /\ step' = "take"
                        ELSE UNCHANGED <<worker, step>>
  /\ UNCHANGED <<kind, disk, store, cache>>

\* Faulty variant: a cancelled job's id stays in the queue.
CancelInPlace(a) ==
  /\ Spend
  /\ Active(a)
  /\ jobs' = [jobs EXCEPT ![a] = NoJob]
  /\ UNCHANGED <<kind, disk, store, queue, worker, step, cache>>

\* A job the worker has popped but not begun is still "queued": it gets the flag.
Cancel(a) ==
  /\ Spend
  /\ Active(a)
  /\ IF jobs[a].phase = "queued" /\ Contains(queue, a)
     THEN /\ \E i \in DOMAIN queue : queue[i] = a /\ queue' = RemoveAt(queue, i)
          /\ jobs' = [jobs EXCEPT ![a] = NoJob]
     ELSE /\ jobs' = [jobs EXCEPT ![a].cancel = TRUE]
          /\ UNCHANGED queue
  /\ UNCHANGED <<kind, disk, store, worker, step, cache>>
-----------------------------------------------------------------------------
(* The worker.  A step of a job succeeds, fails, or is cut short.          *)

Take ==
  /\ worker = "idle"
  /\ IF queue = <<>> THEN worker' = "gone" /\ UNCHANGED <<queue, step>>
     ELSE worker' = Head(queue) /\ queue' = Tail(queue) /\ step' = "begin"
  /\ UNCHANGED <<kind, disk, store, jobs, cache, budget>>

At(s) == worker \in Apps /\ step = s
Goes(s) == step' = s /\ UNCHANGED <<jobs, worker, budget>>
\* Faulty variant: a job takes its worker with it.
EndAndDie == /\ jobs' = [jobs EXCEPT ![worker] = NoJob]
             /\ worker' = "gone" /\ step' = "take"
\* done, cancelled or error
End == /\ jobs' = [jobs EXCEPT ![worker] = NoJob]
       /\ worker' = "idle" /\ step' = "take"
Ends == End /\ UNCHANGED budget
Fails == End /\ Spend
Cancelled == jobs[worker].cancel /\ Ends
\* _run_flatpak(), and a download: cut short by a cancellation, or failing.
FlatpakCut == Cancelled \/ Fails
DownloadCut == Cancelled \/ Fails
\* Where an install, of either sort, goes on.
Installs == IF jobs[worker].action = "replace" THEN "owe" ELSE "post"

Begin ==
  /\ At("begin")
  /\ jobs' = [jobs EXCEPT ![worker].phase = "running"]
  /\ step' = IF jobs[worker].action = "uninstall" THEN "unpend"
             ELSE IF kind[worker] = "flatpak" THEN "flatpak" ELSE "publish"
  /\ UNCHANGED <<kind, disk, store, queue, worker, cache, budget>>

\* install_flatpak(): cut short, or failing, it may have installed the package.
InstallFlatpak ==
  /\ At("flatpak")
  /\ \/ /\ disk' = [disk EXCEPT ![worker] = @ \union {"one"}]
        /\ Goes("override") \/ FlatpakCut
     \/ UNCHANGED disk /\ FlatpakCut
  /\ UNCHANGED <<kind, store, queue, cache>>

\* add_pending_shortcut(): a recorded shortcut is owed again only by force.
AddPending(a, force) ==
  pending' = IF force \/ shortcut[a] = 0 THEN pending \union {a} ELSE pending

\* override_flatpak() may fail; then the cache, then the owed shortcut.
Override ==
  /\ At("override")
  /\ \/ fresh' = FALSE /\ AddPending(worker, FALSE) /\ Goes(Installs)
     \/ Fails /\ UNCHANGED <<pending, fresh>>
  /\ UNCHANGED <<kind, disk, record, shortcut, queue, refs, lister, listed>>

\* What is published replaces at once what has its name; what ends before that
\* changes nothing.
Publish(n) ==
  /\ \/ disk' = [disk EXCEPT ![worker] = @ \union {n}] /\ Goes(Recording(n))
     \/ DownloadCut /\ UNCHANGED disk
  /\ UNCHANGED <<kind, store, queue, cache>>

\* install_appimage(): the catalog names the file.
PublishAppimage == At("publish") /\ kind[worker] = "appimage" /\ Publish("one")

\* install_decky_plugin(): the archive names the directory.
PublishPlugin ==
  At("publish") /\ kind[worker] = "deckyplugin" /\ \E n \in Names(worker) : Publish(n)

\* record_appimage(), record_plugin(), and their clear_ siblings
RecordAs(a, n) == record' = [record EXCEPT ![a] = n]

\* The record, then the file it named before goes if it had another name, and
\* an app that can be launched is owed a shortcut.
Record(n) ==
  /\ At(Recording(n))
  /\ RecordAs(worker, n)
  /\ disk' = [disk EXCEPT ![worker] = @ \ ({record[worker]} \ {n})]
  /\ IF Launchable(worker) THEN AddPending(worker, FALSE) ELSE UNCHANGED pending
  /\ Goes(Installs)
  /\ UNCHANGED <<kind, shortcut, queue, cache>>

\* Faulty variant: the rival goes first, then the shortcut is owed.
OweLast ==
  /\ At("owe")
  /\ disk' = [disk EXCEPT ![worker] = @ \ {"rival"}]
  /\ Goes("remove")
  /\ UNCHANGED <<kind, store, queue, cache>>

\* A replacement owes a shortcut even where one is recorded.
Owe ==
  /\ At("owe")
  /\ AddPending(worker, TRUE)
  /\ Goes("conflicts")
  /\ UNCHANGED <<kind, disk, record, shortcut, queue, cache>>

\* _remove_conflicts() asks flatpak_refs(): it lists, or takes what there is.
FindConflicts ==
  /\ \/ /\ \/ At("conflicts") /\ (fresh \/ lister # "nobody")
           \/ At("listing") /\ lister # "worker"
        /\ Goes(IF Conflicts(worker) THEN "remove" ELSE "post")
        /\ UNCHANGED lister
     \/ /\ At("conflicts") /\ ~fresh /\ lister = "nobody"
        /\ lister' = "worker"
        /\ Goes("listing")
  /\ UNCHANGED <<kind, disk, store, queue, refs, fresh, listed>>

\* The rival goes; a flatpak's removal may end early on either side of it.
RemoveConflict ==
  /\ At("remove")
  /\ \/ /\ disk' = [disk EXCEPT ![worker] = @ \ {"rival"}]
        /\ IF RivalKind(worker) = "flatpak"
           THEN fresh' = FALSE /\ UNCHANGED record
           ELSE RecordAs(worker, "none") /\ UNCHANGED fresh
        /\ Goes("post")
     \/ /\ disk' \in {disk, [disk EXCEPT ![worker] = @ \ {"rival"}]}
        /\ IF RivalKind(worker) = "flatpak" THEN FlatpakCut ELSE Fails
        /\ UNCHANGED <<record, fresh>>
  /\ UNCHANGED <<kind, pending, shortcut, queue, refs, lister, listed>>

\* postinstall.run() may fail.
PostInstall ==
  /\ At("post")
  /\ Fails \/ Ends
  /\ UNCHANGED <<kind, disk, store, queue, cache>>

Unpend ==
  /\ At("unpend")
  /\ pending' = pending \ {worker}
  /\ Goes("erase")
  /\ UNCHANGED <<kind, disk, record, shortcut, queue, cache>>

\* What an uninstallation removes: it may fail, or be cut short, on either side.
Removes(n, cut) ==
  LET gone == [disk EXCEPT ![worker] = @ \ {n}]
  IN  \/ disk' = gone /\ Goes("unrecord")
      \/ disk' \in {disk, gone} /\ (Fails \/ (cut /\ Cancelled))

\* uninstall_flatpak(); remove_appimage(), with its desktop entry and icon
EraseFlatpak == kind[worker] = "flatpak" /\ Removes("one", TRUE)
EraseAppimage == kind[worker] = "appimage" /\ Removes("one", FALSE)
\* remove_decky_plugin(): of one that is not recorded nothing is known to remove.
ErasePlugin ==
  /\ kind[worker] = "deckyplugin"
  /\ IF record[worker] = "none" THEN Ends /\ UNCHANGED disk
                                ELSE Removes(record[worker], FALSE)

Erase ==
  /\ At("erase")
  /\ EraseFlatpak \/ EraseAppimage \/ ErasePlugin
  /\ UNCHANGED <<kind, store, queue, cache>>

Unrecord ==
  /\ At("unrecord")
  /\ IF kind[worker] = "flatpak" THEN fresh' = FALSE /\ UNCHANGED record
     ELSE RecordAs(worker, "none") /\ UNCHANGED fresh
  /\ Ends
  /\ UNCHANGED <<kind, disk, pending, shortcut, queue, refs, lister, listed>>

Work == \/ Take \/ Begin \/ InstallFlatpak \/ Override \/ Owe
        \/ PublishAppimage \/ PublishPlugin
        \/ \E n \in {"one", "two"} : Record(n)
        \/ FindConflicts \/ RemoveConflict \/ PostInstall
        \/ Unpend \/ Erase \/ Unrecord
-----------------------------------------------------------------------------
(* flatpak_refs(): one lists at a time, outside any lock of the jobs.      *)

\* A get_status() finds the cache too old and nobody listing.  (While the cache
\* is right neither a listing nor its age matters.)
Refresh ==
  /\ ~fresh /\ refs # Flatpaks /\ lister = "nobody"
  /\ lister' = "status" /\ listed' = {}
  /\ UNCHANGED <<kind, disk, store, list, refs, fresh, budget>>

\* The subprocess reads the installation; one that ends badly prints nothing,
\* and its exit status is not looked at.
ReadFlatpaks ==
  /\ lister # "nobody" /\ listed = {}
  /\ \/ listed' = {Flatpaks} /\ UNCHANGED budget
     \/ listed' = {{}} /\ Spend
  /\ UNCHANGED <<kind, disk, store, list, refs, fresh, lister>>

\* The result, or none when the call ran into its timeout, and in each case
\* the time, even when the cache was invalidated meanwhile.
Stamp ==
  /\ lister # "nobody"
  /\ \/ refs' \in listed /\ UNCHANGED budget
     \/ Spend /\ UNCHANGED refs
  /\ fresh' = TRUE /\ lister' = "nobody" /\ listed' = {}
  /\ UNCHANGED <<kind, disk, store, list>>

\* Three seconds pass.
Age ==
  /\ fresh /\ refs # Flatpaks
  /\ fresh' = FALSE
  /\ UNCHANGED <<kind, disk, store, list, refs, lister, listed, budget>>

\* The plugin's process ends, as it does after an update of a plugin.
BackendRestarts ==
  /\ Spend
  /\ jobs' = [a \in Apps |-> NoJob]
  /\ queue' = <<>> /\ worker' = "gone" /\ step' = "take"
  /\ refs' = {} /\ fresh' = FALSE /\ lister' = "nobody" /\ listed' = {}
  /\ UNCHANGED <<kind, disk, store>>
=============================================================================
