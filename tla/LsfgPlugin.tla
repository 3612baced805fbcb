------------------------------ MODULE LsfgPlugin ------------------------------
(***************************************************************************)
(* The frame generation plugin (decky-lsfg-vk): its runtime files, the     *)
(* configuration with a profile per game and per Flatpak app, the Flatpak  *)
(* runtime extension, override and ownership record of an app, and the     *)
(* launch wrapper with the state (sidecar) it is rendered from.            *)
(*                                                                         *)
(* Its methods run one after the other.  A method is a plan: the steps it  *)
(* takes on files and on Flatpak, each of which may fail and between which *)
(* the process may die.  Decky, the user and the plugin for the first      *)
(* version of lsfg-vk change Flatpak's state meanwhile.                    *)
(*                                                                         *)
(* Simplifications.  A profile is "slow" (the upstream defaults) or "fast",*)
(* and is kept under what it is for.  A workaround state is "plain" or     *)
(* "nowsi" (the Gamescope WSI layer off).  Files are replaced atomically.  *)
(* Unreadable files, which every method refuses, and the path of the DLL   *)
(* are left out.                                                           *)
(***************************************************************************)
EXTENDS Naturals, Sequences, SequencesExt, FiniteSets

CONSTANTS
  Games, Apps,       \* Steam games and Flatpak apps
  Branches,          \* branches of the Freedesktop runtime
  BranchOf,          \* app -> the branch it runs on
  Budget             \* bound on failures, crashes and what others do

States == {"plain", "nowsi"}

ASSUME LsfgAssumption ==
  /\ BranchOf \in [Apps -> Branches] /\ Budget \in Nat
  /\ IsFiniteSet(Apps) /\ IsFiniteSet(Branches)
  /\ Games \intersect Apps = {} /\ Apps \intersect Branches = {}
  \* The id of an app has a dot, and so has a branch.
  /\ {"all", "apps", "branches", "gate"} \intersect (Apps \union Branches) = {}

VARIABLES
  ext,        \* branch |-> the copies of the extension that are installed
  verified,   \* branches this process knows to be installed
  owned,      \* plugin_owned_branches
  prepared,   \* prepared_apps: "no", "bare" or with its workaround state
  override,   \* app |-> "none", "user", "plugin", or its profile's workarounds
  conf,       \* conf.toml: "absent", "legacy" or "v2"
  profiles,   \* its profiles, "none" where there is none
  migrated,   \* .steamos-arm-adreno-defaults is there
  files,      \* the runtime files
  sidecar, wrapper,
  torn,       \* history: a write of that pair failed and did not lead back to
              \* a wrapper that follows its state
  loaded,     \* the plugin runs
  op,         \* the method under way
  budget

flatpak == <<ext, verified, owned, prepared, override>>
config  == <<conf, profiles, migrated>>
pair    == <<sidecar, wrapper, torn>>
vars == <<flatpak, config, pair, files, loaded, op, budget>>

None == [g \in Games |-> "none"]
Absent == [is |-> "absent", apps |-> None]
Idle == [todo |-> <<>>, undo |-> <<>>, doc |-> None, back |-> <<Absent, Absent>>,
         ws |-> "none", failed |-> FALSE]

\* Reading a state of an older version turns the WSI layer on again.
Migrated(s) == [g \in Games |-> IF s.is = "old" /\ s.apps[g] = "nowsi"
                                THEN "plain" ELSE s.apps[g]]
Document == Migrated(sidecar)

\* The wrapper w is the one that is rendered from the state s, read or as it is.
Follows(s, w) ==
  s.apps # None /\ w.is # "foreign" =>
    w.is = "ours" /\ w.apps \in {Migrated(s), s.apps}

Init ==
  /\ ext \in [Branches -> {{}, {"system"}}]
  /\ verified = {} /\ owned = {}
  /\ prepared = [a \in Apps |-> "no"]
  /\ override = [a \in Apps |-> "user"]
  /\ \/ conf = "v2" /\ profiles = [k \in Games \union Apps |-> IF k \in Games THEN "slow"
                                                               ELSE "none"]
        /\ files = {"cli", "layer"}
     \/ conf = "legacy" /\ profiles = [k \in Games \union Apps |-> "none"] /\ files = {}
  /\ migrated = FALSE
  /\ \/ sidecar = Absent /\ wrapper \in {Absent, [is |-> "foreign", apps |-> None]}
     \/ /\ sidecar = [is |-> "old", apps |-> [g \in Games |-> "nowsi"]]
        /\ wrapper = [is |-> "ours", apps |-> sidecar.apps]
  /\ torn = FALSE /\ loaded = FALSE /\ op = Idle /\ budget = Budget

Spend == budget > 0 /\ budget' = budget - 1
-----------------------------------------------------------------------------
(* How a method goes through its plan.                                     *)

Ready == loaded /\ op.todo = <<>>
At(s, x) == op.todo # <<>> /\ Head(op.todo) = <<s, x>>

Planned(o) == op' = IF o.todo = <<>> THEN Idle ELSE o
Goes == Planned([op EXCEPT !.todo = Tail(@)])
\* Where failures are collected the rest that concerns x, which is the next
\* step or nothing, is left; else what there is to undo is undone.
Rest(x) ==
  LET next == Tail(op.todo) IN IF next[1][2] = x THEN Tail(next) ELSE next
Stops(x) ==
  Planned(IF Contains(op.todo, <<"gate", "branches">>) /\ x # "gate"
          THEN [op EXCEPT !.todo = Rest(x), !.failed = TRUE]
          ELSE [op EXCEPT !.todo = op.undo, !.undo = <<>>])
Fails(x) == Spend /\ Stops(x)
\* Flatpak cannot be run, runs too long, or reports an error.
CommandFails(x) == Fails(x)

\* Faulty variant: what could not be cleaned up is left behind.
PassGate(x) ==
  /\ At("gate", x)
  /\ Goes
  /\ UNCHANGED <<flatpak, config, pair, files, loaded, budget>>

\* Cleaning up goes on to its next part only when this one did not fail.
Gate(x) ==
  /\ At("gate", x)
  /\ IF op.failed THEN Stops("gate") ELSE Goes
  /\ UNCHANGED <<flatpak, config, pair, files, loaded, budget>>
-----------------------------------------------------------------------------
(* The Flatpak service.                                                    *)

\* Of a branch, and of its origin, the copies that are the user's.
UserCopies(b) == ext[b] \intersect {"flathub", "foreign"}
\* The runtime of an app, or the one it is derived from.
Runtime(a) == BranchOf[a]

\* install_extension(): nothing to do for a branch known, or installed for the
\* system alone; a user's copy of another origin goes first.
Extension(a) ==
  LET b == Runtime(a)
      ready == b \in verified \/ ("system" \in ext[b] /\ UserCopies(b) = {})
  IN  /\ At("extension", a)
      /\ \/ /\ IF ready THEN op' = [op EXCEPT !.todo = SubSeq(@, 4, Len(@))] /\ UNCHANGED ext
                        ELSE ext' = [ext EXCEPT ![b] = @ \ {"foreign"}] /\ Goes
            /\ UNCHANGED budget
         \/ CommandFails(a) /\ UNCHANGED ext
      /\ UNCHANGED <<verified, owned, prepared, override, config, pair, files, loaded>>

InstallExtension(a) ==
  /\ At("install", a)
  /\ \/ ext' = [ext EXCEPT ![Runtime(a)] = @ \union {"flathub"}] /\ Goes /\ UNCHANGED budget
     \/ CommandFails(a) /\ UNCHANGED ext
  /\ UNCHANGED <<verified, owned, prepared, override, config, pair, files, loaded>>

\* It is visible, or else the method fails; then it is the plugin's.
OwnExtension(a) ==
  /\ At("own", a)
  /\ \/ /\ owned' = owned \union {Runtime(a)} /\ verified' = verified \union {Runtime(a)}
        /\ Goes /\ UNCHANGED budget
     \/ Fails(a) /\ UNCHANGED <<owned, verified>>
  /\ UNCHANGED <<ext, prepared, override, config, pair, files, loaded>>

RemoveExtension(b) ==
  /\ At("remove", b)
  /\ \/ ext' = [ext EXCEPT ![b] = @ \ UserCopies(b)] /\ Goes /\ UNCHANGED budget
     \/ UserCopies(b) # {} /\ CommandFails(b) /\ UNCHANGED ext
  /\ UNCHANGED <<verified, owned, prepared, override, config, pair, files, loaded>>

\* The end of uninstall_extension(); what was verified stays verified.
Disown(b) ==
  /\ At("disown", b)
  /\ \/ owned' = owned \ {b} /\ Goes /\ UNCHANGED budget
     \/ Fails(b) /\ UNCHANGED owned
  /\ UNCHANGED <<ext, verified, prepared, override, config, pair, files, loaded>>

\* `flatpak override --user --reset`: it takes the user's own settings along.
Reset(a) ==
  /\ At("reset", a)
  /\ \/ override' = [override EXCEPT ![a] = "none"] /\ Goes /\ UNCHANGED budget
     \/ CommandFails(a) /\ UNCHANGED override
  /\ UNCHANGED <<ext, verified, owned, prepared, config, pair, files, loaded>>

\* The override of prepare_app(), which must be visible afterwards.
Prepare(a) ==
  /\ At("prepare", a)
  /\ \/ /\ override' = [override EXCEPT ![a] = IF @ \in States THEN @ ELSE "plugin"]
        /\ (Goes /\ UNCHANGED budget) \/ CommandFails(a)
     \/ CommandFails(a) /\ UNCHANGED override
  /\ UNCHANGED <<ext, verified, owned, prepared, config, pair, files, loaded>>

\* The end of prepare_app(); an app that is new is given up if enabling fails.
RecordApp(a) ==
  /\ At("record", a)
  /\ \/ /\ prepared' = [prepared EXCEPT ![a] = IF @ = "no" THEN "bare" ELSE @]
        /\ op' = [op EXCEPT !.todo = Tail(@),
                    !.undo = IF prepared[a] = "no"
                             THEN <<<<"reset", a>>, <<"forget", a>>>> ELSE @]
        /\ UNCHANGED budget
     \/ Fails(a) /\ UNCHANGED prepared
  /\ UNCHANGED <<ext, verified, owned, override, config, pair, files, loaded>>

\* The end of remove_app_override().
ForgetApp(a) ==
  /\ At("forget", a)
  /\ \/ prepared' = [prepared EXCEPT ![a] = "no"] /\ Goes /\ UNCHANGED budget
     \/ Fails(a) /\ UNCHANGED prepared
  /\ UNCHANGED <<ext, verified, owned, override, config, pair, files, loaded>>

\* The profile's selector and workarounds, with _apply_state()'s override.
Apply(a) ==
  /\ At("apply", a)
  /\ \/ /\ override' = [override EXCEPT ![a] = op.ws]
        /\ Goes /\ UNCHANGED budget
     \/ CommandFails(a) /\ UNCHANGED override
  /\ UNCHANGED <<ext, verified, owned, prepared, config, pair, files, loaded>>

StoreState(a) ==
  /\ At("store", a)
  /\ \/ prepared' = [prepared EXCEPT ![a] = op.ws] /\ Goes /\ UNCHANGED budget
     \/ Fails(a) /\ UNCHANGED prepared
  /\ UNCHANGED <<ext, verified, owned, override, config, pair, files, loaded>>

\* prepare_app(): only an app that is not the plugin's yet is reset.
PrepareApp(a, reset) ==
  <<<<"extension", a>>, <<"install", a>>, <<"own", a>>>>
  \o (IF reset THEN <<<<"reset", a>>>> ELSE <<>>)
  \o <<<<"prepare", a>>, <<"record", a>>>>
ApplyState(a) ==
  <<<<"reset", a>>>> \o PrepareApp(a, FALSE) \o <<<<"apply", a>>, <<"store", a>>>>
RemoveOverride(a) ==
  IF prepared[a] = "no" THEN <<>> ELSE <<<<"reset", a>>, <<"forget", a>>>>
-----------------------------------------------------------------------------
(* The Flatpak profiles.                                                   *)

\* Whoever reads a configuration of an old version resets it.
Read == IF conf = "legacy" THEN "v2" ELSE conf

EnableApp(a) ==
  /\ Ready
  /\ Planned([Idle EXCEPT
       !.todo = PrepareApp(a, prepared[a] = "no")
                \o (IF profiles[a] = "none" THEN <<<<"profile", a>>>> ELSE <<>>)
                \o ApplyState(a),
       !.ws = IF prepared[a] \in States THEN prepared[a] ELSE "plain"])
  /\ conf' = Read
  /\ UNCHANGED <<flatpak, profiles, migrated, pair, files, loaded, budget>>

SetFlatpakState(a, ws) ==
  /\ Ready /\ prepared[a] # "no"
  /\ Planned([Idle EXCEPT !.todo = ApplyState(a), !.ws = ws])
  /\ UNCHANGED <<flatpak, config, pair, files, loaded, budget>>

RemoveApp(a) ==
  /\ Ready
  /\ Planned([Idle EXCEPT !.todo = RemoveOverride(a) \o <<<<"unprofile", a>>>>])
  /\ UNCHANGED <<flatpak, config, pair, files, loaded, budget>>
-----------------------------------------------------------------------------
(* The configuration: nothing is saved that the runtime's own tool does    *)
(* not accept.                                                             *)

Save(new) == "cli" \in files /\ conf' = "v2" /\ profiles' = new
DoNotSave == conf' = Read /\ UNCHANGED profiles

\* A failure to remove a profile is reported, and ends nothing else.
ChangeProfiles(s, x, new) ==
  /\ At(s, x)
  /\ \/ Save(new) /\ UNCHANGED budget
        /\ IF s = "profile"
           THEN op' = [op EXCEPT !.todo = Tail(@), !.undo = <<<<"unprofile", x>>>> \o @]
           ELSE Goes
     \/ /\ DoNotSave
        /\ IF "cli" \in files THEN Spend ELSE UNCHANGED budget
        /\ IF s = "unprofile" /\ x \in Apps THEN Goes ELSE Stops(x)
  /\ UNCHANGED <<flatpak, migrated, pair, files, loaded>>

\* update_flatpak_config(), reset_flatpak_config(), reset_all_flatpak_configs()
CreateProfile(a) == ChangeProfiles("profile", a, [profiles EXCEPT ![a] = "fast"])
DropProfile(a)   == ChangeProfiles("unprofile", a, [profiles EXCEPT ![a] = "none"])
DropProfiles     == ChangeProfiles("unprofile", "all",
                      [k \in Games \union Apps |-> IF k \in Apps THEN "none" ELSE profiles[k]])

\* update_game_config()
UpdateGame(g) ==
  /\ Ready
  /\ \E p \in {"slow", "fast"} : Save([profiles EXCEPT ![g] = p])
  /\ UNCHANGED <<flatpak, migrated, pair, files, loaded, op, budget>>

\* update_config() of an app that is the plugin's
UpdateApp(a) ==
  /\ Ready /\ prepared[a] # "no"
  /\ Save([profiles EXCEPT ![a] = "fast"])
  /\ UNCHANGED <<flatpak, migrated, pair, files, loaded, op, budget>>

\* reset_game_config() and its two siblings
ResetGames(gs) ==
  /\ Ready
  /\ Save([k \in Games \union Apps |-> IF k \in gs THEN "none" ELSE profiles[k]])
  /\ UNCHANGED <<flatpak, migrated, pair, files, loaded, op, budget>>

\* migrate_adreno_defaults() as the plugin is loaded; that it fails is logged.
Adreno ==
  /\ At("adreno", "conf")
  /\ \/ (conf = "absent" \/ migrated) /\ UNCHANGED <<config, budget>>
     \/ /\ conf # "absent" /\ ~migrated
        /\ LET new == [k \in Games \union Apps |->
                         IF k \in Games /\ profiles[k] = "slow" THEN "fast" ELSE profiles[k]]
           IN  \/ /\ IF new = profiles THEN DoNotSave ELSE Save(new)
                  /\ migrated' = TRUE /\ UNCHANGED budget
               \/ /\ DoNotSave
                  /\ IF new # profiles /\ "cli" \notin files THEN UNCHANGED budget ELSE Spend
                  /\ UNCHANGED migrated
  /\ Goes
  /\ UNCHANGED <<flatpak, pair, files, loaded>>
-----------------------------------------------------------------------------
(* The wrapper and its state.                                              *)

PairAs(x, i) ==
  CASE x = "old"   -> op.back[i]
    [] x = "new"   -> [is |-> IF i = 1 THEN "new" ELSE "ours", apps |-> op.doc]
    [] x = "purge" -> Absent
    [] x = "pass"  -> [is |-> "ours", apps |-> None]

\* A write failed: it will not be undone, or leads back to where a previous
\* process left the two apart.
Tears == torn' = (torn \/ op.undo = <<>> \/ ~Follows(op.back[1], op.back[2]))

WriteSidecar(x) ==
  /\ At("sidecar", x)
  /\ \/ sidecar' = PairAs(x, 1) /\ Goes /\ UNCHANGED <<torn, budget>>
     \/ Fails(x) /\ Tears /\ UNCHANGED sidecar
  /\ UNCHANGED <<flatpak, config, wrapper, files, loaded>>

\* A wrapper that is not the plugin's is never replaced.
WriteWrapper(x) ==
  /\ At("wrapper", x)
  /\ IF wrapper.is = "foreign" THEN Stops(x) /\ UNCHANGED <<wrapper, torn, budget>>
     ELSE \/ wrapper' = PairAs(x, 2) /\ Goes /\ UNCHANGED <<torn, budget>>
          \/ Fails(x) /\ Tears /\ UNCHANGED wrapper
  /\ UNCHANGED <<flatpak, config, sidecar, files, loaded>>

\* _write_pair()
WritePair(doc) ==
  [Idle EXCEPT !.doc = doc, !.back = <<sidecar, wrapper>>,
               !.todo = <<<<"sidecar", "new">>, <<"wrapper", "new">>>>,
               !.undo = <<<<"sidecar", "old">>, <<"wrapper", "old">>>>]

SetState(g, ws) ==
  /\ Ready /\ wrapper.is # "foreign"
  /\ Planned(WritePair([Document EXCEPT ![g] = ws]))
  /\ UNCHANGED <<flatpak, config, pair, files, loaded, budget>>

RemoveState(g) ==
  /\ Ready /\ wrapper.is # "foreign" /\ sidecar.apps[g] # "none"
  /\ Planned(WritePair([Document EXCEPT ![g] = "none"]))
  /\ UNCHANGED <<flatpak, config, pair, files, loaded, budget>>

\* Faulty variant: a wrapper that is there is taken to be right.
RepairAbsent ==
  IF Document = None \/ wrapper.is # "absent" THEN Idle
  ELSE [Idle EXCEPT !.doc = Document, !.todo = <<<<"wrapper", "new">>>>]

Repair ==
  IF Document = None \/ wrapper.is = "foreign" THEN Idle
  ELSE IF sidecar.is = "old" THEN WritePair(Document)
  ELSE [Idle EXCEPT !.doc = Document, !.todo = <<<<"wrapper", "new">>>>]
-----------------------------------------------------------------------------
(* Installing and removing the runtime, and the plugin's life.             *)

Install ==
  /\ Ready
  /\ Planned([Idle EXCEPT !.todo = <<<<"config", "legacy">>, <<"put", "cli">>,
                                     <<"put", "layer">>, <<"config", "write">>>>])
  /\ UNCHANGED <<flatpak, config, pair, files, loaded, budget>>

PutFile(f) ==
  /\ At("put", f)
  /\ \/ files' = files \union {f} /\ Goes /\ UNCHANGED budget
     \/ Fails(f) /\ UNCHANGED files
  /\ UNCHANGED <<flatpak, config, pair, loaded>>

\* _prepare_config() removes an old one; the new one is written last.
InstallConfig(x) ==
  /\ At("config", x)
  /\ \/ /\ conf' = CASE x = "write"      -> "v2"
                     [] conf = "legacy"  -> "absent"
                     [] OTHER            -> conf
        /\ Goes /\ UNCHANGED budget
     \/ Fails(x) /\ UNCHANGED conf
  /\ UNCHANGED <<flatpak, profiles, migrated, pair, files, loaded>>

EraseFile(f) ==
  /\ At("erase", f)
  /\ \/ /\ IF f = "conf"
           THEN /\ conf' = "absent" /\ profiles' = [k \in Games \union Apps |-> "none"]
                /\ UNCHANGED files
           ELSE files' = files \ {f} /\ UNCHANGED <<conf, profiles>>
        /\ Goes /\ UNCHANGED budget
     \/ Fails(f) /\ UNCHANGED <<files, conf, profiles>>
  /\ UNCHANGED <<flatpak, migrated, pair, loaded>>

\* Two steps for each of S, in some order.
Both(first, second, S) ==
  LET each == SetToSeq(S)
  IN  [i \in 1 .. 2 * Len(each) |->
         <<IF i % 2 = 1 THEN first ELSE second, each[(i + 1) \div 2]>>]

\* remove_plugin_owned_environment()
RemoveEnvironment ==
  Both("reset", "forget", {a \in Apps : prepared[a] # "no"}) \o <<<<"gate", "apps">>>>
  \o Both("remove", "disown", owned) \o <<<<"gate", "branches">>>>

\* _cleanup_runtime_state(), then the files.
Cleanup(wrapperAs) ==
  RemoveEnvironment
  \o <<<<"unprofile", "all">>, <<"wrapper", wrapperAs>>, <<"sidecar", "purge">>,
       <<"erase", "layer">>, <<"erase", "cli">>, <<"erase", "conf">>>>

\* uninstall_lsfg_vk()
Uninstall ==
  /\ Ready
  /\ Planned([Idle EXCEPT !.todo = Cleanup("purge")])
  /\ UNCHANGED <<flatpak, config, pair, files, loaded, budget>>

\* Decky removes the plugin: _uninstall(), and however that ends it is gone.
DeckyUninstalls ==
  /\ Ready
  /\ Planned([Idle EXCEPT !.todo = Cleanup("pass") \o <<<<"gone", "plugin">>>>,
                          !.undo = <<<<"gone", "plugin">>>>])
  /\ UNCHANGED <<flatpak, config, pair, files, loaded, budget>>

Gone ==
  /\ At("gone", "plugin")
  /\ Goes /\ loaded' = FALSE /\ verified' = {}
  /\ UNCHANGED <<ext, owned, prepared, override, config, pair, files, budget>>

\* _main()
Load ==
  /\ ~loaded
  /\ loaded' = TRUE /\ torn' = FALSE
  /\ op' = [Repair EXCEPT !.todo = <<<<"adreno", "conf">>>> \o @]
  /\ UNCHANGED <<flatpak, config, sidecar, wrapper, files, budget>>

\* The process ends, in the middle of a method or not.
Crash ==
  /\ loaded /\ Spend
  /\ loaded' = FALSE /\ op' = Idle /\ verified' = {}
  /\ UNCHANGED <<ext, owned, prepared, override, config, pair, files>>

\* The user and the plugin for the first version of lsfg-vk.
OthersReset(a) ==
  /\ Spend
  /\ override[a] # "none" /\ override' = [override EXCEPT ![a] = "none"]
  /\ UNCHANGED <<ext, verified, owned, prepared, config, pair, files, loaded, op>>

OthersExtension(b) ==
  /\ Spend
  /\ \E c \in {{}, {"foreign"}} :
       ext' = [ext EXCEPT ![b] = (@ \ UserCopies(b)) \union c]
  /\ UNCHANGED <<verified, owned, prepared, override, config, pair, files, loaded, op>>
-----------------------------------------------------------------------------
(* What the panel asks for.                                                *)

RuntimeCalls ==
  \/ Install \/ Uninstall
  \/ \E g \in Games : UpdateGame(g) \/ RemoveState(g) \/ \E ws \in States : SetState(g, ws)
  \/ \E gs \in SUBSET Games : ResetGames(gs)

FlatpakCalls(a) ==
  \/ EnableApp(a) \/ UpdateApp(a) \/ RemoveApp(a)
  \/ \E ws \in States : SetFlatpakState(a, ws)

\* A step of the method under way.
Step ==
  \/ \E x \in {"apps", "branches"} : Gate(x)
  \/ \E a \in Apps :
       \/ Extension(a) \/ InstallExtension(a) \/ OwnExtension(a) \/ Reset(a)
       \/ Prepare(a) \/ RecordApp(a) \/ ForgetApp(a) \/ Apply(a) \/ StoreState(a)
       \/ CreateProfile(a) \/ DropProfile(a)
  \/ \E b \in Branches : RemoveExtension(b) \/ Disown(b)
  \/ DropProfiles \/ Adreno
  \/ \E x \in {"new", "old", "purge", "pass"} : WriteSidecar(x) \/ WriteWrapper(x)
  \/ \E f \in {"cli", "layer", "conf"} : PutFile(f) \/ EraseFile(f)
  \/ \E x \in {"legacy", "write"} : InstallConfig(x)
  \/ Gone

Others ==
  \/ \E a \in Apps : OthersReset(a)
  \/ \E b \in Branches : OthersExtension(b)

Next ==
  \/ RuntimeCalls \/ \E a \in Apps : FlatpakCalls(a)
  \/ Step \/ DeckyUninstalls \/ Load \/ Crash \/ Others

Spec == Init /\ [][Next]_vars
-----------------------------------------------------------------------------
\* Between the methods the wrapper that games are started with is the one its
\* state describes (or described, where a change of its version failed), after
\* crashes inside an update and failed updates; unless a write failed and so
\* did its undoing or the repair it was for, and as long as the state names a
\* game.
WrapperFollowsState == Ready /\ ~torn => Follows(sidecar, wrapper)

\* The plugin forgets an app only when its override carries nothing any more,
\* gives up an extension only when no app is prepared, and its own files only
\* when it left nothing that needs them or that only it could remove, whatever
\* failed, died or was retried on the way.
TeardownOrder ==
  [][/\ \A a \in Apps : prepared[a] # "no" /\ prepared'[a] = "no" => override[a] = "none"
     /\ owned \ owned' # {} => \A a \in Apps : prepared[a] = "no"
     /\ files \ files' # {} =>
          /\ owned = {} /\ \A a \in Apps : prepared[a] = "no" /\ profiles[a] = "none"
          /\ sidecar.is = "absent"]_vars
=============================================================================
