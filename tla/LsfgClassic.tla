------------------------------ MODULE LsfgClassic ------------------------------
(***************************************************************************)
(* The plugin for the first version of lsfg-vk (decky-lsfg-vk-classic):    *)
(* its configuration with named profiles and a current one, the launch     *)
(* script that is written from it, its files, and the extensions and       *)
(* overrides of Flatpak it asks for.                                       *)
(*                                                                         *)
(* Its methods run one after the other and are plans of steps, as in       *)
(* LsfgPlugin, but its files are written in place: a write that fails or   *)
(* is cut off leaves the beginning of the new content.                     *)
(*                                                                         *)
(* Simplifications.  A profile is the value of one setting that the script *)
(* carries too, "off" by default; the other settings are like it or are in *)
(* the configuration alone.  The path of the DLL is left out, and so is    *)
(* what the panel shows between its reading and its edit.                  *)
(***************************************************************************)
EXTENDS Naturals, Sequences, SequencesExt, FiniteSets

CONSTANTS
  Names,      \* the profiles in the order of the file, the default one first
  Apps,       \* Flatpak apps
  Budget      \* bound on failures and crashes

ASSUME ClassicAssumption ==
  /\ Names \in Seq(STRING) /\ Names # <<>> /\ IsInjective(Names)
  /\ {"cut", "lost"} \intersect ToSet(Names) = {}
  /\ "default" \notin Apps /\ Budget \in Nat

Default == Names[1]
Profiles == ToSet(Names) \union {"cut"}     \* "cut": a name that was cut short
Settings == {"on", "off"}
Versions == {"23.08", "24.08", "25.08"}
Grants == <<"dll", "config", "script", "env">>

VARIABLES
  conf,       \* conf.toml: {} or {[current, games]}
  script,     \* ~/lsfg-classic: [is, name, set]
  files,      \* the layer's library and manifest
  ext,        \* the extensions that are installed
  over,       \* app |-> what the plugin granted it
  op,         \* the method under way: its plan and the data it writes
  stale,      \* the script was last written without regard to the profiles
  budget

vars == <<conf, script, files, ext, over, op, stale, budget>>

NoScript == [is |-> "absent", name |-> "none", set |-> "none"]
Fresh == [current |-> Default, games |-> [n \in {Default} |-> "off"]]
Idle == [todo |-> <<>>, data |-> Fresh]

Init ==
  /\ conf = {} /\ script = NoScript /\ files = {} /\ ext = {}
  /\ over = [a \in Apps |-> {}] /\ op = Idle /\ stale = FALSE
  /\ budget = Budget

Spend == budget > 0 /\ budget' = budget - 1
Ready == op.todo = <<>>
At(s, x) == op.todo # <<>> /\ Head(op.todo) = <<s, x>>
Goes == op' = IF Len(op.todo) = 1 THEN Idle ELSE [op EXCEPT !.todo = Tail(@)]
Stops == op' = Idle /\ Spend
-----------------------------------------------------------------------------
(* The configuration.                                                      *)

\* parse_toml_content_multi_profile(): there is a current profile afterwards.
Parse(c) ==
  IF c.current \in DOMAIN c.games THEN c
  ELSE [current |-> Default,
        games   |-> IF Default \in DOMAIN c.games THEN c.games
                    ELSE [n \in DOMAIN c.games \union {Default} |->
                            IF n = Default THEN "off" ELSE c.games[n]]]

Data == IF conf = {} THEN Fresh ELSE Parse(CHOOSE c \in conf : TRUE)
Has(n) == n \in DOMAIN Data.games

\* The order of the profiles in the file
Before(m, n) ==
  \/ n = "cut" /\ m # "cut"
  \/ \E i, j \in DOMAIN Names : i < j /\ m = Names[i] /\ n = Names[j]

\* What a cut may leave of generate_toml_content_multi_profile()'s text: the
\* current profile's name or not ("lost"), then the first profiles, of which
\* the last may have lost its settings, or a part of the name of the next (which
\* is then unlike the others').
Cuts(c) ==
  LET first == {p \in SUBSET DOMAIN c.games :
                  \A n \in p, m \in DOMAIN c.games : Before(m, n) => m \in p}
      whole(p) == [n \in p |-> c.games[n]]
      bare(p) == [n \in p |-> IF \A m \in p : ~Before(n, m) THEN "off" ELSE c.games[n]]
      next(p) == [n \in p \union {"cut"} |-> IF n \in p THEN c.games[n] ELSE "off"]
      room == {p \in first : p # DOMAIN c.games /\ "cut" \notin DOMAIN c.games}
  IN  {[current |-> "lost", games |-> <<>>]}
      \union {[current |-> c.current, games |-> whole(p)] : p \in first}
      \union {[current |-> c.current, games |-> bare(p)] : p \in first}
      \union {[current |-> c.current, games |-> next(p)] : p \in room}

\* _generate_script_content_for_profile()
Script(d) == [is |-> "whole", name |-> d.current,
              set |-> IF d.current \in DOMAIN d.games THEN d.games[d.current] ELSE "off"]
DefaultScript == [is |-> "whole", name |-> Default, set |-> "off"]
CutScripts(s) == {[s EXCEPT !.is = "cut"], [is |-> "cut", name |-> "none", set |-> "none"]}

WriteConf ==
  /\ At("write", "conf")
  /\ \/ conf' = {op.data} /\ Goes /\ UNCHANGED budget
     \/ \E c \in Cuts(op.data) : conf' = {c} /\ Stops
  /\ stale' = (stale \/ budget' # budget)
  /\ UNCHANGED <<script, files, ext, over>>

\* That the script was not written is only logged.
WriteScript ==
  /\ At("write", "script")
  /\ \/ script' = Script(op.data) /\ stale' = FALSE /\ UNCHANGED budget
     \/ /\ script' \in CutScripts(Script(op.data)) \union {script}
        /\ stale' = TRUE /\ Spend
  /\ Goes
  /\ UNCHANGED <<conf, files, ext, over>>

\* The operations of the configuration's schema, each on a copy of it.
Created(d, n, source) ==
  [d EXCEPT !.games = [m \in DOMAIN @ \union {n} |-> IF m = n THEN @[source] ELSE @[m]]]
Deleted(d, n) ==
  [current |-> IF d.current = n THEN Default ELSE d.current,
   games   |-> [m \in DOMAIN d.games \ {n} |-> d.games[m]]]
Renamed(d, old, new) ==
  [current |-> IF d.current = old THEN new ELSE d.current,
   games   |-> [m \in (DOMAIN d.games \ {old}) \union {new} |->
                  d.games[IF m = new THEN old ELSE m]]]
Chosen(d, n) == [d EXCEPT !.current = n]
\* The settings that the script carries win over those of the current profile.
Shown(d) == IF script.set \in Settings THEN script.set ELSE d.games[d.current]

Begin(data, todo) ==
  /\ Ready
  /\ op' = [todo |-> todo, data |-> data]
  /\ UNCHANGED <<conf, script, files, ext, over, stale, budget>>
Both == <<<<"write", "conf">>, <<"write", "script">>>>

CreateProfile(n, source) ==
  /\ ~Has(n) /\ Has(source)
  /\ Begin(Created(Data, n, source), <<<<"write", "conf">>>>)

\* Faulty variant: the default profile can be deleted like any other.
DeleteAny(n) ==
  /\ Has(n)
  /\ Begin(Deleted(Data, n), Both)

DeleteProfile(n) ==
  /\ Has(n) /\ n # Default
  /\ Begin(Deleted(Data, n), Both)

\* Faulty variant: the script keeps the profile's old name.
RenameOnly(old, new) ==
  /\ Has(old) /\ old # Default /\ ~Has(new)
  /\ Begin(Renamed(Data, old, new), <<<<"write", "conf">>>>)

RenameProfile(old, new) ==
  /\ Has(old) /\ old # Default /\ ~Has(new)
  /\ Begin(Renamed(Data, old, new), Both)

SetCurrentProfile(n) ==
  /\ Has(n)
  /\ Begin(Chosen(Data, n), Both)

\* update_profile_config(): the script only when it is the current profile's.
UpdateProfile(n, set) ==
  /\ Has(n)
  /\ Begin([Data EXCEPT !.games[n] = set],
           IF n = Data.current THEN Both ELSE <<<<"write", "conf">>>>)

\* The panel shows get_config() and saves all of it when any field is edited.
EditOther == UpdateProfile(Data.current, Shown(Data))
-----------------------------------------------------------------------------
(* Installing and removing.                                                *)

\* _merge_config_with_defaults(): the profiles that are there are kept.
Merged(d) == IF DOMAIN d.games = {} THEN Fresh ELSE d

\* The script is the default one.
Install ==
  Begin(Merged(Data), <<<<"put", "lib">>, <<"put", "json">>, <<"write", "conf">>,
                        <<"script", "default">>>>)

PutFile(f) ==
  /\ At("put", f)
  /\ \/ files' = files \union {f} /\ Goes /\ UNCHANGED budget
     \/ Stops /\ UNCHANGED files
  /\ UNCHANGED <<conf, script, ext, over, stale>>

InstallScript ==
  /\ At("script", "default")
  /\ \/ script' = DefaultScript /\ Goes /\ UNCHANGED budget
     \/ script' \in CutScripts(DefaultScript) \union {script} /\ Stops
  /\ stale' = TRUE
  /\ UNCHANGED <<conf, files, ext, over>>

Uninstall ==
  Begin(Data, <<<<"erase", "lib">>, <<"erase", "json">>, <<"erase", "script">>>>)

\* _uninstall(): a file that cannot be removed stays, then two of the
\* extensions go.
DeckyUninstalls ==
  Begin(Data, <<<<"clean", "lib">>, <<"clean", "json">>, <<"clean", "script">>,
                <<"ext", "23.08">>, <<"ext", "24.08">>>>)

RemoveIfExists(f) ==
  IF f = "script" THEN script' = NoScript /\ UNCHANGED files
                  ELSE files' = files \ {f} /\ UNCHANGED script

EraseFile(s, f) ==
  /\ At(s, f)
  /\ \/ RemoveIfExists(f) /\ Goes /\ UNCHANGED budget
     \/ /\ IF s = "clean" THEN Goes /\ Spend ELSE Stops
        /\ UNCHANGED <<files, script>>
  /\ UNCHANGED <<conf, ext, over, stale>>
-----------------------------------------------------------------------------
(* Flatpak.                                                                *)

InstallExtension(v) ==
  /\ Ready
  /\ ext' = ext \union {v}
  /\ UNCHANGED <<conf, script, files, over, op, stale, budget>>

UninstallExtension(v) ==
  /\ \/ Ready /\ UNCHANGED <<op, budget>> /\ ext' = ext \ {v}
     \/ At("ext", v) /\ Goes /\ (\/ ext' = ext \ {v} /\ UNCHANGED budget
                                 \/ Spend /\ UNCHANGED ext)
  /\ UNCHANGED <<conf, script, files, over, stale>>

\* Flatpak cannot be run or reports an error.
CommandFails == Stops

\* set_app_override(): the file systems, then the environment.
SetOverride(a) == Begin(Data, [i \in 1..4 |-> <<Grants[i], a>>])

Grant(g, a) ==
  /\ At(g, a)
  /\ \/ over' = [over EXCEPT ![a] = @ \union {g}] /\ Goes /\ UNCHANGED budget
     \/ CommandFails /\ UNCHANGED over
  /\ UNCHANGED <<conf, script, files, ext, stale>>

\* remove_app_override(): all at once, or one by one, of which each may fail.
RemoveOverride(a) ==
  /\ Ready
  /\ \/ over' = [over EXCEPT ![a] = {}] /\ UNCHANGED budget
     \/ \E rest \in SUBSET over[a] : over' = [over EXCEPT ![a] = rest] /\ Spend
  /\ UNCHANGED <<conf, script, files, ext, op, stale>>

\* The process ends; a write under way is cut off.
Crash ==
  /\ ~Ready /\ Stops
  /\ \/ UNCHANGED <<conf, script>>
     \/ At("write", "conf") /\ (\E c \in Cuts(op.data) : conf' = {c}) /\ UNCHANGED script
     \/ At("write", "script") /\ script' \in CutScripts(Script(op.data)) /\ UNCHANGED conf
     \/ At("script", "default") /\ script' \in CutScripts(DefaultScript) /\ UNCHANGED conf
  /\ stale' = (stale \/ Contains(op.todo, <<"write", "conf">>)
                     \/ Contains(op.todo, <<"write", "script">>)
                     \/ Contains(op.todo, <<"script", "default">>))
  /\ UNCHANGED <<files, ext, over>>

-----------------------------------------------------------------------------
(* What the panel asks for.                                                *)

InstallCalls == Install \/ Uninstall

ProfileCalls ==
  \/ \E n \in Profiles :
       \/ SetCurrentProfile(n) \/ DeleteProfile(n)
       \/ \E set \in Settings : UpdateProfile(n, set)
       \/ \E m \in ToSet(Names) : RenameProfile(n, m) \/ CreateProfile(m, n)
  \/ EditOther

FlatpakCalls ==
  \/ \E v \in Versions : InstallExtension(v) \/ UninstallExtension(v)
  \/ \E a \in Apps : SetOverride(a) \/ RemoveOverride(a)

\* A step of the method under way.
Step ==
  \/ WriteConf \/ WriteScript \/ InstallScript
  \/ \E f \in {"lib", "json", "script"} :
       PutFile(f) \/ \E s \in {"erase", "clean"} : EraseFile(s, f)
  \/ \E a \in Apps, g \in ToSet(Grants) : Grant(g, a)

Next == InstallCalls \/ ProfileCalls \/ FlatpakCalls \/ Step \/ DeckyUninstalls \/ Crash

Spec == Init /\ [][Next]_vars
-----------------------------------------------------------------------------
\* Whatever a cut left of the configuration, and whatever was deleted or
\* renamed, what is read has the default profile and a current one that exists.
DefaultStays == Has(Default) /\ Has(Data.current)

\* Between the methods a launch script that is there starts games under the
\* profile that is current and with its settings, unless it was last written by
\* an installation, or a write of it or of the configuration was cut or failed.
ScriptFollowsProfile == Ready /\ ~stale /\ script.is # "absent" => script = Script(Data)
=============================================================================
