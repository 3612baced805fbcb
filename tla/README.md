# TLA+ models of tb322fc-linux

Specifications of the programs in this repository that keep state on the
device, checked with TLC and, for eight of them, proved with TLAPS. Every
definition is translated from the source; `PROJECT.json` gives, for each one,
the file and the lines it stands for.

- [The system](#the-system)
- [Modules](#modules)
- [What is checked](#what-is-checked)
- [What is proved](#what-is-proved)
- [Where the code and its comments disagree](#where-the-code-and-its-comments-disagree)
- [What is not modelled](#what-is-not-modelled)
- [Plan](#plan)

## The system

The repository packages Linux for the Lenovo Y700 (TB322FC, "elden"): a kernel
with its boot image, device daemons, a Steam session and Decky plugins. Most of
its lines are build recipes and patches. What keeps state and runs concurrently
on the device is this.

| Component | State | Operations | Talks to | What is hard |
|---|---|---|---|---|
| Coordinated kernel update: `tb322fc-update-v2.py`, `freedom_release.py`, `freedom-kernel-update.py`, pacman hooks 60 and 95 | `boot_a` (raw partition), `/usr/lib/modules`, pacman's database, `latest.json`, `installed-release`, read-only flags | download, backup, transaction, build, deploy, verify, record, restore | pacman runs the hook, the updater reads the report it leaves | raw writes in pieces, three processes, signals, power loss, a hook whose failure pacman ignores |
| Android base replacement: `kshim-android-base-replace.py` | base image, `config.json`, `latest.json`, `update.lock` | validate, back up, build, commit, roll back | runs `freedom-kernel-update` as a child that inherits its lock; hooks wait for the lock | two files committed one after the other, orphaned builder, configuration read before the lock |
| Power policy: `armada-powerd` | profile, GPU level and clock, governors, holds, saved limits, `powerd.state`; cpufreq and devfreq limits | set properties, hold, release, reload, suspend, resume | D-Bus clients (SteamOS manager, power-profiles-daemon clients, logind) | five handlers that move the same limits, restarts, clients that die, order of sysfs writes |
| Fan control: `armada-powerd` | smoothed temperature, last PWM, regime; `pwm1` | tick every 3 s, suspend, resume, stop | thermal zones, systemd (`ExecStopPost`) | signals inside a tick, failed writes, lost sensors, rounding |
| Charge daemon: `y700-charged` | `config.json`, grace times, hwdb mirror; three battery nodes | apply, set, adopt, reconcile, uevents | UPower/KDE and the charger's firmware write the same nodes | telling its own writes, resets and the desktop's choice apart by time |
| sched_ext child: `armada-powerd`, `armada_perf.py` | child process, its spec, back-off | enforce per tick | `scx_*` | child exits between ticks |
| Store: `armada-store` | queue, jobs, `state.json`, flatpak cache; in the panel the shortcuts being made and removed | install, replace, uninstall, cancel, add to Steam | Steam's front end, flatpak, downloads | worker hand-off, cancellation, restarts of either side between two steps, answers that come late |
| Frame generation: `decky-lsfg-vk` | runtime files, `conf.toml`, launch wrapper and its state, ownership records; Flatpak's extensions and overrides | install, migrate, profiles, workarounds, prepare and remove an app, uninstall | Flatpak, Steam's launch options, the classic plugin | long sequences of steps that each may fail, undoing and retrying them |
| Frame generation, first version: `decky-lsfg-vk-classic` | `conf.toml` with named profiles, launch script, files, grants | create, rename, delete, choose, edit, install, uninstall | Flatpak | files written in place, two files that must agree |
| RGB: `armada-rgb` | configuration file, LED nodes, watcher | set, off, apply, sleep, wake, watch | several processes, the screen's brightness | no lock between processes |
| Sensors: gyro bridge, hall lid, double press, ALS bridge | client table, last state | relay | UDP clients, uinput | table limits, time-outs |
| Initramfs `init`, image builders, packaging, CI | none across runs | | | sequential |

What makes those that are modelled correct, in one sentence each:

- **Kernel update.** Whatever fails, a device at rest boots; an update that
  says "restored" restored both boot bytes and modules; what is recorded as
  installed is live as a whole.
- **Base replacement.** The base always has the digest the configuration names
  and `latest.json` is a candidate of that base; a build never uses a base
  other than the one its configuration names.
- **Power policy.** The kernel's limits are those of the settings in effect,
  clients know the effective profile, a dead client's hold goes with it, and
  a restart finds the profile, the GPU level and the manual clock.
- **Fan.** However the daemon ends, one write of the safe speed that gets
  through is enough; an attended fan stays in the limits of its regime from
  whatever speed it was found at, and comes to the safe speed without sensors.
- **Charging.** What is stored is what is applied and, while mirroring works,
  what the desktop offers; and the world and the daemon come to agree without losing the user's choice.
- **Store.** Every accepted job ends; who replaces a packaging by another is
  never left without one, nor without a shortcut or the debt of one; a debt is
  served.
- **Frame generation.** Games start with the wrapper that its state describes,
  and the plugin takes itself apart in an order that leaves nothing behind that
  only it could remove.
- **Frame generation, first version.** A cut write loses settings, never the
  default or the current profile, and the script is the current profile's.
- **RGB.** What the screen's brightness becomes reaches the lights that follow
  it, failures or not.

The hazards behind these properties, each at its line, are in `PROJECT.json`.

## Modules

| Module | Stands for | Remarks |
|---|---|---|
| `UpdateContract` | what the updater promises about the boot slot | abstract; no code of its own |
| `KernelUpdate` | updater, pacman, hook | `Contract` instantiates `UpdateContract` |
| `AndroidBase`, `MCAndroidBase` | base replacement and hooks under one lock | |
| `PowerProfiles`, `MCPowerProfiles` | limits, holds, sleep, restarts of `armada-powerd` | two instances for TLC |
| `FanControl`, `MCFanControl` | `fan_tick` and the ends of the daemon | |
| `ChargeDaemon` | `y700-charged` and the other writers of its nodes | |
| `StoreJobs` | the back end of `armada-store` | has no specification of its own |
| `StorePanel`, `MCStorePanel` | the panel over that back end | composes it with `StoreJobs` |
| `LsfgPlugin`, `MCLsfgPlugin` | `decky-lsfg-vk` | |
| `LsfgClassic`, `MCLsfgClassic` | `decky-lsfg-vk-classic` | |
| `RgbLighting` | the commands and the watcher of `armada-rgb` | |
| `KernelUpdateProofs`, `AndroidBaseProofs`, `PowerProfilesProofs`, `FanControlProofs`, `ChargeDaemonProofs`, `StoreProofs`, `LsfgPluginProofs`, `LsfgClassicProofs` | theorems about the module of that name (`StoreProofs`: about `StorePanel`) | |

A definition described as *Faulty variant* in a comment is a plausible mistake
in the code (a dropped guard, a missing reset, an order swapped). It is no part
of the specification; putting it in place of the definition it stands before
makes one of the properties fail, which shows that the property depends on that
code. The pairs are in `PROJECT.json` under `mutants`.

### KernelUpdate

Three processes, each with a program counter: `upd` (`main`, `apply`,
`restore`), `pacman`, and `hook` (`freedom-kernel-update --hook`, that is
`main` and `deploy`). `boot_a` is a row of `NChunks` chunks, because both
programs write it in a loop: each pass is an action (`HookWrite`, `HookUndo`,
`RestoreWrite`). An image is identified with its release, so `Image(r)` is the
complete image and every other content is torn. A module tree is one of
`TreeStates`: `absent`; `bare`, when files are missing and `pkgbase` among them;
`partial`, when files are missing but `pkgbase` can be read; or `complete`.
`Preflight` looks where the code looks, at `pkgbase`, so it accepts a tree that is
`partial`. The four packages are two, the
kernel and the rest, because only a transaction that stops between them is
different from one that stops before or after.

Each action may fail where the code may raise: before the backup
(`BackupFails`), in the transaction (`PacmanFails`), in the hook
(`HookGivesUp`, `HookWriteFails`, `HookUndoEnds`), in the restore
(`RestoreFails`) and after the `try` block (`PersistFails`). `PowerCycle` ends
every process at any point and boots what `boot_a` holds. `Interrupt` is
SIGTERM while pacman runs; the constant `HookSurvives` says whom it reaches.
systemd and a terminal signal the whole group (FALSE), `kill PID` the updater
alone (TRUE).

`outcome`, `damaged` and `leftOpen` are history variables: how the last update
ended, whether a rollback itself failed or power was lost in an update, and
whether a hook was killed while the partition was writable. The code can
promise nothing in the last two cases, and the properties say so.

Left out: a `blockdev --setro` that itself fails in a `finally`, the SIGINT of a
terminal, and any holder of `update.lock` other than the update's own hook
(`AndroidBase` is about that lock).

### AndroidBase

Replacements and hooks as processes over `stock`, `config`, `latest` and
`lock`. `Begin` and `HookBegin` read the configuration *before* the lock
(`seen`), as the code does. The builder is a process of its own (`child`): it
holds the inherited descriptor, so a killed replacement (`Kill`) leaves the
lock to it. `Interrupted` is the `except BaseException` of `build_candidate`,
which waits for the builder before the rollback starts. `torn` remembers that a
replacement was killed or could not roll back.

### PowerProfiles

A handler of the GLib main loop runs to its end, so it is one action; only
`Crash` cuts one short, between two writes to sysfs. The order of the writes
inside a handler is kept: `PutMin` and `PutMax` refuse a value that would cross
the other limit, and go on, as `write_text` does. `Save` may fail before or
after truncating the file. What is saved is `Kept`: profile, level and manual clock.
A governor set through the bus is not among them, as it is not in
`save_state()`; a restart brings back the configured one. The bus keeps the order of one client's messages and
its departure (`queue`).

### FanControl

A tick is two actions, the computation (`Tick`) and the write (`TickWrite`),
because a signal handler may run between. `Target`, `Quantize` and `NextPwm`
are the code's arithmetic, including Python's rounding of halves. The smoothed
temperature is a floating-point weighted mean; its integer part is modelled as
any value between the old one and the reading, which covers every weight.
`Stop`, `StopWrite`, `NameLost`, `Finally`, `Kill`, `StopPost` and `Start` are the
ways the process ends and begins.

The hardware starts at whatever the driver left (`BootPwms`), and the constructor
takes `pwm1` for its last demand, or `min_pwm` when it cannot read it. Every write
may be lost, those of `fan_safe()` and of the process that `ExecStopPost` runs
too (`WriteSafe`): `write_text()` swallows the error and `last_pwm` is set all the
same. Two history variables keep track of it. `lag` counts the ticks whose write
was lost since `pwm1` was `last_pwm`; it is `Apart` when the two have nothing to do
with each other. `missed` says which of the finally clause and `ExecStopPost` did
not run at this end of the daemon, or lost its write. The signal handlers count
as installed from the constructor's tick on.

### ChargeDaemon

`hw` is the battery's nodes, `by` (history) who answers for each value. The
daemon's main thread and the control socket's clients interleave at the lock;
saving and applying are two steps (`ClientSaves`/`ClientApplies`,
`AdoptExternal`/`AdoptApplies`). Time passes in `Tick`, four seconds each; the
grace times and the reconcile interval are in ticks. `SupplyChanges`,
`FirmwareResets`, `DesktopWrites` and `BatteryRegisters` are the world; each of
them that changes the nodes does it through `Foist`. A uevent is queued by
`Emitted` unless one of its kind waits already: the handler reads the nodes as
they are when it runs, so the second would find nothing new.

`mirror_hwdb()` has three variables. `mirror` is the limit in the local hwdb's
text (`NoText` when the text is cut short or is not the daemon's), `offered` what
UPower offers, and `behind` (history) that a mirroring failed since one last
succeeded. `Mirror` does nothing when the text is the wanted one already, as the
code does, and otherwise writes it and refreshes UPower, which brings uevents of
its own (`Triggered`). `MirrorFails` is an `OSError`, a step that ends badly
without anyone looking, or a kill: the text is not opened, or cut short, or
written with UPower left as it was. The packaged text has the same limits and
other comments, so the first start rewrites it.

### StoreJobs and StorePanel

The worker thread holds one job (`worker`) and goes through the steps of its
action (`step`): `Begin`, `Publish`, `Record`, `Owe`, `RemoveConflict` and so
on, each of which may fail or find the cancellation flag where the code does.
An uninstallation is one action for each kind (`EraseFlatpak`, `EraseAppimage`,
`ErasePlugin`). The hand-off of the thread is kept: popping a job (`Take`) and
changing its phase (`Begin`) are two steps. The cache of `flatpak list` is filled in two steps, the
reading (`ReadFlatpaks`) and the stamp (`Stamp`), because an invalidation may
fall between; a listing may come back empty, since the code does not look at the
command's exit status. `StorePanel` adds the front end: a status read by
`PollReads` is acted upon later (`PollEnds`), the calls it makes
(`RecordShortcut`, `DropOldShortcut`) end in any order, either side may restart,
and the user may use the menu meanwhile. `tried` (history) holds the apps of
which an add was begun since the last status, or start of the front end,
without a debt of theirs: an attempt that belongs to the debt there is, as far
as the panel can tell. `attempted` is the code's own memory of it. Two things are coarser
than the code: `PollReads` takes jobs, installed apps, shortcuts and debts
at once, where `get_status()` reads them one after the other, and apps that the
system's package manager owns, which the store neither installs nor removes, are left
out.

### LsfgPlugin

The plugin's methods do not overlap, so its state is one plan (`op.todo`): the
list of steps the method under way will still take, each an action that may
fail (`Fails`) or be the last before the process dies (`Crash`). `op.undo` is
what the code undoes on an exception, and a *gate* is the place where the
clean-up raises the errors it collected. Meanwhile the user, the system and the
classic plugin change extensions and overrides. `sidecar` and `wrapper` are the
pair of files that belong together, and `Follows(s, w)` says that they do: the
wrapper is the plugin's and has the workarounds of the state, as they are or as
the reader of an older version takes them (`Migrated`). `torn` is a history variable: a write of the pair
failed, and there was nothing to put back (the repair at the start) or what is
put back did not belong together either (`Tears`). The plan for several apps or
branches has two steps for each of them, in some order (`Both`); where failures
are collected, one that fails at the first leaves out the second (`Rest`). The last
listing of an extension's removal failing after the branch was disowned is left out.

### LsfgClassic

The same plans, but the files are written in place: `WriteConf` may leave any
beginning of the new text (`Cuts`), and `Parse` is what the reader makes of it,
its repairs included. A profile is the value of one setting that the script
carries too. Two writes cut at the same byte of a name, one after the other, are
left out. `stale` (history) says that the script was last written by an
installation, or a write of one of the two files was cut.

### RgbLighting

A command is a process with a program counter: read the configuration, read the
screen (`Link`), open the targets, write them one by one, and save through
`rgb.tmp`. That file is one for all: `fd` is what a process that opened it would
write to after another renamed it; of two writes that overlap in one file, one
wins as a whole (`Fill`). `Writes` gives each of the four backends its
order of writes. The watcher is a command that starts by itself.

## What is checked

| Run | Configuration | Question |
|---|---|---|
| `kernel_update` | `MCKernelUpdate.cfg` | is an update all or nothing? |
| `kernel_update_orphan` | `MCKernelUpdateOrphan.cfg` | and when the hook survives the signal? (no) |
| `power_limits` | `MCPowerProfiles.cfg` | do the limits follow the settings? |
| `power_holds` | `MCPowerHolds.cfg` | do limits and announcements follow the holds? |
| `fan` | `MCFanControl.cfg` | is the fan where it should be, and does it get there without sensors? |
| `android_base` | `MCAndroidBase.cfg` | do base, digest and pointer agree? |
| `charge` | `MCChargeDaemon.cfg` | do daemon and hardware agree? |
| `charge_reset` | `MCChargeReset.cfg` | is a reset never taken for a choice? (it is) |
| `store` | `MCStorePanel.cfg` | do jobs end, and are replacements safe? |
| `lsfg` | `MCLsfgPlugin.cfg` | does the plugin leave anything behind? |
| `lsfg_classic` | `MCLsfgClassic.cfg` | what is left after a cut write? |
| `rgb` | `MCRgbLighting.cfg` | do the lights follow the screen? |

**kernel_update.** 515 000 states. `BootableAtRest`, `RestoredMeansPrevious`
and `ProtectedAtRest` are the promises to the owner of the device;
`RecordsOnlyLiveSets` is checked on the step that records; `UpdateEnds` says no
process waits for ever. `ImplementsContract` is the refinement: with
`active` the release `boot_a` held at the last moment of rest, every step of
the three processes is a step of `UpdateContract` or changes nothing it sees.
Three releases, so that an update can follow a failed one from a release that
is neither the first nor the newest; two chunks, the least number that allows a
torn partition. Among the states are updates that begin on a `partial` tree, left by
a restore cut short or by a power loss, fail, and are rolled back.
`RestoredMeansPrevious` says what the report is worth there: `boot_a` and the
running kernel's modules are what they were at the backup, or whole, and they
are whole unless the device was damaged before.

**android_base.** 14 000 states. Two replacements with different images and one
hook: enough for a replacement to commit between a waiter's reading and its
lock, and for a second to start after one that failed. `FailedMeansOriginal`
is checked on the step that writes `failed_original_restored`.

**power_limits.** 133 000 states. Three CPU and two GPU frequencies with the
profiles' targets on, between and above them; a manual clock that has to be
rounded; two governors; no clients. `CpuFollowsProfile` and `GpuFollowsLevel`
hold outside the daemon's suspended mode, whatever happened inside it.
`SettingsSurviveRestart` is about profile, GPU level and manual clock, and makes an
exception only for a failed save. It does not speak of the governor: the code stores
none, and no comment or doc promises that one survives a restart (the comment at
`armada-powerd:1011` promises resume and profile switches only).

**power_holds.** 200 000 states. Two clients, two cookies in one life of the
daemon, two messages in flight: a client may hold twice, or die with a hold
still queued. The GPU has one frequency here, because holds move it as they
move the CPU.

**fan.** 116 000 states. Temperatures 0 to 4, speeds to 10, a ramp that needs several
ticks up and more down, a quantum of 3, and two curves, one of which has two
points at one temperature: of these only one can count, so `TargetFollowsCurve`
is about the points that share their temperature with no other. At boot `pwm1` is
0, 4 or 12: off, within the limits, above them. `FanSafePwm` is between
the limits of `[fan]`; `fan_low_pwm` is below them, so that the two regimes can
be told apart (in the shipped configuration it equals `min_pwm`). `RampBounded` is
about `pwm1`: an awake tick moves a fan that is within the limits by one ramp, and by
one more for each write lost just before, since the demand runs on while the fan
stays; one loss before it is followed (`MaxLag`; any number of them in the proof). `UnattendedIsSafe` asks for
the safe speed after every end that was not a kill, before `ExecStopPost` runs,
unless the finally clause lost its write; and once the unit is down, if one of the
two writes got through. `BlindFanIsSafe` adds the fairness: a fan whose
sensors stay unreadable comes to the safe speed over failed ticks, lost writes and
restarts.

**charge.** 574 000 states. The world may act three times (`Budget`): any
three requests, supply changes, resets, desktop writes, failed writes or
crashes, in any order and at any time. Three are the fewest that allow a
request, a reset and a transition of the supply in one behaviour. The grace
times keep their ratio to each other and to the interval (1, 2 and 4 ticks of
four seconds; 15 s are rounded up). A client asks for one threshold, under the
least allowed, so that it is clamped; the desktop writes one of two.
`AppliedIsStored` holds the nodes to the stored configuration, and UPower's limits
unless a mirroring failed since one last succeeded (`behind`): the code never
repairs that one, see below.

**store.** 556 000 states. An app of either sort, with or without its rival
packaging installed, beside a Decky plugin, and three of: requests,
cancellations, failures, restarts, user's actions (`Budget`). That is enough for
a replacement that fails or restarts and is asked for again, and for a second
job to be started while the worker hands off. `JobsOK` relates list, queue and
worker; `ReplacementOwed` is checked on the step that removes the old
packaging; `JobsEnd` and `PendingServed` are about what must happen. `PendingServed`
is about each debt that the panel can tell from the one before it: an attempt
remembered from an earlier install, refused or paid, must not stand in its way.

**lsfg.** 5 990 000 states. One game, two apps on one branch of the runtime, so
that an extension is shared, and two failures, crashes or actions of others:
a method that fails and whose undoing fails, or one that fails, is retried and
dies. The plugin's own methods are not bounded. The initial states are a first
installation and one left by older versions (state format, configuration,
a foreign wrapper). Deadlock is checked.

**lsfg_classic.** 1 790 000 states. The default profile and two others, so that
one that is not the current one can be renamed or deleted and the order of the
file matters; one app; one failure or crash, whose remains every later method
may read. Deadlock is checked.

**rgb.** 1 930 000 states. Two users, two looks, two brightnesses, all four
backends, and three commands, kills, failures or changes of the screen: enough
for two writers of the temporary file and a kill, and for a failed application
that has to be tried again.

In the other runs deadlock is not checked: those systems rest when nothing is
asked of them, and in the bounded models the world may run out of things to do.

**Fairness.** The updater, pacman, the hook and a replacement go on as long as
they can (weak fairness per process): they are sequential programs that wait
only for their child and for `flock`. A waiter for a lock that others keep
taking gets it in the end (strong fairness on `Lock` and `HookLock`): the
kernel queues waiters. `armada-powerd`'s main loop dispatches what arrived. The
fan's timer fires, systemd runs `ExecStopPost` and restarts the unit
(`Restart=always`), and a write of `pwm1` that fails now and then does not fail
for ever (strong fairness on `TickWrite`); a fan whose driver refuses every
write is out of the daemon's hands. In `ChargeDaemon` the main thread gets the
lock sooner or later though clients take it too (strong), and time passes. In
`StorePanel` the worker thread and the listing of flatpaks go on, the user looks
at the panel again, and calls are answered; what a restart cut off is not. In
`RgbLighting` the watcher's loop and the steps of its own commands go on. The
two frame generation plugins have safety properties only, and no fairness. No
fairness is assumed of users, firmware or failures.

## What is proved

For all values of the constants that satisfy the modules' `ASSUME`s.

**KernelUpdateProofs.** `TypeCorrect`: `Spec => []TypeOK`, with no further
assumption. `Invariance`: under `~HookSurvives`, `Spec => []IInv`. `BootableAtRest` is not
inductive: that the device boots after a rollback depends on what the backup
holds, which depends on the state the update started in. `IInv` adds, in named
parts,

- `Nesting`: a hook runs only under a waiting pacman, pacman only under the
  updater, so during a restore nobody else writes `boot_a` (this is what a
  surviving hook breaks);
- `RestPart`: at rest the device boots, and when an update may start, what
  boots is the running kernel;
- `StartPart`, `BackupPart`: the backup is the complete image of the kernel the
  update came from;
- `ModulesPart`, `RestoredPart`: how far the restore is;
- `LivePart`: after the verification and until the record, the new set is live.

`DeviceBootable`, `RollbackRestores` and `RecordsLive` follow: the three
properties for any number of releases and chunks, updates that begin on a tree
with files missing included. The proof has one step per
action. `RestProtected` (`ProtectedAtRest`) adds `FlagPart`: the flag is off only
between the unlocking and the locking of the one process that may be there.
`ContractKept` is the refinement: initial states map to initial states, and
every step, taken from `IInv`, is a step of `Contract` or a stutter. `Start`,
`PowerCycle` and the ends of an update map to steps of the contract; the others
change nothing it sees. All but `TypeCorrect`
assume `~HookSurvives`, and `kernel_update_orphan` shows that they must.

**FanControlProofs.** `Inv` is `TypeOK`, `RegimeLimits`, `UnattendedIsSafe`,
`PendingPart` (a tick writes what it demands) and `RampPart`, and it is inductive
once it is known what the arithmetic yields: `ClampType`, `QuantizeType`,
`TargetType` and `NextPwmType` show that for every non-empty sorted curve, quantum
and temperature the result is an integer within the limits (`Segment` finds the
part of the curve a temperature falls in). `TypeCorrect`, `RegimesKept` and
`UnattendedFan` are its parts. `RampKept` needs `RampPart`: after `k` lost writes
the demand is within `k` ramps of `pwm1` (`Reach`), which every tick extends by
one (`RampOfNextPwm`, `ReachOn`) and every write that gets through resets. `CurveFollowed` is
`TargetFollowsCurve` for every curve, quantum and limit. `TargetIs` brings
`target_pwm()` down to three branches: the test for a segment without width is
never needed, nor is what follows the loop. `QuantizeNear` says that what is
exact comes out within half a quantum (`PointNear` applies it at each point of
the curve), and `QuantizeMonotone` that of two fractions with *different*
divisors the greater never comes out lower; with halves rounded to even this
needs that two neighbours are not both even (`RoundDivMonotone`). Across the
segments, `TargetRises` compares both with the points between them.

**AndroidBaseProofs.** The lock alone does not make base and digest agree:
`Stage(r)` says, program counter by program counter, which of the three files
replacement `r` has already changed and that what it kept is consistent;
`FreePart` that nobody else makes them differ, and `HookPart` that a hook builds
from what it read. `TypeCorrect` (which holds mutual exclusion), `ConfigMatches`,
`LatestMatches`, `OriginalRestored` and `BuildsConfigured` follow, for any sets
of replacements, hooks and images.

**PowerProfilesProofs.** First lemmas about choosing a frequency (`AtMostIn`,
`ClosestIn`), by well-founded induction on the naturals, and about `PutMin` and
`PutMax`: applied in the code's order they bring *any* valid limits to the wanted
ones, although each alone may be refused. Then four invariants: `SettingsPart`
(a manual clock is a frequency of the table, in the file too) gives
`SettingsSurvive`; `ToldPart` gives `Announced`; `LimitsPart` (the limits saved
for suspend are valid as well) gives `CpuFollows` and `GpuFollows`; `OwnersPart`
(in the queue, what a client asked for comes before the news of its death) gives
`OwnersKnown`. `TypeCorrect` adds three: `CookiesPart` (the next cookie plus the
requests for one that wait in the queue keep to the bound; without the second
term it is not inductive), `ValuesPart` (the clock is one that was asked for or
a frequency of the GPU, in the file too), and `SoundPart` (the lower limit never
passes the upper one, though each is written alone and a kill may come between).
Assumed are positive frequencies in tables with a greatest
element, and a configured governor for each profile.

**ChargeDaemonProofs.** `AppliedStored` and `ThresholdStays` for every threshold
and grace time. `NodesPart` says that a node the firmware answers for holds its
reset value: so of the firmware only the end threshold 100 can be adopted, and
that keeps the stored one. It also says that the nodes hold values the driver
leaves as they are, so that applying a configuration twice changes nothing.
`MirrorPart` is about the mirror: unless a mirroring failed since, the text is not
the daemon's yet or UPower offers what it says; and no limit is `NoText`
(`LimitIsText`), so such a text is always rewritten.
`TypeCorrect` gives every variable its type.

**StoreProofs.** `ReplacementSafe` rests on what the worker's step says of the
disk and the debts: after the publication the new packaging is there
(`InstalledPart`), from `Owe` on the shortcut is owed (`OwedPart`), and what the
panel does meanwhile does not pay a debt with a shortcut to the rival
(`AddedPart`). `JobsAgree`: `JobsOK` with the types of its variables is
inductive; the work is in what removing from the middle of the queue keeps
(`RemoveAtFacts`). Assumed: no app is called `idle` or `gone`.

**LsfgPluginProofs.** `Invariance`: `Spec => []IInv`. `TypePart` gives the
variables their types, and says of the method under way what may stand in its
plan and in what it would undo (`Undoing`, `Acting`, `Late`). `PlanPart` says
where a method can be. It is in the work itself (`InMethod`), undoing it
(`InUndoing`), at one of the two writes of the pair (`InPair`, `InHalf`),
putting the pair back (`InRestore`, `InRestored`), repairing it at the start
(`InRepair`), or in a clean-up (`InCleanup`, `IsLeaving`): and each of these
comes with what is true there, for instance that between the two writes what
would be put back belongs together. The plan of a clean-up has a fixed end,
`AppEnd` (the apps, a gate, then `BranchEnd`: the branches, a gate, then the
profiles, the pair and the files), so what is still in front tells what is
already taken down: each app that is not in the plan any more is not prepared.
A gate is what makes this hold when a step failed. `WrapperFollows`
(`WrapperFollowsState`) and `TakenDownInOrder` (`TeardownOrder`) follow, the
latter action by action. Assumed: finitely many apps and branches, and that the
names of games and apps and those of apps and branches differ, as do apps and
branches from the four words the model uses in steps about all of them: ids of
Flatpak's apps and branches of the runtime have a dot.

**LsfgClassicProofs.** `DefaultProfile` and `ScriptCurrent`, for every list of
profile names and any budget. `FilePart` says that every beginning of a file in
order is one the reader repairs (`CutsWritten`, `ParseSound`); `OpPart` which
plans there are; `ScriptPart` that the script agrees with the configuration
except where the plan under way is still to write one of them. Assumed: names
differ from each other and from the two words the model uses for a name that
was cut off.

Only model-checked: everything with fairness (`UpdateEnds`, `EverybodyEnds`,
`DeadHoldsDropped`, `BlindFanIsSafe`, `BypassHealed`, `Converges`, `JobsEnd`,
`PendingServed`, `WatcherCatchesUp`), which is out of the prover's reach. Every
safety property of a passing run is a theorem.

## Where the code and its comments disagree

**An interrupted update may still deploy (`kernel_update_orphan`).** SIGTERM to
the updater alone makes `subprocess.run` kill pacman, not the hook that pacman
started. `restore()` takes no lock, so the orphan may write its image after
`restore()` read `boot_a` back. The updater has then printed "previous boot and
modules restored" (`tb322fc-update-v2.py:296`).

**A reset on unplug is adopted in the end (`charge_reset`).** The comment at
`y700-charged:362` says adoption is suppressed "so the resulting reset is not
read as an external change". Going offline re-applies nothing, so after the
grace time `reconcile()` finds the reset value and stores that protection is
off. `ThresholdKept` shows that at least the threshold survives.

**A mirror that failed half-way stays wrong.** The comment at
`y700-charged:175` says that "mirroring the configured value keeps KDE's control
consistent with the UI". `mirror_hwdb()` writes the text first, then refreshes the
database and UPower without looking at how that ends, and the next call returns as
soon as the text is the wanted one (`y700-charged:194`). The model has the behaviour:
a client changes the limits, the refresh fails, the daemon is restarted with nothing
failing, and UPower still offers the limits of before. `AppliedIsStored` exempts
it by `behind`; no run is about it alone.

**A second debt may not be tried for.** The comment at `Content.tsx:154` says
that "a later install or replacement gets a fresh attempt". An attempt is
forgotten only by a status that finds the app off the pending list, and a panel
that is closed, or slower than the worker, may not see one. The model has the
behaviour: install, attempt, shortcut recorded, removed in the menu, installed
again, all between two statuses, and the second debt is not tried for. One
replacement is enough: the debt its record makes (`jobs.py:217`) is tried for and
paid before the one it makes by force (`jobs.py:151`); the shortcut just recorded is
dropped (`Content.tsx:159`) and the add is skipped (`Content.tsx:168`).
`PendingServed` promises an attempt only for debts with such a status, or a start
of the front end, between them; no run is about the others.

Other things the models show, for which the source promises nothing, so that no
property is about them:

- `armada-powerd`: cookies restart at 1 with the daemon, so one kept from before
  releases another client's hold; a profile change in the suspended mode lifts
  its limits; a governor set through the bus is lost at a restart.
- `tb322fc-update-v2.py` rewrites `/etc/pacman.conf` in place.
- `armada-store`: a process that ends between installing an AppImage and
  recording it leaves a file the state does not know; a failed `flatpak list`
  reads as nothing installed, so a conflict stays; an uninstallation clears the
  debt of a shortcut first and may then be cancelled.
- `decky-lsfg-vk`: an override that was applied but not recorded stays; a branch
  once verified is not looked at again; an extension the user had becomes the
  plugin's; dropping the profiles needs the runtime's tool, so an uninstallation
  that lost it stops there; `repair()` ignores a state without games.
- `decky-lsfg-vk-classic`: after a reinstallation beside kept profiles the next
  edit saves the default script's settings into the current profile; the
  extension for 25.08 stays; grants that fail half-way stay.
- `armada-rgb`: a screen that goes from one brightness to another and back
  between two polls leaves the lights at the second; the watcher may light up
  lights that `off` has just darkened; two writers of `rgb.tmp` can put a
  truncated file in place, which a kill makes last.

## What is not modelled

- The sched_ext child, the sensors and the double press: planned, see below.
- The image builders, the signer and `validate_image` as computations: they
  succeed or fail. Cryptography and file formats are not the models' subject.
- The ALS bridge and the InputPlumber driver relay values and keep next to no
  state. The initramfs is sequential; its effect on the flags is in
  `PowerCycle`.
- Session glue, polkit helpers, patches, packaging, CI and the openSUSE build.
- In the store: versions and updates, progress and the desktop entries. In the
  frame generation plugins: the path of the DLL, unreadable files (which every
  method refuses), and the panel. In `armada-rgb`: color arithmetic.
- In the other modelled components: contents of `pacman.conf`, IRQ affinity, property
  reads, log messages, parsing of configuration files, and the udev
  rules between the hwdb and UPower.

## Plan

Done, in this order: `KernelUpdate` with `UpdateContract`, `PowerProfiles`,
`FanControl`, `AndroidBase`, `ChargeDaemon`, `StoreJobs` with `StorePanel`,
`LsfgPlugin`, `LsfgClassic`, `RgbLighting`, and the proofs about all of these
but `RgbLighting`, whose property is one of liveness.

Next modules, most important first:

1. `SchedExt`: child, spec and back-off against exits at any time; never two
   children, never a stale one.
2. `GyroClients`, `HallLid`: table limit and expiry; last state against failed
   emits.

Next compositions: `PowerProfiles` with the `suspended` flag of `FanControl`,
for what happens when limits are lifted in the suspended mode; `AndroidBase`
with `KernelUpdate`'s hook, which share `update.lock`.

Next proofs: of `RgbLighting`, what of `WatcherCatchesUp` is safety: that a
watcher that rests has applied the last screen it read; of `FanControl`, that a
blind fan's ramp comes nearer to the safe speed with each tick, the step behind
`BlindFanIsSafe`.
