---------------------------- MODULE PowerProfiles ----------------------------
(***************************************************************************)
(* armada-powerd as the owner of the CPU and GPU frequency limits: the     *)
(* user's profile, the profile holds of other D-Bus clients, the manual    *)
(* GPU clock, suspend and resume, the state file and the daemon's own      *)
(* restarts.  Fan control is in FanControl; the sched_ext child is left    *)
(* out.                                                                    *)
(*                                                                         *)
(* Simplifications.  One cpufreq policy stands for all of them, and every  *)
(* governor the configuration names is available.  A handler runs to its   *)
(* end in the GLib main loop before the next starts, so a handler is one   *)
(* action; only a kill can end it half way (Crash).  A sysfs write that    *)
(* would cross the other limit is refused, which the order of the writes   *)
(* in the code presumes, and write_text() goes on after a refusal.         *)
(***************************************************************************)
EXTENDS Integers, Sequences, FiniteSets

CONSTANTS
  CpuFreqs,     \* scaling_available_frequencies
  GpuFreqs,     \* available_frequencies of the GPU, in MHz
  CpuTarget,    \* profile |-> the frequency its cpu_max works out to
  GpuMinTarget, \* profile |-> the frequency its gpu_min works out to
  GpuMaxTarget, \* profile |-> the frequency its gpu_max works out to
  Clocks,       \* the ManualGpuClock values clients ask for, 0 among them
  Governors,    \* available CPU governors
  Configured,   \* profile |-> its cpu_governor in the configuration file
  Clients,      \* D-Bus clients that take holds
  SaveFails,    \* whether the state file may fail to be written
  MaxCookie,    \* bound: holds taken in one life of the daemon
  MaxQueue      \* bound: messages of the clients not yet dispatched

Profiles     == {"eco", "balanced", "performance"}
PpdProfiles  == {"power-saver", "balanced", "performance"}
Default      == "balanced"
Levels       == {"auto", "manual"}
GpuGovernors == {"simple_ondemand", "userspace"}

ASSUME PowerAssumption ==
  /\ CpuFreqs \subseteq Nat \ {0} /\ \E f \in CpuFreqs : \A g \in CpuFreqs : g <= f
  /\ GpuFreqs \subseteq Nat \ {0} /\ \E f \in GpuFreqs : \A g \in GpuFreqs : g <= f
  /\ Clocks \subseteq Nat
  /\ CpuTarget \in [Profiles -> Nat]
  /\ GpuMinTarget \in [Profiles -> Nat]
  /\ GpuMaxTarget \in [Profiles -> Nat]
  /\ Configured \in [Profiles -> Governors]
  /\ SaveFails \in BOOLEAN
  /\ MaxCookie \in Nat /\ MaxQueue \in Nat

Lowest(freqs)  == CHOOSE f \in freqs : \A g \in freqs : f <= g
Highest(freqs) == CHOOSE f \in freqs : \A g \in freqs : g <= f

\* choose_at_most(), choose_at_least(), closest()
AtMost(freqs, target) ==
  LET below == {f \in freqs : f <= target}
  IN  IF below = {} THEN Lowest(freqs) ELSE Highest(below)
AtLeast(freqs, target) ==
  LET above == {f \in freqs : f >= target}
  IN  IF above = {} THEN Highest(freqs) ELSE Lowest(above)
Distance(a, b) == IF a < b THEN b - a ELSE a - b
Closest(freqs, target) ==
  Lowest({f \in freqs : \A g \in freqs : Distance(f, target) <= Distance(g, target)})

VARIABLES
  up,         \* the daemon runs and owns its bus names
  profile,    \* self.profile
  level,      \* self.gpu_level
  clock,      \* self.manual_gpu_clock
  governor,   \* profile |-> cpu_governor of profile_config
  holds,      \* self.profile_holds
  nextCookie, \* self.next_hold_cookie
  saved,      \* self.suspend_save: the limits to come back to, or NoLimits
  suspended,  \* self.suspended
  cpu, gpu,   \* what the kernel holds: lower and upper limit, governor
  file,       \* powerd.state, or NoFile when it is absent or truncated
  announced,  \* ActiveProfile as clients were last told
  alive,      \* clients connected to the bus
  told,       \* client |-> the last cookie it was given, 0 for none
  queue,      \* their messages to the daemon, in bus order
  asked,      \* history: profile, level and clock as the last handler that set
              \* one of them left them, in whichever life of the daemon
  unsaved,    \* history: a save_state() failed, or was cut short, since the
              \* last that succeeded
  unsaid      \* history: a profile was set whose announcement never came
              \* because save_state() raised before it

settings == <<profile, level, clock, governor, asked>>
limits   == <<cpu, gpu>>
bus      == <<alive, told, queue>>
vars == <<up, profile, level, clock, governor, holds, nextCookie, saved,
          suspended, cpu, gpu, file, announced, alive, told, queue, asked,
          unsaved, unsaid>>

NoFile   == [profile |-> Default, level |-> "auto", clock |-> 0]
NoLimits == [cpu |-> [min |-> 0, max |-> 0, gov |-> "none"],
             gpu |-> [min |-> 0, max |-> 0, gov |-> "none"]]

\* The settings that save_state() stores; a governor set through the bus is not
\* one of them.
Kept == [profile |-> profile, level |-> level, clock |-> clock]

\* effective_profile(): holds first, power-saver before performance.
EffectiveOf(hs, p) ==
  LET wanted == {h.profile : h \in hs}
  IN  IF "power-saver" \in wanted THEN "eco"
      ELSE IF "performance" \in wanted THEN "performance"
      ELSE p
Effective == EffectiveOf(holds, profile)
-----------------------------------------------------------------------------
(* Writes to sysfs.                                                        *)

PutMin(l, f) == IF f <= l.max THEN [l EXCEPT !.min = f] ELSE l
PutMax(l, f) == IF f >= l.min THEN [l EXCEPT !.max = f] ELSE l
PutGov(l, g) == [l EXCEPT !.gov = g]

\* The loop body of apply_profile(), for effective profile p.
CpuFor(l, p, gov) ==
  PutMax(PutMin(PutGov(l, gov[p]), Lowest(CpuFreqs)),
         AtMost(CpuFreqs, CpuTarget[p]))

\* resolved_gpu_auto_limits()
AutoMax(p) == AtMost(GpuFreqs, GpuMaxTarget[p])
AutoMin(p) ==
  LET min == IF GpuMinTarget[p] = 0 THEN Lowest(GpuFreqs)
             ELSE AtLeast(GpuFreqs, GpuMinTarget[p])
  IN  IF min <= AutoMax(p) THEN min ELSE AutoMax(p)

\* apply_gpu_auto()
GpuAuto(l, p) ==
  PutMin(PutMax(PutMin(PutGov(l, "simple_ondemand"), Lowest(GpuFreqs)),
                AutoMax(p)),
         AutoMin(p))

\* Faulty variant: the clock asked for is written, not the nearest frequency.
GpuManualAsked(l, mhz) ==
  PutMin(PutMax(PutGov(PutMin(l, Lowest(GpuFreqs)), "userspace"), mhz), mhz)

\* set_gpu_manual_clock()
GpuManual(l, mhz) ==
  LET f == Closest(GpuFreqs, mhz)
  IN  PutMin(PutMax(PutGov(PutMin(l, Lowest(GpuFreqs)), "userspace"), f), f)

\* The part of apply_profile() on the GPU: nothing when the level is manual.
GpuApplied(l, lv, p) == IF lv = "auto" THEN GpuAuto(l, p) ELSE l

\* apply_profile(), then the manual clock again, as resume(), Reload,
\* PrepareForSleep and __init__ do.  (The clock is already rounded.)
GpuReapplied(l, lv, mhz, p) ==
  IF lv = "auto" THEN GpuAuto(l, p)
  ELSE IF mhz # 0 THEN GpuManual(l, mhz) ELSE l

\* resume()'s first half: the limits go back to what suspend() had read.
Put(l, s, freqs) == PutMin(PutMax(PutMin(l, Lowest(freqs)), s.max), s.min)

\* save_state(): succeeds, raises before it opens the file, or truncates it
\* and writes nothing.
Save(p, lv, mhz) ==
  \/ file' = [profile |-> p, level |-> lv, clock |-> mhz] /\ unsaved' = FALSE
  \/ SaveFails /\ file' \in {file, NoFile} /\ unsaved' = TRUE

\* emit_ppd_properties()
Tell(p) == announced' = p /\ unsaid' = FALSE

\* The announcement that follows save_state() in the same handler.
Announce(p) ==
  IF unsaved' THEN unsaid' = TRUE /\ UNCHANGED announced ELSE Tell(p)
-----------------------------------------------------------------------------
CpuAny == [min |-> Lowest(CpuFreqs), max |-> Highest(CpuFreqs),
           gov |-> Configured[Default]]
GpuAny == [min |-> Lowest(GpuFreqs), max |-> Highest(GpuFreqs),
           gov |-> "simple_ondemand"]

\* The device has booted; the daemon has not started yet.
Init ==
  /\ up = FALSE
  /\ profile = Default /\ level = "auto" /\ clock = 0
  /\ governor = Configured
  /\ holds = {} /\ nextCookie = 1
  /\ saved = NoLimits /\ suspended = FALSE
  /\ cpu = CpuAny /\ gpu = GpuAny
  /\ file = NoFile
  /\ announced = Default
  /\ alive = Clients /\ told = [c \in Clients |-> 0] /\ queue = <<>>
  /\ asked = NoFile
  /\ unsaved = FALSE /\ unsaid = FALSE

\* __init__(): the configuration, then the state file, then everything applied.
StartDaemon ==
  /\ ~up
  /\ up' = TRUE
  /\ profile' = file.profile /\ level' = file.level /\ clock' = file.clock
  /\ cpu' = CpuFor(cpu, file.profile, governor)
  /\ gpu' = GpuReapplied(gpu, file.level, file.clock, file.profile)
  /\ Tell(file.profile)
  /\ UNCHANGED <<governor, holds, nextCookie, saved, suspended, file, bus,
                 asked, unsaved>>

\* The process is killed, perhaps between two writes of a handler; systemd
\* will start it again.  Nothing of its memory survives.
Crash ==
  /\ up
  /\ up' = FALSE
  /\ profile' = Default /\ level' = "auto" /\ clock' = 0
  /\ governor' = Configured
  /\ holds' = {} /\ nextCookie' = 1
  /\ saved' = NoLimits /\ suspended' = FALSE
  /\ Tell(Default)
  /\ cpu' \in {cpu, PutMin(cpu, Lowest(CpuFreqs))}
  /\ gpu' \in {gpu, PutMin(gpu, Lowest(GpuFreqs))}
  /\ queue' = <<>>
  /\ UNCHANGED <<file, alive, told, asked, unsaved>>
-----------------------------------------------------------------------------
(* The clients.                                                            *)

ClientHolds(c, p) ==
  /\ up /\ c \in alive
  /\ Len(queue) < MaxQueue
  /\ nextCookie + Cardinality({i \in 1 .. Len(queue) : queue[i].type = "hold"})
       <= MaxCookie
  /\ queue' = Append(queue, [type |-> "hold", sender |-> c, profile |-> p,
                             cookie |-> 0])
  /\ UNCHANGED <<up, settings, holds, nextCookie, saved, suspended, limits,
                 file, announced, unsaid, alive, told, unsaved>>

ClientReleases(c) ==
  /\ up /\ c \in alive
  /\ told[c] # 0
  /\ Len(queue) < MaxQueue
  /\ queue' = Append(queue, [type |-> "release", sender |-> c,
                             profile |-> Default, cookie |-> told[c]])
  /\ told' = [told EXCEPT ![c] = 0]
  /\ UNCHANGED <<up, settings, holds, nextCookie, saved, suspended, limits,
                 file, announced, unsaid, alive, unsaved>>

\* The bus tells of a vanished name after it delivered that client's messages.
\* Without a daemon nobody is told.
ClientExits(c) ==
  /\ c \in alive
  /\ Len(queue) < MaxQueue
  /\ alive' = alive \ {c}
  /\ told' = [told EXCEPT ![c] = 0]
  /\ queue' = IF up THEN Append(queue, [type |-> "gone", sender |-> c,
                                        profile |-> Default, cookie |-> 0])
              ELSE queue
  /\ UNCHANGED <<up, settings, holds, nextCookie, saved, suspended, limits,
                 file, announced, unsaid, unsaved>>

Dispatch(type) ==
  /\ up /\ queue # <<>>
  /\ Head(queue).type = type
  /\ queue' = Tail(queue)

\* The effect of apply_profile() once the holds are hs and the profile p.
Apply(hs, p) ==
  /\ cpu' = CpuFor(cpu, EffectiveOf(hs, p), governor)
  /\ gpu' = GpuApplied(gpu, level, EffectiveOf(hs, p))

\* HoldProfile
HandleHold ==
  /\ Dispatch("hold")
  /\ nextCookie' = nextCookie + 1
  /\ LET m == Head(queue) IN
       /\ holds' = holds \union {[cookie |-> nextCookie, profile |-> m.profile,
                                  sender |-> m.sender]}
       /\ told' = IF m.sender \in alive
                  THEN [told EXCEPT ![m.sender] = nextCookie] ELSE told
  /\ Apply(holds', profile)
  /\ Tell(EffectiveOf(holds', profile))
  /\ UNCHANGED <<up, settings, saved, suspended, file, alive, unsaved>>

\* ReleaseProfile: by cookie, whoever asks; an unknown cookie is ignored.
HandleRelease ==
  /\ Dispatch("release")
  /\ holds' = {h \in holds : h.cookie # Head(queue).cookie}
  /\ IF holds' = holds THEN UNCHANGED <<limits, announced, unsaid>>
     ELSE Apply(holds', profile) /\ Tell(EffectiveOf(holds', profile))
  /\ UNCHANGED <<up, settings, nextCookie, saved, suspended, file, alive, told,
                 unsaved>>

\* Faulty variant: the search ends at the first hold of the client.
HandleGoneFirst ==
  /\ Dispatch("gone")
  /\ LET dead == {h \in holds : h.sender = Head(queue).sender}
         first == {h \in dead : \A g \in dead : h.cookie <= g.cookie}
     IN  holds' = holds \ first
  /\ Apply(holds', profile)
  /\ Tell(EffectiveOf(holds', profile))
  /\ UNCHANGED <<up, settings, nextCookie, saved, suspended, file, alive, told,
                 unsaved>>

\* handle_name_owner_changed(): every hold of the client that is gone.
HandleGone ==
  /\ Dispatch("gone")
  /\ holds' = {h \in holds : h.sender # Head(queue).sender}
  /\ IF holds' = holds THEN UNCHANGED <<limits, announced, unsaid>>
     ELSE Apply(holds', profile) /\ Tell(EffectiveOf(holds', profile))
  /\ UNCHANGED <<up, settings, nextCookie, saved, suspended, file, alive, told,
                 unsaved>>
-----------------------------------------------------------------------------
(* Properties set by the user's programs.                                  *)

\* Faulty variant: the announcement forgets that a hold may outrank the choice.
SetProfileAnnounced(p) ==
  /\ up
  /\ profile' = p
  /\ Apply(holds, p)
  /\ Save(p, level, clock)
  /\ Announce(p)
  /\ UNCHANGED <<up, level, clock, governor, holds, nextCookie, saved,
                 suspended, bus>>
  /\ asked' = Kept'

\* Set Profile.  When save_state() raises, nothing is announced.
SetProfile(p) ==
  /\ up
  /\ profile' = p
  /\ Apply(holds, p)
  /\ Save(p, level, clock)
  /\ Announce(EffectiveOf(holds, p))
  /\ UNCHANGED <<up, level, clock, governor, holds, nextCookie, saved,
                 suspended, bus>>
  /\ asked' = Kept'

\* Set ActiveProfile of the power-profiles interfaces: it ends all holds.
SetActiveProfile(p) ==
  /\ up
  /\ holds' = {}
  /\ profile' = p
  /\ Apply({}, p)
  /\ Save(p, level, clock)
  /\ Announce(p)
  /\ UNCHANGED <<up, level, clock, governor, nextCookie, saved, suspended, bus>>
  /\ asked' = Kept'

\* Set GpuPerformanceLevel: the manual clock asked for earlier, or the highest.
SetLevel(lv) ==
  /\ up
  /\ level' = lv
  /\ IF lv = "auto"
     THEN /\ cpu' = CpuFor(cpu, Effective, governor)
          /\ gpu' = GpuAuto(gpu, Effective)
          /\ clock' = clock
     ELSE LET target == IF clock # 0 THEN clock ELSE Highest(GpuFreqs)
          IN  /\ gpu' = GpuManual(gpu, target)
              /\ clock' = Closest(GpuFreqs, target)
              /\ cpu' = cpu
  /\ Save(profile, lv, clock')
  /\ UNCHANGED <<up, profile, governor, holds, nextCookie, saved, suspended,
                 announced, unsaid, bus>>
  /\ asked' = Kept'

\* Faulty variant: saved before it is rounded.
SetClockSavedFirst(mhz) ==
  /\ up
  /\ IF level = "manual"
     THEN gpu' = GpuManual(gpu, mhz) /\ clock' = Closest(GpuFreqs, mhz)
     ELSE clock' = mhz /\ UNCHANGED gpu
  /\ Save(profile, level, mhz)
  /\ UNCHANGED <<up, profile, level, governor, holds, nextCookie, saved,
                 suspended, cpu, announced, unsaid, bus>>
  /\ asked' = Kept'

\* Set ManualGpuClock: kept as asked for while the level is auto, rounded to
\* a frequency of the GPU when it takes effect.
SetClock(mhz) ==
  /\ up
  /\ IF level = "manual"
     THEN gpu' = GpuManual(gpu, mhz) /\ clock' = Closest(GpuFreqs, mhz)
     ELSE clock' = mhz /\ UNCHANGED gpu
  /\ Save(profile, level, clock')
  /\ UNCHANGED <<up, profile, level, governor, holds, nextCookie, saved,
                 suspended, cpu, announced, unsaid, bus>>
  /\ asked' = Kept'

\* Faulty variant: remembered on the default profile, whatever is in effect.
SetGovernorOfDefault(g) ==
  /\ up
  /\ governor' = [governor EXCEPT ![Default] = g]
  /\ cpu' = PutGov(cpu, g)
  /\ Save(profile, level, clock)
  /\ UNCHANGED <<up, profile, level, clock, holds, nextCookie, saved,
                 suspended, gpu, announced, unsaid, bus>>
  /\ asked' = Kept'

\* Set CpuScalingGovernor: remembered on the profile in effect.
SetGovernor(g) ==
  /\ up
  /\ governor' = [governor EXCEPT ![Effective] = g]
  /\ cpu' = PutGov(cpu, g)
  /\ Save(profile, level, clock)
  /\ UNCHANGED <<up, profile, level, clock, holds, nextCookie, saved,
                 suspended, gpu, announced, unsaid, bus>>
  /\ asked' = Kept'

\* Reload: the configuration is read again and everything applied.
Reload ==
  /\ up
  /\ governor' = Configured
  /\ cpu' = CpuFor(cpu, Effective, Configured)
  /\ gpu' = GpuReapplied(gpu, level, clock, Effective)
  /\ UNCHANGED <<up, profile, level, clock, holds, nextCookie, saved,
                 suspended, file, announced, unsaid, bus, asked, unsaved>>
-----------------------------------------------------------------------------
(* Sleep.                                                                  *)

\* suspend(): a second Suspend is ignored.
Suspend ==
  /\ up
  /\ saved = NoLimits
  /\ suspended' = TRUE
  /\ saved' = [cpu |-> cpu, gpu |-> gpu]
  /\ cpu' = PutMax(PutMin(cpu, Lowest(CpuFreqs)), Lowest(CpuFreqs))
  /\ gpu' = PutMax(PutMin(gpu, Lowest(GpuFreqs)), Lowest(GpuFreqs))
  /\ UNCHANGED <<up, settings, holds, nextCookie, file, announced, unsaid, bus,
                 unsaved>>

\* Faulty variant: the saved limits are the last to be written.
ResumeSavedLast ==
  /\ up
  /\ suspended' = FALSE
  /\ saved' = NoLimits
  /\ IF saved = NoLimits
     THEN /\ cpu' = CpuFor(cpu, Effective, governor)
          /\ gpu' = GpuReapplied(gpu, level, clock, Effective)
     ELSE /\ cpu' = Put(CpuFor(cpu, Effective, governor), saved.cpu, CpuFreqs)
          /\ gpu' = GpuReapplied(gpu, level, clock, Effective)
  /\ UNCHANGED <<up, settings, holds, nextCookie, file, announced, unsaid, bus,
                 unsaved>>

\* Faulty variant: the manual clock is left to the saved GPU limits.
ResumeNoClock ==
  /\ up
  /\ suspended' = FALSE
  /\ saved' = NoLimits
  /\ cpu' = CpuFor(cpu, Effective, governor)
  /\ gpu' = IF saved = NoLimits
            THEN GpuReapplied(gpu, level, clock, Effective)
            ELSE GpuApplied(PutGov(Put(gpu, saved.gpu, GpuFreqs), saved.gpu.gov),
                            level, Effective)
  /\ UNCHANGED <<up, settings, holds, nextCookie, file, announced, unsaid, bus,
                 unsaved>>

\* resume(): back to the saved limits, then the profile and the manual clock
\* as they are now.
Resume ==
  /\ up
  /\ suspended' = FALSE
  /\ saved' = NoLimits
  /\ LET cpu0 == IF saved = NoLimits THEN cpu ELSE Put(cpu, saved.cpu, CpuFreqs)
         gpu0 == IF saved = NoLimits THEN gpu
                 ELSE PutGov(Put(gpu, saved.gpu, GpuFreqs), saved.gpu.gov)
     IN  /\ cpu' = CpuFor(cpu0, Effective, governor)
         /\ gpu' = GpuReapplied(gpu0, level, clock, Effective)
  /\ UNCHANGED <<up, settings, holds, nextCookie, file, announced, unsaid, bus,
                 unsaved>>

\* PrepareForSleep(false): logind says the machine is awake.  The daemon's own
\* suspended mode is not looked at.
Awake ==
  /\ up
  /\ cpu' = CpuFor(cpu, Effective, governor)
  /\ gpu' = GpuReapplied(gpu, level, clock, Effective)
  /\ UNCHANGED <<up, settings, holds, nextCookie, saved, suspended, file,
                 announced, unsaid, bus, unsaved>>
-----------------------------------------------------------------------------
Handle == HandleHold \/ HandleRelease \/ HandleGone

Next ==
  \/ StartDaemon \/ Crash
  \/ \E c \in Clients :
       \/ \E p \in PpdProfiles : ClientHolds(c, p)
       \/ ClientReleases(c) \/ ClientExits(c)
  \/ Handle
  \/ \E p \in Profiles : SetProfile(p) \/ SetActiveProfile(p)
  \/ \E lv \in Levels : SetLevel(lv)
  \/ \E mhz \in Clocks : SetClock(mhz)
  \/ \E g \in Governors : SetGovernor(g)
  \/ Reload \/ Suspend \/ Resume \/ Awake

Spec == Init /\ [][Next]_vars

\* The main loop dispatches what has arrived.
FairSpec == Spec /\ WF_vars(Handle)
-----------------------------------------------------------------------------
LimitsOf(freqs, governors) == [min : freqs, max : freqs, gov : governors]

TypeOK ==
  /\ up \in BOOLEAN /\ suspended \in BOOLEAN /\ unsaved \in BOOLEAN
  /\ unsaid \in BOOLEAN
  /\ profile \in Profiles /\ announced \in Profiles
  /\ level \in Levels
  /\ clock \in Clocks \union GpuFreqs \union {0}
  /\ governor \in [Profiles -> Governors]
  /\ holds \subseteq [cookie : 1 .. MaxCookie, profile : PpdProfiles,
                      sender : Clients]
  /\ nextCookie \in 1 .. MaxCookie + 1
  /\ cpu \in LimitsOf(CpuFreqs, Governors) /\ cpu.min <= cpu.max
  /\ gpu \in LimitsOf(GpuFreqs, GpuGovernors) /\ gpu.min <= gpu.max
  /\ saved = NoLimits \/ saved \in [cpu : LimitsOf(CpuFreqs, Governors),
                                    gpu : LimitsOf(GpuFreqs, GpuGovernors)]
  /\ {file, asked} \subseteq [profile : Profiles, level : Levels,
                             clock : Clocks \union GpuFreqs \union {0}]
  /\ alive \subseteq Clients
  /\ told \in [Clients -> 0 .. MaxCookie]
  /\ Len(queue) <= MaxQueue

\* Whatever was set, held, released or lost, and whatever of it happened during
\* suspend: outside the daemon's suspended mode the CPU runs under the limit
\* and the governor of the profile in effect.
CpuFollowsProfile ==
  up /\ ~suspended => cpu = [min |-> Lowest(CpuFreqs),
                             max |-> AtMost(CpuFreqs, CpuTarget[Effective]),
                             gov |-> governor[Effective]]

\* Likewise the GPU: the range of the profile in effect when the level is auto,
\* pinned to the chosen clock when it is manual.
GpuFollowsLevel ==
  up /\ ~suspended =>
    gpu = IF level = "auto"
          THEN [min |-> AutoMin(Effective), max |-> AutoMax(Effective),
                gov |-> "simple_ondemand"]
          ELSE [min |-> clock, max |-> clock, gov |-> "userspace"]

\* Unless a write of the state file failed or was cut short, the profile, the
\* GPU level and the manual clock that were set last are in the file while the
\* daemon is down, and in effect again once it was started, whatever ended it.
\* (CpuScalingGovernor is set on the profile in memory only: the configured
\* governors come back with a restart.)
SettingsSurviveRestart ==
  ~unsaved => file = asked /\ (up => Kept = asked)

\* Clients were last told of the profile that is in effect.
AnnouncedIsEffective == up /\ ~unsaid => announced = Effective

\* A hold never outlives its owner by more than the news of its death: the
\* owner is connected, or the message that it is gone is under way.
HoldsHaveOwners ==
  \A h \in holds :
    \/ h.sender \in alive
    \/ \E i \in 1 .. Len(queue) : queue[i].type = "gone" /\ queue[i].sender = h.sender

\* What a client that died was holding comes to be released.
DeadHoldsDropped ==
  \A c \in Clients : c \notin alive ~> \A h \in holds : h.sender # c
=============================================================================
