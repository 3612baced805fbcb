------------------------- MODULE PowerProfilesProofs -------------------------
(***************************************************************************)
(* What armada-powerd guarantees for every table of frequencies, every     *)
(* configuration and every number of clients: the limits in effect follow  *)
(* the profile and the GPU level, the settings survive a restart, clients  *)
(* are told the truth, a hold does not outlive its owner, and everything   *)
(* keeps its type.                                                         *)
(***************************************************************************)
EXTENDS PowerProfiles, FiniteSetTheorems, WellFoundedInduction, TLAPS

(* Choosing a frequency.                                                   *)

LEMMA LeastOf ==
  ASSUME NEW S, S \subseteq Nat, S # {}
  PROVE  \E x \in S : \A y \in S : x <= y
<1>1. PICK x \in S : \A y \in S : ~(<<y, x>> \in OpToRel(<, Nat))
  BY NatLessThanWellFounded, WFMin
<1>2. \A y \in S : y < x => <<y, x>> \in OpToRel(<, Nat)
  BY DEF OpToRel
<1>3. \A y \in S : ~(y < x)
  BY <1>1, <1>2, Zenon
<1>4. \A y \in S : x <= y
  BY <1>3
<1> QED
  BY <1>4

LEMMA LowestOf ==
  ASSUME NEW S, S \subseteq Nat, S # {}
  PROVE  Lowest(S) \in S /\ \A g \in S : Lowest(S) <= g
BY LeastOf DEF Lowest

LEMMA HighestOf ==
  ASSUME NEW S, S \subseteq Nat, \E f \in S : \A g \in S : g <= f
  PROVE  Highest(S) \in S /\ \A g \in S : g <= Highest(S)
BY DEF Highest

\* A set of naturals with an upper bound has a greatest element.
LEMMA Bounded ==
  ASSUME NEW S, S \subseteq Nat, S # {}, NEW b \in Nat, \A f \in S : f <= b
  PROVE  \E f \in S : \A g \in S : g <= f
<1> DEFINE Gaps == {b - f : f \in S}
<1>1. Gaps \subseteq Nat /\ Gaps # {}
  OBVIOUS
<1>2. PICK x \in Gaps : \A y \in Gaps : x <= y
  <2> HIDE DEF Gaps
  <2> QED
    BY <1>1, LeastOf
<1>3. PICK f \in S : x = b - f
  BY <1>2
<1>4. \A g \in S : b - f <= b - g
  BY <1>2, <1>3
<1>5. \A g \in S : g <= f
  BY <1>4
<1> QED
  BY <1>5

\* The tables of the CPU and of the GPU are such sets.
Table(S) == S \subseteq Nat \ {0} /\ \E f \in S : \A g \in S : g <= f

LEMMA Tables == Table(CpuFreqs) /\ Table(GpuFreqs)
BY PowerAssumption DEF Table

LEMMA TableEnds ==
  ASSUME NEW S, Table(S)
  PROVE  /\ Lowest(S) \in S /\ \A g \in S : Lowest(S) <= g
         /\ Highest(S) \in S /\ \A g \in S : g <= Highest(S)
BY LowestOf, HighestOf DEF Table

LEMMA AtMostIn ==
  ASSUME NEW S, Table(S), NEW t \in Nat
  PROVE  AtMost(S, t) \in S
<1> DEFINE below == {f \in S : f <= t}
<1>1. below # {} => Highest(below) \in below
  <2>1. below \subseteq Nat /\ \A f \in below : f <= t
    BY DEF Table
  <2> HIDE DEF below
  <2> QED
    BY <2>1, Bounded, HighestOf
<1> QED
  BY <1>1, TableEnds DEF AtMost

LEMMA AtLeastIn ==
  ASSUME NEW S, Table(S), NEW t \in Nat
  PROVE  AtLeast(S, t) \in S
<1> DEFINE above == {f \in S : f >= t}
<1>1. above # {} => Lowest(above) \in above
  <2>1. above \subseteq Nat
    BY DEF Table
  <2> HIDE DEF above
  <2> QED
    BY <2>1, LowestOf
<1> QED
  BY <1>1, TableEnds DEF AtLeast

LEMMA ClosestIn ==
  ASSUME NEW S, Table(S), NEW t \in Nat
  PROVE  Closest(S, t) \in S /\ (t \in S => Closest(S, t) = t)
<1> DEFINE Best == {f \in S : \A g \in S : Distance(f, t) <= Distance(g, t)}
<1>1. \A f \in S : Distance(f, t) \in Nat
  <2>1. S \subseteq Nat
    BY DEF Table
  <2>2. \A f \in Nat : Distance(f, t) \in Nat
    BY DEF Distance
  <2> QED
    BY <2>1, <2>2
<1>2. Best # {}
  <2> DEFINE D == {Distance(f, t) : f \in S}
  <2>1. D \subseteq Nat /\ D # {}
    BY <1>1 DEF Table
  <2>2. PICK x \in D : \A y \in D : x <= y
    <3> HIDE DEF D
    <3> QED
      BY <2>1, LeastOf
  <2>3. PICK f \in S : x = Distance(f, t)
    BY <2>2
  <2>4. f \in Best
    BY <2>2, <2>3
  <2> QED
    BY <2>4
<1>3. Lowest(Best) \in Best
  <2>1. Best \subseteq Nat
    BY DEF Table
  <2> HIDE DEF Best
  <2> QED
    BY <1>2, <2>1, LowestOf
<1>4. t \in S => \A f \in Best : f = t
  <2> SUFFICES ASSUME t \in S, NEW f \in Best PROVE f = t
    OBVIOUS
  <2>1. Distance(f, t) <= Distance(t, t)
    OBVIOUS
  <2>2. f \in Nat
    BY DEF Table
  <2> QED
    BY <2>1, <2>2 DEF Distance
<1> QED
  BY <1>3, <1>4 DEF Closest
-----------------------------------------------------------------------------
(* Writing limits, in the order of the code, whatever was there before.    *)

CpuLimits == LimitsOf(CpuFreqs, Governors)
GpuLimits == LimitsOf(GpuFreqs, GpuGovernors)

\* The requests of the clients only reach the queue.
LEMMA ClientFrame ==
  ASSUME NEW c \in Clients, \/ \E p \in PpdProfiles : ClientHolds(c, p)
                            \/ ClientReleases(c) \/ ClientExits(c)
  PROVE  UNCHANGED <<up, profile, level, clock, governor, holds, nextCookie, saved,
                     suspended, cpu, gpu, file, announced, unsaid, asked, unsaved>>
BY DEF ClientHolds, ClientReleases, ClientExits, settings, limits

\* What CpuFollowsProfile and GpuFollowsLevel ask for.
CpuOf(p, gov) ==
  [min |-> Lowest(CpuFreqs), max |-> AtMost(CpuFreqs, CpuTarget[p]), gov |-> gov[p]]
AutoOf(p) == [min |-> AutoMin(p), max |-> AutoMax(p), gov |-> "simple_ondemand"]
PinnedTo(f) == [min |-> f, max |-> f, gov |-> "userspace"]

LEMMA PutMinIs ==
  ASSUME NEW G, NEW S, NEW l \in LimitsOf(S, G), NEW f \in S
  PROVE  PutMin(l, f) = IF f <= l.max THEN [min |-> f, max |-> l.max, gov |-> l.gov] ELSE l
BY DEF PutMin, LimitsOf

LEMMA PutMaxIs ==
  ASSUME NEW G, NEW S, NEW l \in LimitsOf(S, G), NEW f \in S
  PROVE  PutMax(l, f) = IF f >= l.min THEN [min |-> l.min, max |-> f, gov |-> l.gov] ELSE l
BY DEF PutMax, LimitsOf

LEMMA PutGovIs ==
  ASSUME NEW G, NEW S, NEW l \in LimitsOf(S, G), NEW g
  PROVE  PutGov(l, g) = [min |-> l.min, max |-> l.max, gov |-> g]
BY DEF PutGov, LimitsOf

\* The kernel's limits stay frequencies of the table, whatever is written.
LEMMA PutIn ==
  ASSUME NEW G, NEW S, NEW l \in LimitsOf(S, G), NEW f \in S
  PROVE  PutMin(l, f) \in LimitsOf(S, G) /\ PutMax(l, f) \in LimitsOf(S, G)
BY DEF PutMin, PutMax, LimitsOf

LEMMA CpuForIs ==
  ASSUME NEW l \in CpuLimits, NEW p \in Profiles, NEW gov \in [Profiles -> Governors]
  PROVE  CpuFor(l, p, gov) = CpuOf(p, gov) /\ CpuOf(p, gov) \in CpuLimits
<1> DEFINE low == Lowest(CpuFreqs)
           top == AtMost(CpuFreqs, CpuTarget[p])
<1>1. top \in CpuFreqs
  BY Tables, AtMostIn, PowerAssumption
<1>2. low \in CpuFreqs /\ low <= top /\ low <= l.max /\ gov[p] \in Governors
  BY <1>1, Tables, TableEnds DEF CpuLimits, LimitsOf
<1> DEFINE l1 == [min |-> l.min, max |-> l.max, gov |-> gov[p]]
           l2 == [min |-> low, max |-> l.max, gov |-> gov[p]]
<1>3. PutGov(l, gov[p]) = l1 /\ l1 \in CpuLimits
  BY <1>2, PutGovIs DEF CpuLimits, LimitsOf
<1>4. PutMin(l1, low) = l2 /\ l2 \in CpuLimits
  BY <1>2, <1>3 DEF CpuLimits, LimitsOf, PutMin
<1>5. PutMax(l2, top) = CpuOf(p, gov) /\ CpuOf(p, gov) \in CpuLimits
  <2> HIDE DEF low, top
  <2>1. top >= low
    BY <1>1, <1>2, Tables DEF Table
  <2>2. PutMax(l2, top) = [min |-> low, max |-> top, gov |-> gov[p]]
    BY <2>1 DEF PutMax
  <2> QED
    BY <1>1, <1>2, <2>2 DEF CpuOf, CpuLimits, LimitsOf, low, top
<1> QED
  BY <1>3, <1>4, <1>5 DEF CpuFor

LEMMA AutoIn ==
  ASSUME NEW p \in Profiles
  PROVE  /\ AutoMax(p) \in GpuFreqs /\ AutoMin(p) \in GpuFreqs
         /\ AutoMin(p) <= AutoMax(p)
<1>1. AutoMax(p) \in GpuFreqs
  BY Tables, AtMostIn, PowerAssumption DEF AutoMax
<1> DEFINE min == IF GpuMinTarget[p] = 0 THEN Lowest(GpuFreqs)
                  ELSE AtLeast(GpuFreqs, GpuMinTarget[p])
<1>2. min \in GpuFreqs
  BY Tables, TableEnds, AtLeastIn, PowerAssumption
<1>3. AutoMin(p) = IF min <= AutoMax(p) THEN min ELSE AutoMax(p)
  BY DEF AutoMin
<1>4. AutoMax(p) \in Nat
  BY <1>1, Tables DEF Table
<1> QED
  BY <1>1, <1>2, <1>3, <1>4

LEMMA GpuAutoIs ==
  ASSUME NEW l \in GpuLimits, NEW p \in Profiles
  PROVE  GpuAuto(l, p) = AutoOf(p) /\ AutoOf(p) \in GpuLimits
<1> DEFINE low == Lowest(GpuFreqs)
           g == "simple_ondemand"
           l1 == [min |-> l.min, max |-> l.max, gov |-> g]
           l2 == [min |-> low, max |-> l.max, gov |-> g]
           l3 == [min |-> low, max |-> AutoMax(p), gov |-> g]
<1>1. low \in GpuFreqs /\ low <= l.max /\ low <= AutoMax(p) /\ AutoMax(p) \in Nat
      /\ low \in Nat
  BY AutoIn, Tables, TableEnds DEF GpuLimits, LimitsOf, Table
<1>2. PutGov(l, g) = l1
  BY PutGovIs DEF GpuLimits
<1>3. PutMin(l1, low) = l2
  BY <1>1 DEF PutMin
<1>4. PutMax(l2, AutoMax(p)) = l3
  BY <1>1 DEF PutMax
<1>5. PutMin(l3, AutoMin(p)) = AutoOf(p)
  BY AutoIn DEF PutMin, AutoOf
<1>6. AutoOf(p) \in GpuLimits
  BY AutoIn DEF AutoOf, GpuLimits, LimitsOf, GpuGovernors
<1> QED
  BY <1>2, <1>3, <1>4, <1>5, <1>6 DEF GpuAuto

LEMMA GpuManualIs ==
  ASSUME NEW l \in GpuLimits, NEW mhz \in Nat
  PROVE  /\ GpuManual(l, mhz) = PinnedTo(Closest(GpuFreqs, mhz))
         /\ PinnedTo(Closest(GpuFreqs, mhz)) \in GpuLimits
<1> DEFINE low == Lowest(GpuFreqs)
           f == Closest(GpuFreqs, mhz)
           l1 == [min |-> low, max |-> l.max, gov |-> l.gov]
           l2 == [min |-> low, max |-> l.max, gov |-> "userspace"]
           l3 == [min |-> low, max |-> f, gov |-> "userspace"]
<1>1. f \in GpuFreqs /\ low <= f /\ low <= l.max /\ f \in Nat /\ low \in Nat
  BY ClosestIn, Tables, TableEnds DEF GpuLimits, LimitsOf, Table
<1>2. PutMin(l, low) = l1
  BY <1>1, PutMinIs, Tables, TableEnds DEF GpuLimits
<1>3. PutGov(l1, "userspace") = l2
  BY DEF PutGov
<1> HIDE DEF low, f
<1>4. PutMax(l2, f) = l3
  BY <1>1 DEF PutMax
<1>5. PutMin(l3, f) = PinnedTo(f)
  BY <1>1 DEF PutMin, PinnedTo
<1>6. PinnedTo(f) \in GpuLimits
  BY <1>1 DEF PinnedTo, GpuLimits, LimitsOf, GpuGovernors
<1> QED
  BY <1>2, <1>3, <1>4, <1>5, <1>6 DEF GpuManual, low, f
-----------------------------------------------------------------------------
(* The settings, and the state file.                                       *)

Settings == [profile : Profiles, level : Levels, clock : Nat]

\* The clock of a manual level is a frequency of the GPU, in the file too.
Manual(lv, mhz) == lv = "manual" => mhz \in GpuFreqs

SettingsPart ==
  /\ profile \in Profiles /\ level \in Levels /\ clock \in Nat
  /\ governor \in [Profiles -> Governors]
  /\ file \in Settings /\ asked \in Settings
  /\ Manual(level, clock) /\ Manual(file.level, file.clock)
  /\ SettingsSurviveRestart

LEMMA EffectiveIn ==
  ASSUME NEW hs, NEW p \in Profiles
  PROVE  EffectiveOf(hs, p) \in Profiles
BY DEF EffectiveOf, Profiles

LEMMA NoHolds == \A p : EffectiveOf({}, p) = p
BY DEF EffectiveOf

\* save_state() of valid settings.
LEMMA SaveStep ==
  ASSUME NEW p \in Profiles, NEW lv \in Levels, NEW mhz \in Nat, Manual(lv, mhz),
         file \in Settings, Manual(file.level, file.clock), Save(p, lv, mhz)
  PROVE  /\ file' \in Settings /\ Manual(file'.level, file'.clock)
         /\ ~unsaved' => file' = [profile |-> p, level |-> lv, clock |-> mhz]
BY DEF Save, Settings, NoFile, Manual, Profiles, Levels, Default

LEMMA SettingsStep ==
  ASSUME SettingsPart, [Next]_vars
  PROVE  SettingsPart'
<1> USE DEF SettingsPart, SettingsSurviveRestart, Kept, bus, limits, settings
<1>1. CASE StartDaemon
  BY <1>1 DEF StartDaemon, Settings
<1>2. CASE Crash
  BY <1>2, PowerAssumption DEF Crash, Profiles, Default, Levels, Manual
<1>3. CASE \E p \in Profiles : SetProfile(p) \/ SetActiveProfile(p)
  <2>1. PICK p \in Profiles : SetProfile(p) \/ SetActiveProfile(p)
    BY <1>3
  <2>2. /\ profile' = p /\ Save(p, level, clock) /\ asked' = Kept'
        /\ UNCHANGED <<up, level, clock, governor>>
    BY <2>1 DEF SetProfile, SetActiveProfile
  <2>3. asked' \in Settings
    BY <2>2 DEF Settings
  <2> QED
    BY <2>2, <2>3, SaveStep
<1>4. CASE \E lv \in Levels : SetLevel(lv)
  <2>1. PICK lv \in Levels : SetLevel(lv)
    BY <1>4
  <2>2. clock' \in Nat /\ Manual(lv, clock')
    <3>1. CASE lv = "auto"
      BY <2>1, <3>1 DEF SetLevel, Manual
    <3>2. CASE lv # "auto"
      <4>1. (IF clock # 0 THEN clock ELSE Highest(GpuFreqs)) \in Nat
        BY Tables, TableEnds DEF Table
      <4>2. clock' = Closest(GpuFreqs, IF clock # 0 THEN clock ELSE Highest(GpuFreqs))
        BY <2>1, <3>2 DEF SetLevel
      <4>3. clock' \in GpuFreqs
        BY <4>1, <4>2, ClosestIn, Tables
      <4> QED
        BY <4>3, Tables DEF Manual, Table
    <3> QED
      BY <3>1, <3>2
  <2>3. /\ level' = lv /\ Save(profile, lv, clock') /\ asked' = Kept'
        /\ UNCHANGED <<up, profile, governor>>
    BY <2>1 DEF SetLevel
  <2>4. asked' \in Settings
    BY <2>2, <2>3 DEF Settings
  <2> QED
    BY <2>2, <2>3, <2>4, SaveStep
<1>5. CASE \E mhz \in Clocks : SetClock(mhz)
  <2>1. PICK mhz \in Clocks : SetClock(mhz)
    BY <1>5
  <2>2. mhz \in Nat
    BY PowerAssumption
  <2>3. clock' \in Nat /\ Manual(level, clock')
    <3>1. CASE level = "manual"
      <4>1. clock' \in GpuFreqs
        BY <2>1, <2>2, <3>1, ClosestIn, Tables DEF SetClock
      <4> QED
        BY <4>1, Tables DEF Manual, Table
    <3>2. CASE level # "manual"
      BY <2>1, <2>2, <3>2 DEF SetClock, Manual
    <3> QED
      BY <3>1, <3>2
  <2>4. /\ Save(profile, level, clock') /\ asked' = Kept'
        /\ UNCHANGED <<up, profile, level, governor>>
    BY <2>1 DEF SetClock
  <2>5. asked' \in Settings
    BY <2>3, <2>4 DEF Settings
  <2> QED
    BY <2>3, <2>4, <2>5, SaveStep
<1>6. CASE \E g \in Governors : SetGovernor(g)
  <2>1. PICK g \in Governors : SetGovernor(g)
    BY <1>6
  <2>2. governor' \in [Profiles -> Governors]
    BY <2>1 DEF SetGovernor
  <2>3. /\ Save(profile, level, clock) /\ asked' = Kept'
        /\ UNCHANGED <<up, profile, level, clock>>
    BY <2>1 DEF SetGovernor
  <2>4. asked' \in Settings
    BY <2>3 DEF Settings
  <2> QED
    BY <2>2, <2>3, <2>4, SaveStep
<1>7. CASE Reload
  BY <1>7, PowerAssumption DEF Reload
<1>8. CASE Handle
  BY <1>8 DEF Handle, HandleHold, HandleRelease, HandleGone
<1>9. CASE \E c \in Clients : \/ \E p \in PpdProfiles : ClientHolds(c, p)
                              \/ ClientReleases(c) \/ ClientExits(c)
  BY <1>9, ClientFrame
<1>10. CASE Suspend \/ Resume \/ Awake
  BY <1>10 DEF Suspend, Resume, Awake
<1>11. CASE UNCHANGED vars
  BY <1>11 DEF vars
<1> QED
  BY <1>1, <1>2, <1>3, <1>4, <1>5, <1>6, <1>7, <1>8, <1>9, <1>10, <1>11 DEF Next

LEMMA SettingsInvariance == Spec => []SettingsPart
<1>1. Init => SettingsPart
  BY PowerAssumption DEF Init, SettingsPart, SettingsSurviveRestart, Settings, NoFile,
     Manual, Profiles, Levels, Default
<1> QED
  BY <1>1, SettingsStep, PTL DEF Spec

\* Unless a write of the state file failed or was cut short, the profile, the GPU
\* level and the manual clock set last are in the file while the daemon is down and
\* in effect once it was started again.
THEOREM SettingsSurvive == Spec => []SettingsSurviveRestart
<1>1. SettingsPart => SettingsSurviveRestart
  BY DEF SettingsPart
<1> QED
  BY <1>1, SettingsInvariance, PTL
-----------------------------------------------------------------------------
(* What the clients are told.                                              *)

ToldPart == (~up => holds = {}) /\ AnnouncedIsEffective

LEMMA ToldStep ==
  ASSUME ToldPart, [Next]_vars
  PROVE  ToldPart'
<1> USE DEF ToldPart, AnnouncedIsEffective, Effective, bus, limits, settings, Tell
<1>1. CASE StartDaemon
  BY <1>1, NoHolds DEF StartDaemon
<1>2. CASE Crash
  BY <1>2 DEF Crash
<1>3. CASE \E p \in Profiles : SetProfile(p) \/ SetActiveProfile(p)
  BY <1>3, NoHolds DEF SetProfile, SetActiveProfile, Announce
<1>4. CASE Handle
  BY <1>4 DEF Handle, HandleHold, HandleRelease, HandleGone, Dispatch
<1>5. CASE \/ \E lv \in Levels : SetLevel(lv)
           \/ \E mhz \in Clocks : SetClock(mhz)
           \/ \E g \in Governors : SetGovernor(g)
  BY <1>5 DEF SetLevel, SetClock, SetGovernor
<1>6. CASE \E c \in Clients : \/ \E p \in PpdProfiles : ClientHolds(c, p)
                              \/ ClientReleases(c) \/ ClientExits(c)
  BY <1>6, ClientFrame
<1>7. CASE Reload \/ Suspend \/ Resume \/ Awake
  BY <1>7 DEF Reload, Suspend, Resume, Awake
<1>8. CASE UNCHANGED vars
  BY <1>8 DEF vars
<1> QED
  BY <1>1, <1>2, <1>3, <1>4, <1>5, <1>6, <1>7, <1>8 DEF Next

\* Clients were last told of the profile in effect, unless save_state() raised
\* before the announcement.
THEOREM Announced == Spec => []AnnouncedIsEffective
<1>1. Init => ToldPart
  BY DEF Init, ToldPart, AnnouncedIsEffective
<1>2. ToldPart => AnnouncedIsEffective
  BY DEF ToldPart
<1> QED
  BY <1>1, <1>2, ToldStep, PTL DEF Spec
-----------------------------------------------------------------------------
(* The limits in effect.                                                   *)

GpuOf(lv, mhz, p) == IF lv = "auto" THEN AutoOf(p) ELSE PinnedTo(mhz)

LimitsPart ==
  /\ cpu \in CpuLimits /\ gpu \in GpuLimits
  /\ saved = NoLimits \/ (saved.cpu \in CpuLimits /\ saved.gpu \in GpuLimits)
  /\ up /\ ~suspended => cpu = CpuOf(Effective, governor)
  /\ up /\ ~suspended => gpu = GpuOf(level, clock, Effective)

LEMMA GpuReappliedIs ==
  ASSUME NEW l \in GpuLimits, NEW lv \in Levels, NEW mhz \in Nat, Manual(lv, mhz),
         NEW p \in Profiles
  PROVE  /\ GpuReapplied(l, lv, mhz, p) = GpuOf(lv, mhz, p)
         /\ GpuReapplied(l, lv, mhz, p) \in GpuLimits
<1>1. CASE lv = "auto"
  BY <1>1, GpuAutoIs DEF GpuReapplied, GpuOf
<1>2. CASE lv = "manual"
  <2>1. mhz \in GpuFreqs /\ mhz # 0
    BY <1>2, Tables DEF Manual, Table
  <2>2. Closest(GpuFreqs, mhz) = mhz
    BY <2>1, ClosestIn, Tables
  <2> QED
    BY <1>2, <2>1, <2>2, GpuManualIs DEF GpuReapplied, GpuOf
<1> QED
  BY <1>1, <1>2 DEF Levels

\* apply_profile() brings both limits to the profile that is in effect then.
LEMMA ApplyStep ==
  ASSUME SettingsPart, LimitsPart, NEW hs, NEW p \in Profiles, Apply(hs, p),
         UNCHANGED <<up, suspended, level, clock, governor, saved>>,
         holds' = hs, profile' = p
  PROVE  LimitsPart'
<1>1. EffectiveOf(hs, p) \in Profiles
  BY EffectiveIn
<1>2. cpu' = CpuOf(EffectiveOf(hs, p), governor) /\ cpu' \in CpuLimits
  BY <1>1, CpuForIs DEF Apply, LimitsPart, SettingsPart
<1>3. level = "auto" => gpu' = AutoOf(EffectiveOf(hs, p)) /\ gpu' \in GpuLimits
  BY <1>1, GpuAutoIs DEF Apply, GpuApplied, LimitsPart
<1>4. level # "auto" => gpu' = gpu
  BY DEF Apply, GpuApplied
<1>5. gpu' \in GpuLimits
  BY <1>3, <1>4 DEF LimitsPart
<1>6. up /\ ~suspended => gpu' = GpuOf(level, clock, EffectiveOf(hs, p))
  BY <1>3, <1>4 DEF LimitsPart, GpuOf
<1>7. Effective' = EffectiveOf(hs, p)
  BY DEF Effective
<1> QED
  BY <1>2, <1>5, <1>6, <1>7 DEF LimitsPart

\* What resume(), Reload and PrepareForSleep(false) apply from any limits.
LEMMA ReapplyStep ==
  ASSUME SettingsPart, NEW l \in CpuLimits, NEW m \in GpuLimits,
         governor' \in [Profiles -> Governors], UNCHANGED <<level, clock, profile, holds>>,
         cpu' = CpuFor(l, Effective, governor'),
         gpu' = GpuReapplied(m, level, clock, Effective),
         saved' = NoLimits \/ (saved'.cpu \in CpuLimits /\ saved'.gpu \in GpuLimits)
  PROVE  LimitsPart'
<1>1. Effective \in Profiles /\ Effective' = Effective
  BY EffectiveIn DEF Effective, SettingsPart
<1>2. cpu' = CpuOf(Effective, governor') /\ cpu' \in CpuLimits
  BY <1>1, CpuForIs
<1>3. gpu' = GpuOf(level, clock, Effective) /\ gpu' \in GpuLimits
  BY <1>1, GpuReappliedIs DEF SettingsPart
<1> QED
  BY <1>1, <1>2, <1>3 DEF LimitsPart

LEMMA PutLimits ==
  ASSUME NEW G, NEW S, Table(S), NEW l \in LimitsOf(S, G), NEW k \in LimitsOf(S, G)
  PROVE  Put(l, k, S) \in LimitsOf(S, G)
<1>1. Lowest(S) \in S /\ k.min \in S /\ k.max \in S
  BY TableEnds DEF LimitsOf
<1> QED
  BY <1>1, PutIn DEF Put

LEMMA LimitsStep ==
  ASSUME SettingsPart, ToldPart, LimitsPart, [Next]_vars
  PROVE  LimitsPart'
<1> USE DEF bus, limits, settings
<1>1. CASE StartDaemon
  <2>1. file.profile \in Profiles /\ file.level \in Levels /\ file.clock \in Nat
    BY DEF SettingsPart, Settings
  <2>2. Effective' = file.profile
    BY <1>1, NoHolds DEF StartDaemon, ToldPart, Effective
  <2>3. cpu' = CpuOf(file.profile, governor) /\ cpu' \in CpuLimits
    BY <1>1, <2>1, CpuForIs DEF StartDaemon, LimitsPart, SettingsPart
  <2>4. gpu' = GpuOf(file.level, file.clock, file.profile) /\ gpu' \in GpuLimits
    BY <1>1, <2>1, GpuReappliedIs DEF StartDaemon, LimitsPart, SettingsPart
  <2>5. level' = file.level /\ clock' = file.clock /\ UNCHANGED <<governor, saved>>
    BY <1>1 DEF StartDaemon
  <2> QED
    BY <2>2, <2>3, <2>4, <2>5 DEF LimitsPart
<1>2. CASE Crash
  <2>1. cpu' \in CpuLimits /\ gpu' \in GpuLimits
    BY <1>2, PutIn, Tables, TableEnds DEF Crash, LimitsPart, CpuLimits, GpuLimits
  <2> QED
    BY <1>2, <2>1 DEF Crash, LimitsPart
<1>3. CASE \E p \in Profiles : SetProfile(p) \/ SetActiveProfile(p)
  BY <1>3, ApplyStep DEF SetProfile, SetActiveProfile
<1>4. CASE Handle
  <2>1. Apply(holds', profile) \/ UNCHANGED <<holds, cpu, gpu>>
    BY <1>4 DEF Handle, HandleHold, HandleRelease, HandleGone
  <2>2. UNCHANGED <<up, suspended, profile, level, clock, governor, saved>>
    BY <1>4 DEF Handle, HandleHold, HandleRelease, HandleGone
  <2>3. CASE Apply(holds', profile)
    BY <2>2, <2>3, ApplyStep DEF SettingsPart
  <2>4. CASE UNCHANGED <<holds, cpu, gpu>>
    BY <2>2, <2>4 DEF LimitsPart, Effective
  <2> QED
    BY <2>1, <2>3, <2>4
<1>5. CASE \E lv \in Levels : SetLevel(lv)
  <2>1. PICK lv \in Levels : SetLevel(lv)
    BY <1>5
  <2>2. Effective \in Profiles /\ Effective' = Effective
    BY <2>1, EffectiveIn DEF SetLevel, Effective, SettingsPart
  <2>3. level' = lv /\ UNCHANGED <<up, suspended, governor, saved>>
    BY <2>1 DEF SetLevel
  <2>4. CASE lv = "auto"
    <3>1. cpu' = CpuFor(cpu, Effective, governor) /\ gpu' = GpuAuto(gpu, Effective)
      BY <2>1, <2>4 DEF SetLevel
    <3>2. cpu' = CpuOf(Effective, governor) /\ cpu' \in CpuLimits
      BY <2>2, <3>1, CpuForIs DEF LimitsPart, SettingsPart
    <3>3. gpu' = AutoOf(Effective) /\ gpu' \in GpuLimits
      BY <2>2, <3>1, GpuAutoIs DEF LimitsPart
    <3> QED
      BY <2>2, <2>3, <2>4, <3>2, <3>3 DEF LimitsPart, GpuOf
  <2>5. CASE lv # "auto"
    <3> DEFINE target == IF clock # 0 THEN clock ELSE Highest(GpuFreqs)
    <3>1. target \in Nat
      BY Tables, TableEnds DEF Table, SettingsPart
    <3>2. gpu' = GpuManual(gpu, target) /\ clock' = Closest(GpuFreqs, target) /\ cpu' = cpu
      BY <2>1, <2>5 DEF SetLevel
    <3> HIDE DEF target
    <3>3. gpu' = PinnedTo(clock') /\ gpu' \in GpuLimits
      BY <3>1, <3>2, GpuManualIs DEF LimitsPart
    <3> QED
      BY <2>2, <2>3, <2>5, <3>2, <3>3 DEF LimitsPart, GpuOf
  <2> QED
    BY <2>4, <2>5
<1>6. CASE \E mhz \in Clocks : SetClock(mhz)
  <2>1. PICK mhz \in Clocks : SetClock(mhz)
    BY <1>6
  <2>2. mhz \in Nat
    BY PowerAssumption
  <2>3. UNCHANGED <<up, suspended, profile, level, governor, holds, saved, cpu>>
    BY <2>1 DEF SetClock
  <2>4. CASE level = "manual"
    <3>1. gpu' = PinnedTo(clock') /\ gpu' \in GpuLimits
      BY <2>1, <2>2, <2>4, GpuManualIs DEF SetClock, LimitsPart
    <3> QED
      BY <2>3, <2>4, <3>1 DEF LimitsPart, GpuOf, Effective
  <2>5. CASE level = "auto"
    <3>1. gpu' = gpu
      BY <2>1, <2>5 DEF SetClock
    <3> QED
      BY <2>3, <2>5, <3>1 DEF LimitsPart, GpuOf, Effective
  <2> QED
    BY <2>4, <2>5 DEF SettingsPart, Levels
<1>7. CASE \E g \in Governors : SetGovernor(g)
  <2>1. PICK g \in Governors : SetGovernor(g)
    BY <1>7
  <2>2. Effective \in Profiles /\ Effective' = Effective
    BY <2>1, EffectiveIn DEF SetGovernor, Effective, SettingsPart
  <2>3. governor'[Effective] = g
    BY <2>1, <2>2 DEF SetGovernor, SettingsPart
  <2>4. cpu' = [min |-> cpu.min, max |-> cpu.max, gov |-> g] /\ cpu' \in CpuLimits
    BY <2>1, PutGovIs DEF SetGovernor, LimitsPart, CpuLimits, LimitsOf
  <2>5. UNCHANGED <<up, suspended, level, clock, saved, gpu>>
    BY <2>1 DEF SetGovernor
  <2> QED
    BY <2>2, <2>3, <2>4, <2>5 DEF LimitsPart, CpuOf
<1>8. CASE Reload
  BY <1>8, ReapplyStep, PowerAssumption DEF Reload, LimitsPart
<1>9. CASE Suspend
  <2>1. cpu' \in CpuLimits /\ gpu' \in GpuLimits
    BY <1>9, PutIn, Tables, TableEnds DEF Suspend, LimitsPart, CpuLimits, GpuLimits
  <2>2. suspended' = TRUE /\ saved' = [cpu |-> cpu, gpu |-> gpu]
    BY <1>9 DEF Suspend
  <2> QED
    BY <2>1, <2>2 DEF LimitsPart
<1>10. CASE Resume
  <2> DEFINE l == IF saved = NoLimits THEN cpu ELSE Put(cpu, saved.cpu, CpuFreqs)
             m == IF saved = NoLimits THEN gpu
                  ELSE PutGov(Put(gpu, saved.gpu, GpuFreqs), saved.gpu.gov)
  <2>1. l \in CpuLimits
    BY PutLimits, Tables DEF LimitsPart, CpuLimits
  <2>2. m \in GpuLimits
    <3>1. CASE saved = NoLimits
      BY <3>1 DEF LimitsPart
    <3>2. CASE saved # NoLimits
      <4> DEFINE k == Put(gpu, saved.gpu, GpuFreqs)
      <4>1. k \in GpuLimits /\ saved.gpu \in GpuLimits
        BY <3>2, PutLimits, Tables DEF LimitsPart, GpuLimits
      <4> HIDE DEF k
      <4>2. PutGov(k, saved.gpu.gov) \in GpuLimits
        BY <4>1 DEF PutGov, GpuLimits, LimitsOf
      <4> QED
        BY <3>2, <4>2 DEF k
    <3> QED
      BY <3>1, <3>2
  <2>3. /\ cpu' = CpuFor(l, Effective, governor) /\ governor' = governor
        /\ gpu' = GpuReapplied(m, level, clock, Effective)
        /\ UNCHANGED <<level, clock, profile, holds>> /\ saved' = NoLimits
    BY <1>10 DEF Resume
  <2> HIDE DEF l, m
  <2> QED
    BY <2>1, <2>2, <2>3, ReapplyStep DEF SettingsPart
<1>11. CASE Awake
  BY <1>11, ReapplyStep DEF Awake, LimitsPart, SettingsPart
<1>12. CASE \E c \in Clients : \/ \E p \in PpdProfiles : ClientHolds(c, p)
                               \/ ClientReleases(c) \/ ClientExits(c)
  BY <1>12, ClientFrame DEF LimitsPart, Effective
<1>13. CASE UNCHANGED vars
  BY <1>13 DEF vars, LimitsPart, Effective
<1> QED
  BY <1>1, <1>2, <1>3, <1>4, <1>5, <1>6, <1>7, <1>8, <1>9, <1>10, <1>11, <1>12,
     <1>13 DEF Next

LEMMA InitLimits == Init => LimitsPart
<1>1. Init => CpuAny \in CpuLimits /\ GpuAny \in GpuLimits
  BY Tables, TableEnds, PowerAssumption DEF CpuAny, GpuAny, CpuLimits, GpuLimits, LimitsOf,
     GpuGovernors, Profiles, Default
<1> QED
  BY <1>1 DEF Init, LimitsPart

LEMMA LimitsInvariance == Spec => []LimitsPart
<1>1. Init => ToldPart
  BY DEF Init, ToldPart, AnnouncedIsEffective
<1> QED
  BY <1>1, InitLimits, LimitsStep, ToldStep, SettingsInvariance, PTL DEF Spec

\* Outside the daemon's suspended mode the CPU runs under the limits and the
\* governor of the profile in effect, whatever was set, held or lost in between.
THEOREM CpuFollows == Spec => []CpuFollowsProfile
<1>1. LimitsPart => CpuFollowsProfile
  BY DEF LimitsPart, CpuFollowsProfile, CpuOf
<1> QED
  BY <1>1, LimitsInvariance, PTL

\* Likewise the GPU has the range of the profile, or is pinned to the clock.
THEOREM GpuFollows == Spec => []GpuFollowsLevel
<1>1. LimitsPart => GpuFollowsLevel
  BY DEF LimitsPart, GpuFollowsLevel, GpuOf, AutoOf, PinnedTo
<1> QED
  BY <1>1, LimitsInvariance, PTL
-----------------------------------------------------------------------------
(* The owners of the holds.                                                *)

Messages == [type : {"hold", "release", "gone"}, sender : Clients,
             profile : Profiles \union PpdProfiles, cookie : Nat]

\* The client is connected, or the news that it is gone is in the queue after
\* the first i messages.
News(al, q, c, i) ==
  c \in al \/ \E j \in i + 1 .. Len(q) : q[j].type = "gone" /\ q[j].sender = c

\* What a client asked for comes before the news that it is gone.
Ordered(al, q) ==
  \A i \in 1 .. Len(q) : q[i].type = "hold" => News(al, q, q[i].sender, i)

OwnersPart ==
  /\ queue \in Seq(Messages) /\ told \in [Clients -> Nat] /\ nextCookie \in Nat
  /\ ~up => holds = {} /\ queue = <<>>
  /\ \A h \in holds : News(alive, queue, h.sender, 0)
  /\ Ordered(alive, queue)

LEMMA NewsTail ==
  ASSUME NEW al, NEW q \in Seq(Messages), q # <<>>, NEW c, NEW i \in Nat,
         News(al, q, c, i + 1)
  PROVE  News(al, Tail(q), c, i)
<1>1. CASE c \in al
  BY <1>1 DEF News
<1>2. CASE c \notin al
  <2>1. PICK j \in i + 2 .. Len(q) : q[j].type = "gone" /\ q[j].sender = c
    BY <1>2 DEF News
  <2>2. j - 1 \in i + 1 .. Len(Tail(q)) /\ Tail(q)[j - 1] = q[j]
    BY <2>1
  <2> QED
    BY <2>1, <2>2 DEF News
<1> QED
  BY <1>1, <1>2

LEMMA OrderedTail ==
  ASSUME NEW al, NEW q \in Seq(Messages), q # <<>>, Ordered(al, q)
  PROVE  Ordered(al, Tail(q))
<1> SUFFICES ASSUME NEW i \in 1 .. Len(Tail(q)), Tail(q)[i].type = "hold"
             PROVE  News(al, Tail(q), Tail(q)[i].sender, i)
  BY DEF Ordered
<1>1. i + 1 \in 1 .. Len(q) /\ Tail(q)[i] = q[i + 1] /\ i \in Nat
  OBVIOUS
<1>2. News(al, q, q[i + 1].sender, i + 1)
  BY <1>1 DEF Ordered
<1> QED
  BY <1>1, <1>2, NewsTail

LEMMA NewsAppend ==
  ASSUME NEW al, NEW q \in Seq(Messages), NEW m \in Messages, NEW c,
         NEW i \in 0 .. Len(q), News(al, q, c, i) \/ (m.type = "gone" /\ m.sender = c)
  PROVE  News(al, Append(q, m), c, i)
<1>1. /\ Len(Append(q, m)) = Len(q) + 1 /\ Len(q) \in Nat
      /\ Append(q, m)[Len(q) + 1] = m
      /\ \A j \in 1 .. Len(q) : Append(q, m)[j] = q[j]
  OBVIOUS
<1>2. CASE News(al, q, c, i)
  BY <1>1, <1>2 DEF News
<1>3. CASE m.type = "gone" /\ m.sender = c
  <2>1. Len(q) + 1 \in i + 1 .. Len(Append(q, m))
    BY <1>1
  <2> QED
    BY <1>1, <1>3, <2>1 DEF News
<1> QED
  BY <1>2, <1>3

\* A message of a connected client, or the news that one is gone, arrives.
LEMMA OrderedAppend ==
  ASSUME NEW al, NEW bl, NEW q \in Seq(Messages), NEW m \in Messages, Ordered(al, q),
         \/ bl = al /\ m.sender \in al
         \/ bl = al \ {m.sender} /\ m.type = "gone"
  PROVE  /\ Ordered(bl, Append(q, m))
         /\ \A c : News(al, q, c, 0) => News(bl, Append(q, m), c, 0)
<1>1. ASSUME NEW c, NEW i \in 0 .. Len(q), News(al, q, c, i)
      PROVE  News(bl, Append(q, m), c, i)
  <2>1. News(bl, q, c, i) \/ (m.type = "gone" /\ m.sender = c)
    BY <1>1 DEF News
  <2> QED
    BY <2>1, NewsAppend
<1>2. ASSUME NEW i \in 1 .. Len(Append(q, m)), Append(q, m)[i].type = "hold"
      PROVE  News(bl, Append(q, m), Append(q, m)[i].sender, i)
  <2>1. CASE i \in 1 .. Len(q)
    <3>1. Append(q, m)[i] = q[i] /\ i \in 0 .. Len(q)
      BY <2>1
    <3>2. News(al, q, q[i].sender, i)
      BY <1>2, <2>1, <3>1 DEF Ordered
    <3> QED
      BY <1>1, <3>1, <3>2
  <2>2. CASE i \notin 1 .. Len(q)
    <3>1. Append(q, m)[i] = m
      BY <2>2
    <3>2. m.sender \in bl
      BY <1>2, <3>1
    <3> QED
      BY <3>1, <3>2 DEF News
  <2> QED
    BY <2>1, <2>2
<1>3. 0 \in 0 .. Len(q)
  OBVIOUS
<1> QED
  BY <1>1, <1>2, <1>3 DEF Ordered

\* A message that is dispatched takes no other's news away.
LEMMA DispatchStep ==
  ASSUME OwnersPart, NEW type, Dispatch(type)
  PROVE  /\ up /\ queue' \in Seq(Messages) /\ Ordered(alive, queue')
         /\ type = "hold" => News(alive, queue', Head(queue).sender, 0)
         /\ \A c : News(alive, queue, c, 0) /\ ~(type = "gone" /\ Head(queue).sender = c)
                     => News(alive, queue', c, 0)
<1>1. up /\ queue # <<>> /\ queue' = Tail(queue) /\ Head(queue).type = type
  BY DEF Dispatch
<1>2. queue' \in Seq(Messages) /\ Ordered(alive, queue')
  BY <1>1, OrderedTail DEF OwnersPart
<1>3. Head(queue) = queue[1] /\ 1 \in 1 .. Len(queue) /\ Len(queue) \in Nat
  BY <1>1 DEF OwnersPart
<1>4. ASSUME NEW c, News(alive, queue, c, 1)
      PROVE  News(alive, queue', c, 0)
  <2>1. News(alive, queue, c, 0 + 1)
    BY <1>4
  <2> QED
    BY <1>1, <2>1, NewsTail DEF OwnersPart
<1>5. type = "hold" => News(alive, queue, Head(queue).sender, 1)
  BY <1>1, <1>3 DEF OwnersPart, Ordered
<1>6. ASSUME NEW c, News(alive, queue, c, 0), ~(type = "gone" /\ Head(queue).sender = c)
      PROVE  News(alive, queue, c, 1)
  BY <1>1, <1>3, <1>6 DEF News
<1> QED
  BY <1>1, <1>2, <1>4, <1>5, <1>6

LEMMA HandleStep ==
  ASSUME OwnersPart, Handle
  PROVE  OwnersPart'
<1>1. UNCHANGED <<alive, up>>
  BY DEF Handle, HandleHold, HandleRelease, HandleGone
<1>2. told' \in [Clients -> Nat] /\ nextCookie' \in Nat
  <2>1. \/ told' = told
        \/ \E s : told' = [told EXCEPT ![s] = nextCookie]
    BY DEF Handle, HandleHold, HandleRelease, HandleGone
  <2>2. nextCookie' = nextCookie \/ nextCookie' = nextCookie + 1
    BY DEF Handle, HandleHold, HandleRelease, HandleGone
  <2> QED
    BY <2>1, <2>2 DEF OwnersPart
<1>3. CASE HandleHold
  <2>1. Dispatch("hold")
    BY <1>3 DEF HandleHold
  <2>2. \A h \in holds' : h \in holds \/ h.sender = Head(queue).sender
    BY <1>3 DEF HandleHold
  <2>3. \A h \in holds' : News(alive, queue', h.sender, 0)
    BY <2>1, <2>2, DispatchStep DEF OwnersPart
  <2> QED
    BY <1>1, <1>2, <2>1, <2>3, DispatchStep DEF OwnersPart
<1>4. CASE HandleRelease
  <2>1. Dispatch("release")
    BY <1>4 DEF HandleRelease
  <2>2. holds' \subseteq holds
    BY <1>4 DEF HandleRelease
  <2>3. \A h \in holds' : News(alive, queue', h.sender, 0)
    BY <2>1, <2>2, DispatchStep DEF OwnersPart
  <2> QED
    BY <1>1, <1>2, <2>1, <2>3, DispatchStep DEF OwnersPart
<1>5. CASE HandleGone
  <2>1. Dispatch("gone")
    BY <1>5 DEF HandleGone
  <2>2. \A h \in holds' : h \in holds /\ h.sender # Head(queue).sender
    BY <1>5 DEF HandleGone
  <2>3. \A h \in holds' : News(alive, queue', h.sender, 0)
    BY <2>1, <2>2, DispatchStep DEF OwnersPart
  <2> QED
    BY <1>1, <1>2, <2>1, <2>3, DispatchStep DEF OwnersPart
<1> QED
  BY <1>3, <1>4, <1>5 DEF Handle

LEMMA ClientStep ==
  ASSUME OwnersPart, NEW m \in Messages, queue' = Append(queue, m), up, up',
         UNCHANGED <<holds, nextCookie>>, told' \in [Clients -> Nat],
         \/ alive' = alive /\ m.sender \in alive
         \/ alive' = alive \ {m.sender} /\ m.type = "gone"
  PROVE  OwnersPart'
<1>1. queue' \in Seq(Messages)
  BY DEF OwnersPart
<1>2. /\ Ordered(alive', queue')
      /\ \A c : News(alive, queue, c, 0) => News(alive', queue', c, 0)
  BY OrderedAppend DEF OwnersPart
<1> QED
  BY <1>1, <1>2 DEF OwnersPart

LEMMA OwnersStep ==
  ASSUME OwnersPart, [Next]_vars
  PROVE  OwnersPart'
<1> USE DEF bus, limits, settings
<1>1. CASE StartDaemon
  BY <1>1 DEF StartDaemon, OwnersPart
<1>2. CASE Crash
  BY <1>2 DEF Crash, OwnersPart, Ordered
<1>3. CASE \E p \in Profiles : SetProfile(p) \/ SetActiveProfile(p)
  BY <1>3 DEF SetProfile, SetActiveProfile, OwnersPart
<1>4. CASE Handle
  BY <1>4, HandleStep
<1>5. ASSUME NEW c \in Clients, NEW p \in PpdProfiles, ClientHolds(c, p)
      PROVE  OwnersPart'
  <2> DEFINE m == [type |-> "hold", sender |-> c, profile |-> p, cookie |-> 0]
  <2>1. m \in Messages /\ queue' = Append(queue, m) /\ m.sender \in alive
    BY <1>5 DEF ClientHolds, Messages
  <2>2. UNCHANGED <<up, holds, alive, told, nextCookie>> /\ up
    BY <1>5 DEF ClientHolds
  <2> HIDE DEF m
  <2> QED
    BY <2>1, <2>2, ClientStep DEF OwnersPart
<1>6. ASSUME NEW c \in Clients, ClientReleases(c)
      PROVE  OwnersPart'
  <2> DEFINE m == [type |-> "release", sender |-> c, profile |-> Default, cookie |-> told[c]]
  <2>1. m \in Messages /\ queue' = Append(queue, m) /\ m.sender \in alive
    BY <1>6 DEF ClientReleases, Messages, Profiles, Default, OwnersPart
  <2>2. UNCHANGED <<up, holds, alive, nextCookie>> /\ up /\ told' \in [Clients -> Nat]
    BY <1>6 DEF ClientReleases, OwnersPart
  <2> HIDE DEF m
  <2> QED
    BY <2>1, <2>2, ClientStep
<1>7. ASSUME NEW c \in Clients, ClientExits(c)
      PROVE  OwnersPart'
  <2>1. UNCHANGED <<up, holds, nextCookie>> /\ told' \in [Clients -> Nat]
        /\ alive' = alive \ {c}
    BY <1>7 DEF ClientExits, OwnersPart
  <2>2. CASE ~up
    <3>1. queue' = queue /\ queue = <<>> /\ holds = {}
      BY <1>7, <2>2 DEF ClientExits, OwnersPart
    <3> QED
      BY <2>1, <2>2, <3>1 DEF OwnersPart, Ordered
  <2>3. CASE up
    <3> DEFINE m == [type |-> "gone", sender |-> c, profile |-> Default, cookie |-> 0]
    <3>1. m \in Messages /\ queue' = Append(queue, m)
      BY <1>7, <2>3 DEF ClientExits, Messages, Profiles, Default
    <3>2. m.type = "gone" /\ m.sender = c
      OBVIOUS
    <3> HIDE DEF m
    <3> QED
      BY <2>1, <2>3, <3>1, <3>2, ClientStep
  <2> QED
    BY <2>2, <2>3
<1>8. CASE \/ \E lv \in Levels : SetLevel(lv)
           \/ \E mhz \in Clocks : SetClock(mhz)
           \/ \E g \in Governors : SetGovernor(g)
  BY <1>8 DEF SetLevel, SetClock, SetGovernor, OwnersPart
<1>9. CASE Reload \/ Suspend \/ Resume \/ Awake
  BY <1>9 DEF Reload, Suspend, Resume, Awake, OwnersPart
<1>10. CASE UNCHANGED vars
  BY <1>10 DEF vars, OwnersPart
<1> QED
  BY <1>1, <1>2, <1>3, <1>4, <1>5, <1>6, <1>7, <1>8, <1>9, <1>10 DEF Next

\* The owner of a hold is connected, or the news of its death is under way.
THEOREM OwnersKnown == Spec => []HoldsHaveOwners
<1>1. Init => OwnersPart
  BY DEF Init, OwnersPart, Ordered
<1>2. OwnersPart => HoldsHaveOwners
  BY DEF OwnersPart, News, HoldsHaveOwners
<1> QED
  BY <1>1, <1>2, OwnersStep, PTL DEF Spec
-----------------------------------------------------------------------------
(* The types, and the bound on the cookies: those given out and those that *)
(* will be for the requests under way.                                     *)

HoldsIn(q) == {i \in 1 .. Len(q) : q[i].type = "hold"}
Pending(q) == Cardinality(HoldsIn(q))

LEMMA PendingFinite ==
  ASSUME NEW q \in Seq(Messages)
  PROVE  IsFiniteSet(HoldsIn(q)) /\ Pending(q) \in Nat
<1>1. Len(q) \in Nat /\ HoldsIn(q) \subseteq 1 .. Len(q)
  BY DEF HoldsIn
<1>2. IsFiniteSet(1 .. Len(q))
  BY <1>1, FS_Interval
<1>3. IsFiniteSet(HoldsIn(q))
  BY <1>1, <1>2, FS_Subset
<1> QED
  BY <1>3, FS_CardinalityType DEF Pending

LEMMA PendingAppend ==
  ASSUME NEW q \in Seq(Messages), NEW m \in Messages
  PROVE  Pending(Append(q, m)) = IF m.type = "hold" THEN Pending(q) + 1 ELSE Pending(q)
<1>1. /\ Len(Append(q, m)) = Len(q) + 1 /\ Len(q) \in Nat
      /\ Append(q, m)[Len(q) + 1] = m
      /\ \A i \in 1 .. Len(q) : Append(q, m)[i] = q[i]
  OBVIOUS
<1>2. HoldsIn(Append(q, m)) = HoldsIn(q) \union (IF m.type = "hold" THEN {Len(q) + 1} ELSE {})
  BY <1>1 DEF HoldsIn
<1>3. Len(q) + 1 \notin HoldsIn(q)
  BY <1>1 DEF HoldsIn
<1>4. IsFiniteSet(HoldsIn(q))
  BY PendingFinite
<1>5. Cardinality(HoldsIn(q) \union {Len(q) + 1}) = Cardinality(HoldsIn(q)) + 1
  BY <1>3, <1>4, FS_AddElement
<1> QED
  BY <1>2, <1>5 DEF Pending

LEMMA PendingTail ==
  ASSUME NEW q \in Seq(Messages), q # <<>>
  PROVE  /\ Pending(Tail(q)) <= Pending(q)
         /\ Head(q).type = "hold" => Pending(Tail(q)) + 1 <= Pending(q)
<1> DEFINE S == HoldsIn(Tail(q))  T == HoldsIn(q) \ {1}  f == [i \in S |-> i + 1]
<1>1. /\ Tail(q) \in Seq(Messages) /\ Head(q) = q[1] /\ Len(q) \in Nat \ {0}
      /\ Len(Tail(q)) = Len(q) - 1
      /\ \A i \in 1 .. Len(Tail(q)) : Tail(q)[i] = q[i + 1]
  OBVIOUS
<1>2. IsFiniteSet(HoldsIn(q)) /\ IsFiniteSet(S)
  BY <1>1, PendingFinite
<1>3. \A i \in S : i + 1 \in T /\ i \in Nat
  BY <1>1 DEF HoldsIn
<1>4. IsFiniteSet(T) /\ Cardinality(T) = IF 1 \in HoldsIn(q) THEN Cardinality(HoldsIn(q)) - 1
                                                             ELSE Cardinality(HoldsIn(q))
  BY <1>2, FS_RemoveElement
<1>5. Head(q).type = "hold" => 1 \in HoldsIn(q)
  BY <1>1 DEF HoldsIn
<1> HIDE DEF S, T
<1>6. f \in Injection(S, T)
  <2>1. f \in [S -> T]
    BY <1>3
  <2>2. \A i, j \in S : f[i] = f[j] => i = j
    BY <1>3
  <2> QED
    BY <2>1, <2>2 DEF Injection, IsInjective
<1>7. Cardinality(S) <= Cardinality(T)
  BY <1>4, <1>6, FS_Injection
<1>8. Cardinality(S) \in Nat /\ Cardinality(HoldsIn(q)) \in Nat
  BY <1>2, FS_CardinalityType
<1> QED
  BY <1>4, <1>5, <1>7, <1>8 DEF Pending, S

HoldsType == [cookie : 1 .. MaxCookie, profile : PpdProfiles, sender : Clients]

CookiesPart ==
  /\ nextCookie \in Nat \ {0} /\ nextCookie + Pending(queue) <= MaxCookie + 1
  /\ \A i \in 1 .. Len(queue) : queue[i].type = "hold" => queue[i].profile \in PpdProfiles
  /\ holds \subseteq HoldsType
  /\ told \in [Clients -> 0 .. MaxCookie]
  /\ alive \subseteq Clients /\ Len(queue) <= MaxQueue

\* A message of a client, which HoldProfile's bound leaves a cookie for.
LEMMA QueuedCookies ==
  ASSUME OwnersPart, CookiesPart, NEW m \in Messages, queue' = Append(queue, m),
         UNCHANGED <<holds, nextCookie>>, Len(queue) < MaxQueue,
         m.type = "hold" => m.profile \in PpdProfiles /\ nextCookie + Pending(queue) <= MaxCookie,
         alive' \subseteq alive, told' \in [Clients -> 0 .. MaxCookie]
  PROVE  CookiesPart'
<1>1. /\ queue \in Seq(Messages) /\ Len(queue') = Len(queue) + 1 /\ Len(queue) \in Nat
      /\ queue'[Len(queue) + 1] = m
      /\ \A i \in 1 .. Len(queue) : queue'[i] = queue[i]
  BY DEF OwnersPart
<1>2. Pending(queue') = IF m.type = "hold" THEN Pending(queue) + 1 ELSE Pending(queue)
  BY <1>1, PendingAppend
<1>3. Pending(queue) \in Nat
  BY <1>1, PendingFinite
<1>4. nextCookie' + Pending(queue') <= MaxCookie + 1
  BY <1>2, <1>3, PowerAssumption DEF CookiesPart
<1>5. \A i \in 1 .. Len(queue') : queue'[i].type = "hold" => queue'[i].profile \in PpdProfiles
  BY <1>1 DEF CookiesPart
<1>6. Len(queue') <= MaxQueue
  BY <1>1, PowerAssumption
<1> QED
  BY <1>4, <1>5, <1>6 DEF CookiesPart

\* A message is taken: the cookie of a request is the next.
LEMMA HandledCookies ==
  ASSUME OwnersPart, CookiesPart, Handle
  PROVE  CookiesPart'
<1>1. /\ queue \in Seq(Messages) /\ queue # <<>> /\ queue' = Tail(queue) /\ alive' = alive
      /\ Head(queue).type \in {"hold", "release", "gone"}
  BY DEF OwnersPart, Handle, HandleHold, HandleRelease, HandleGone, Dispatch
<1>2. /\ Len(queue') = Len(queue) - 1 /\ Len(queue) \in Nat \ {0} /\ Head(queue) = queue[1]
      /\ \A i \in 1 .. Len(queue') : queue'[i] = queue[i + 1]
  BY <1>1
<1>3. /\ Pending(queue') <= Pending(queue)
      /\ Head(queue).type = "hold" => Pending(queue') + 1 <= Pending(queue)
      /\ Pending(queue) \in Nat /\ Pending(queue') \in Nat
  <2>1. Tail(queue) \in Seq(Messages)
    BY <1>1
  <2> QED
    BY <1>1, <2>1, PendingTail, PendingFinite
<1>4. \A i \in 1 .. Len(queue') : queue'[i].type = "hold" => queue'[i].profile \in PpdProfiles
  BY <1>2 DEF CookiesPart
<1>5. Len(queue') <= MaxQueue
  BY <1>2, PowerAssumption DEF CookiesPart
<1>6. CASE HandleHold
  <2>1. Head(queue).type = "hold" /\ nextCookie' = nextCookie + 1
    BY <1>6 DEF HandleHold, Dispatch
  <2>2. nextCookie \in 1 .. MaxCookie /\ nextCookie' + Pending(queue') <= MaxCookie + 1
    BY <1>3, <2>1, PowerAssumption DEF CookiesPart
  <2>3. Head(queue).profile \in PpdProfiles /\ Head(queue).sender \in Clients
    <3>1. queue[1] \in Messages
      BY <1>1, <1>2
    <3> QED
      BY <1>2, <2>1, <3>1 DEF CookiesPart, Messages
  <2>4. holds' = holds \union {[cookie |-> nextCookie, profile |-> Head(queue).profile,
                                sender |-> Head(queue).sender]}
    BY <1>6 DEF HandleHold
  <2>5. holds' \subseteq HoldsType
    BY <2>2, <2>3, <2>4 DEF CookiesPart, HoldsType
  <2>6. told' = IF Head(queue).sender \in alive
                THEN [told EXCEPT ![Head(queue).sender] = nextCookie] ELSE told
    BY <1>6 DEF HandleHold
  <2>7. told' \in [Clients -> 0 .. MaxCookie]
    BY <2>2, <2>6 DEF CookiesPart
  <2> QED
    BY <1>1, <1>4, <1>5, <2>1, <2>2, <2>5, <2>7 DEF CookiesPart
<1>7. CASE HandleRelease \/ HandleGone
  <2>1. holds' \subseteq holds /\ nextCookie' = nextCookie /\ told' = told
    BY <1>7 DEF HandleRelease, HandleGone
  <2>2. nextCookie' + Pending(queue') <= MaxCookie + 1
    BY <1>3, <2>1, PowerAssumption DEF CookiesPart
  <2> QED
    BY <1>1, <1>4, <1>5, <2>1, <2>2 DEF CookiesPart
<1> QED
  BY <1>6, <1>7 DEF Handle

LEMMA NothingPending == Pending(<<>>) = 0 /\ Len(<<>>) = 0 /\ <<>> \in Seq(Messages)
<1>1. HoldsIn(<<>>) = {}
  BY DEF HoldsIn
<1> QED
  BY <1>1, FS_EmptySet DEF Pending

LEMMA CookiesStep ==
  ASSUME OwnersPart, CookiesPart, [Next]_vars
  PROVE  CookiesPart'
<1> USE DEF bus, limits, settings
<1>1. CASE StartDaemon \/ UNCHANGED vars
  BY <1>1 DEF StartDaemon, vars, CookiesPart
<1>2. CASE Crash
  <2>1. queue' = <<>> /\ nextCookie' = 1 /\ holds' = {} /\ UNCHANGED <<told, alive>>
    BY <1>2 DEF Crash
  <2>2. nextCookie' + Pending(queue') <= MaxCookie + 1 /\ Len(queue') <= MaxQueue
    BY <2>1, NothingPending, PowerAssumption
  <2>3. \A i \in 1 .. Len(queue') : queue'[i].type = "hold" => queue'[i].profile \in PpdProfiles
    BY <2>1, NothingPending
  <2> QED
    BY <2>1, <2>2, <2>3 DEF CookiesPart
<1>3. CASE \E p \in Profiles : SetProfile(p) \/ SetActiveProfile(p)
  <2>1. holds' \subseteq holds /\ UNCHANGED <<nextCookie, queue, told, alive>>
    BY <1>3 DEF SetProfile, SetActiveProfile
  <2> QED
    BY <2>1 DEF CookiesPart
<1>4. CASE Handle
  BY <1>4, HandledCookies
<1>5. ASSUME NEW c \in Clients, NEW p \in PpdProfiles, ClientHolds(c, p)
      PROVE  CookiesPart'
  <2> DEFINE m == [type |-> "hold", sender |-> c, profile |-> p, cookie |-> 0]
  <2>1. m \in Messages /\ queue' = Append(queue, m) /\ m.profile \in PpdProfiles
    BY <1>5 DEF ClientHolds, Messages
  <2>2. UNCHANGED <<holds, nextCookie, alive, told>> /\ Len(queue) < MaxQueue
    BY <1>5 DEF ClientHolds
  <2>3. nextCookie + Pending(queue) <= MaxCookie
    BY <1>5 DEF ClientHolds, Pending, HoldsIn
  <2> HIDE DEF m
  <2> QED
    BY <2>1, <2>2, <2>3, QueuedCookies DEF CookiesPart
<1>6. ASSUME NEW c \in Clients, ClientReleases(c)
      PROVE  CookiesPart'
  <2> DEFINE m == [type |-> "release", sender |-> c, profile |-> Default, cookie |-> told[c]]
  <2>1. m \in Messages /\ queue' = Append(queue, m) /\ m.type # "hold"
    BY <1>6 DEF ClientReleases, Messages, Profiles, Default, OwnersPart
  <2>2. UNCHANGED <<holds, nextCookie, alive>> /\ Len(queue) < MaxQueue
    BY <1>6 DEF ClientReleases
  <2>3. told' \in [Clients -> 0 .. MaxCookie]
    BY <1>6, PowerAssumption DEF ClientReleases, CookiesPart
  <2> HIDE DEF m
  <2> QED
    BY <2>1, <2>2, <2>3, QueuedCookies
<1>7. ASSUME NEW c \in Clients, ClientExits(c)
      PROVE  CookiesPart'
  <2>1. UNCHANGED <<holds, nextCookie>> /\ alive' \subseteq alive /\ Len(queue) < MaxQueue
    BY <1>7 DEF ClientExits
  <2>2. told' \in [Clients -> 0 .. MaxCookie]
    BY <1>7, PowerAssumption DEF ClientExits, CookiesPart
  <2>3. CASE ~up
    <3>1. queue' = queue
      BY <1>7, <2>3 DEF ClientExits
    <3> QED
      BY <2>1, <2>2, <3>1 DEF CookiesPart
  <2>4. CASE up
    <3> DEFINE m == [type |-> "gone", sender |-> c, profile |-> Default, cookie |-> 0]
    <3>1. m \in Messages /\ queue' = Append(queue, m) /\ m.type # "hold"
      BY <1>7, <2>4 DEF ClientExits, Messages, Profiles, Default
    <3> HIDE DEF m
    <3> QED
      BY <2>1, <2>2, <3>1, QueuedCookies
  <2> QED
    BY <2>3, <2>4
<1>8. CASE \/ \E lv \in Levels : SetLevel(lv)
           \/ \E mhz \in Clocks : SetClock(mhz)
           \/ \E g \in Governors : SetGovernor(g)
  BY <1>8 DEF SetLevel, SetClock, SetGovernor, CookiesPart
<1>9. CASE Reload \/ Suspend \/ Resume \/ Awake
  BY <1>9 DEF Reload, Suspend, Resume, Awake, CookiesPart
<1> QED
  BY <1>1, <1>2, <1>3, <1>4, <1>5, <1>6, <1>7, <1>8, <1>9 DEF Next
-----------------------------------------------------------------------------
(* The rest of the types.                                                  *)

ClockValues == Clocks \union GpuFreqs \union {0}

ValuesPart ==
  /\ up \in BOOLEAN /\ suspended \in BOOLEAN /\ unsaved \in BOOLEAN /\ unsaid \in BOOLEAN
  /\ announced \in Profiles
  /\ clock \in ClockValues /\ file.clock \in ClockValues /\ asked.clock \in ClockValues

LEMMA SaveValues ==
  ASSUME NEW p \in Profiles, NEW lv \in Levels, NEW mhz \in ClockValues,
         file.clock \in ClockValues, Save(p, lv, mhz)
  PROVE  file'.clock \in ClockValues /\ unsaved' \in BOOLEAN
<1>1. file' \in {[profile |-> p, level |-> lv, clock |-> mhz], file, NoFile}
  BY DEF Save
<1>2. file'.clock \in ClockValues
  BY <1>1 DEF NoFile, ClockValues
<1>3. unsaved' \in BOOLEAN
  BY Zenon DEF Save
<1> QED
  BY <1>2, <1>3

LEMMA AnnounceValues ==
  ASSUME NEW p \in Profiles, announced \in Profiles, unsaved' \in BOOLEAN, Announce(p)
  PROVE  announced' \in Profiles /\ unsaid' \in BOOLEAN
BY DEF Announce, Tell

\* set_gpu_manual_clock() rounds to a frequency of the GPU.
LEMMA RoundedValue ==
  ASSUME NEW mhz \in Nat
  PROVE  Closest(GpuFreqs, mhz) \in ClockValues
BY ClosestIn, Tables DEF ClockValues

LEMMA ValuesStep ==
  ASSUME SettingsPart, ValuesPart, [Next]_vars
  PROVE  ValuesPart'
<1> USE DEF bus, limits, settings
<1>1. CASE StartDaemon
  BY <1>1 DEF StartDaemon, ValuesPart, Tell, SettingsPart, Settings
<1>2. CASE Crash
  BY <1>2 DEF Crash, ValuesPart, Tell, Profiles, Default, ClockValues
<1>3. CASE \E p \in Profiles : SetProfile(p) \/ SetActiveProfile(p)
  <2>1. PICK p \in Profiles : SetProfile(p) \/ SetActiveProfile(p)
    BY <1>3
  <2>2. /\ Save(p, level, clock) /\ UNCHANGED <<up, suspended, clock>>
        /\ asked'.clock = clock'
        /\ Announce(p) \/ Announce(EffectiveOf(holds, p))
    BY <2>1 DEF SetProfile, SetActiveProfile, Kept
  <2>3. file'.clock \in ClockValues /\ unsaved' \in BOOLEAN
    BY <2>2, SaveValues DEF ValuesPart, SettingsPart
  <2>4. announced' \in Profiles /\ unsaid' \in BOOLEAN
    BY <2>2, <2>3, AnnounceValues, EffectiveIn DEF ValuesPart
  <2> QED
    BY <2>2, <2>3, <2>4 DEF ValuesPart
<1>4. CASE Handle
  <2>1. /\ UNCHANGED <<up, suspended, unsaved, clock, file, asked>>
        /\ Tell(EffectiveOf(holds', profile)) \/ UNCHANGED <<announced, unsaid>>
    BY <1>4 DEF Handle, HandleHold, HandleRelease, HandleGone
  <2>2. EffectiveOf(holds', profile) \in Profiles
    BY EffectiveIn DEF SettingsPart
  <2>3. announced' \in Profiles /\ unsaid' \in BOOLEAN
    BY <2>1, <2>2 DEF Tell, ValuesPart
  <2> QED
    BY <2>1, <2>3 DEF ValuesPart
<1>5. CASE \E lv \in Levels : SetLevel(lv)
  <2>1. PICK lv \in Levels : SetLevel(lv)
    BY <1>5
  <2>2. /\ Save(profile, lv, clock') /\ asked'.clock = clock'
        /\ UNCHANGED <<up, suspended, announced, unsaid>>
    BY <2>1 DEF SetLevel, Kept
  <2>3. clock' \in ClockValues
    <3>1. CASE lv = "auto"
      BY <2>1, <3>1 DEF SetLevel, ValuesPart
    <3>2. CASE lv # "auto"
      <4>1. (IF clock # 0 THEN clock ELSE Highest(GpuFreqs)) \in Nat
        BY Tables, TableEnds DEF Table, SettingsPart
      <4>2. clock' = Closest(GpuFreqs, IF clock # 0 THEN clock ELSE Highest(GpuFreqs))
        BY <2>1, <3>2 DEF SetLevel
      <4> QED
        BY <4>1, <4>2, RoundedValue
    <3> QED
      BY <3>1, <3>2
  <2>4. file'.clock \in ClockValues /\ unsaved' \in BOOLEAN
    BY <2>2, <2>3, SaveValues DEF ValuesPart, SettingsPart
  <2> QED
    BY <2>2, <2>3, <2>4 DEF ValuesPart
<1>6. CASE \E mhz \in Clocks : SetClock(mhz)
  <2>1. PICK mhz \in Clocks : SetClock(mhz)
    BY <1>6
  <2>2. /\ Save(profile, level, clock') /\ asked'.clock = clock'
        /\ UNCHANGED <<up, suspended, announced, unsaid>>
    BY <2>1 DEF SetClock, Kept
  <2>3. clock' = Closest(GpuFreqs, mhz) \/ clock' = mhz
    BY <2>1 DEF SetClock
  <2>4. mhz \in Nat /\ mhz \in ClockValues
    BY PowerAssumption DEF ClockValues
  <2>5. clock' \in ClockValues
    BY <2>3, <2>4, RoundedValue
  <2>6. file'.clock \in ClockValues /\ unsaved' \in BOOLEAN
    BY <2>2, <2>5, SaveValues DEF ValuesPart, SettingsPart
  <2> QED
    BY <2>2, <2>5, <2>6 DEF ValuesPart
<1>7. CASE \E g \in Governors : SetGovernor(g)
  <2>1. /\ Save(profile, level, clock) /\ asked'.clock = clock'
        /\ UNCHANGED <<up, suspended, announced, unsaid, clock>>
    BY <1>7 DEF SetGovernor, Kept
  <2>2. file'.clock \in ClockValues /\ unsaved' \in BOOLEAN
    BY <2>1, SaveValues DEF ValuesPart, SettingsPart
  <2> QED
    BY <2>1, <2>2 DEF ValuesPart
<1>8. CASE \E c \in Clients : \/ \E p \in PpdProfiles : ClientHolds(c, p)
                              \/ ClientReleases(c) \/ ClientExits(c)
  BY <1>8, ClientFrame DEF ValuesPart
<1>9. CASE Reload \/ Suspend \/ Resume \/ Awake
  BY <1>9 DEF Reload, Suspend, Resume, Awake, ValuesPart
<1>10. CASE UNCHANGED vars
  BY <1>10 DEF vars, ValuesPart
<1> QED
  BY <1>1, <1>2, <1>3, <1>4, <1>5, <1>6, <1>7, <1>8, <1>9, <1>10 DEF Next

\* The lower limit never passes the upper one, although each is written alone.
Sound(l) == l.min <= l.max

SoundPart ==
  /\ Sound(cpu) /\ Sound(gpu)
  /\ saved = NoLimits \/ saved \in [cpu : CpuLimits, gpu : GpuLimits]

LEMMA PutSound ==
  ASSUME NEW G, NEW S, NEW l \in LimitsOf(S, G), Sound(l), NEW f \in S
  PROVE  /\ Sound(PutMin(l, f)) /\ Sound(PutMax(l, f))
         /\ \A g : Sound(PutGov(l, g))
BY DEF PutMin, PutMax, PutGov, LimitsOf, Sound

LEMMA OffersSound ==
  /\ \A p \in Profiles : \A gov : Sound(CpuOf(p, gov))
  /\ \A p \in Profiles : Sound(AutoOf(p))
  /\ \A f \in GpuFreqs : Sound(PinnedTo(f))
<1>1. ASSUME NEW p \in Profiles, NEW gov
      PROVE  Sound(CpuOf(p, gov))
  <2>1. AtMost(CpuFreqs, CpuTarget[p]) \in CpuFreqs
    BY Tables, AtMostIn, PowerAssumption
  <2>2. Lowest(CpuFreqs) <= AtMost(CpuFreqs, CpuTarget[p])
    BY <2>1, Tables, TableEnds
  <2> QED
    BY <2>2 DEF CpuOf, Sound
<1>2. ASSUME NEW p \in Profiles
      PROVE  Sound(AutoOf(p))
  BY AutoIn DEF AutoOf, Sound
<1>3. ASSUME NEW f \in GpuFreqs
      PROVE  Sound(PinnedTo(f))
  <2>1. f \in Nat
    BY Tables DEF Table
  <2> QED
    BY <2>1 DEF PinnedTo, Sound
<1> QED
  BY <1>1, <1>2, <1>3

\* What apply_profile() and its callers leave is sound, whatever was there before.
LEMMA CpuForSound ==
  ASSUME NEW l \in CpuLimits, NEW p \in Profiles, NEW gov \in [Profiles -> Governors]
  PROVE  Sound(CpuFor(l, p, gov))
BY CpuForIs, OffersSound

LEMMA GpuAutoSound ==
  ASSUME NEW l \in GpuLimits, NEW p \in Profiles
  PROVE  Sound(GpuAuto(l, p))
BY GpuAutoIs, OffersSound

LEMMA GpuManualSound ==
  ASSUME NEW l \in GpuLimits, NEW mhz \in Nat
  PROVE  Sound(GpuManual(l, mhz))
BY GpuManualIs, OffersSound, ClosestIn, Tables

LEMMA GpuReappliedSound ==
  ASSUME NEW l \in GpuLimits, NEW lv \in Levels, NEW mhz \in Nat, Manual(lv, mhz),
         NEW p \in Profiles
  PROVE  Sound(GpuReapplied(l, lv, mhz, p))
<1>1. CASE lv = "auto"
  BY <1>1, GpuAutoSound DEF GpuReapplied
<1>2. CASE lv = "manual"
  BY <1>2, GpuManualSound, Tables DEF GpuReapplied, Manual, Table
<1> QED
  BY <1>1, <1>2 DEF Levels

LEMMA ApplySound ==
  ASSUME SettingsPart, LimitsPart, SoundPart, NEW hs, NEW p \in Profiles, Apply(hs, p)
  PROVE  Sound(cpu') /\ Sound(gpu')
<1>1. EffectiveOf(hs, p) \in Profiles
  BY EffectiveIn
<1>2. Sound(cpu')
  BY <1>1, CpuForSound DEF Apply, LimitsPart, SettingsPart
<1>3. Sound(gpu')
  BY <1>1, GpuAutoSound DEF Apply, GpuApplied, LimitsPart, SoundPart
<1> QED
  BY <1>2, <1>3

LEMMA ReapplySound ==
  ASSUME SettingsPart, NEW l \in CpuLimits, NEW m \in GpuLimits,
         NEW gov \in [Profiles -> Governors], cpu' = CpuFor(l, Effective, gov),
         gpu' = GpuReapplied(m, level, clock, Effective)
  PROVE  Sound(cpu') /\ Sound(gpu')
<1>1. Effective \in Profiles
  BY EffectiveIn DEF Effective, SettingsPart
<1> QED
  BY <1>1, CpuForSound, GpuReappliedSound DEF SettingsPart

LEMMA SoundStep ==
  ASSUME SettingsPart, LimitsPart, SoundPart, [Next]_vars
  PROVE  SoundPart'
<1> USE DEF bus, limits, settings
<1> SUFFICES /\ Sound(cpu') /\ Sound(gpu')
             /\ saved' = NoLimits \/ saved' \in [cpu : CpuLimits, gpu : GpuLimits]
  BY DEF SoundPart, Sound
<1>1. CASE StartDaemon
  <2>1. file.profile \in Profiles /\ file.level \in Levels /\ file.clock \in Nat
    BY DEF SettingsPart, Settings
  <2>2. Sound(cpu')
    BY <1>1, <2>1, CpuForSound DEF StartDaemon, LimitsPart, SettingsPart
  <2>3. Sound(gpu')
    BY <1>1, <2>1, GpuReappliedSound DEF StartDaemon, LimitsPart, SettingsPart
  <2>4. saved' = saved
    BY <1>1 DEF StartDaemon
  <2> QED
    BY <2>2, <2>3, <2>4 DEF SoundPart
<1>2. CASE Crash
  <2>1. saved' = NoLimits /\ cpu' \in {cpu, PutMin(cpu, Lowest(CpuFreqs))}
        /\ gpu' \in {gpu, PutMin(gpu, Lowest(GpuFreqs))}
    BY <1>2 DEF Crash
  <2>2. Sound(cpu') /\ Sound(gpu')
    BY <2>1, PutSound, Tables, TableEnds DEF LimitsPart, SoundPart, CpuLimits, GpuLimits
  <2> QED
    BY <2>1, <2>2
<1>3. CASE \E p \in Profiles : SetProfile(p) \/ SetActiveProfile(p)
  <2>1. PICK p \in Profiles : Apply(holds, p) \/ Apply({}, p)
    BY <1>3 DEF SetProfile, SetActiveProfile
  <2>2. saved' = saved
    BY <1>3 DEF SetProfile, SetActiveProfile
  <2> QED
    BY <2>1, <2>2, ApplySound DEF SoundPart
<1>4. CASE Handle
  <2>1. saved' = saved /\ (Apply(holds', profile) \/ UNCHANGED <<cpu, gpu>>)
    BY <1>4 DEF Handle, HandleHold, HandleRelease, HandleGone
  <2> QED
    BY <2>1, ApplySound DEF SoundPart, SettingsPart
<1>5. CASE \E lv \in Levels : SetLevel(lv)
  <2>1. PICK lv \in Levels : SetLevel(lv)
    BY <1>5
  <2>2. saved' = saved
    BY <2>1 DEF SetLevel
  <2>3. Effective \in Profiles
    BY EffectiveIn DEF Effective, SettingsPart
  <2>4. CASE lv = "auto"
    <3>1. cpu' = CpuFor(cpu, Effective, governor) /\ gpu' = GpuAuto(gpu, Effective)
      BY <2>1, <2>4 DEF SetLevel
    <3> QED
      BY <2>2, <2>3, <3>1, CpuForSound, GpuAutoSound DEF LimitsPart, SoundPart, SettingsPart
  <2>5. CASE lv # "auto"
    <3> DEFINE target == IF clock # 0 THEN clock ELSE Highest(GpuFreqs)
    <3>1. target \in Nat
      BY Tables, TableEnds DEF Table, SettingsPart
    <3>2. gpu' = GpuManual(gpu, target) /\ cpu' = cpu
      BY <2>1, <2>5 DEF SetLevel
    <3> HIDE DEF target
    <3> QED
      BY <2>2, <3>1, <3>2, GpuManualSound DEF LimitsPart, SoundPart
  <2> QED
    BY <2>4, <2>5
<1>6. CASE \E mhz \in Clocks : SetClock(mhz)
  <2>1. PICK mhz \in Clocks : SetClock(mhz)
    BY <1>6
  <2>2. /\ mhz \in Nat /\ cpu' = cpu /\ saved' = saved
        /\ gpu' = GpuManual(gpu, mhz) \/ gpu' = gpu
    BY <2>1, PowerAssumption DEF SetClock
  <2> QED
    BY <2>2, GpuManualSound DEF LimitsPart, SoundPart
<1>7. CASE \E g \in Governors : SetGovernor(g)
  <2>1. PICK g \in Governors : SetGovernor(g)
    BY <1>7
  <2>2. cpu' = PutGov(cpu, g) /\ gpu' = gpu /\ saved' = saved
    BY <2>1 DEF SetGovernor
  <2>3. Sound(PutGov(cpu, g))
    BY DEF SoundPart, LimitsPart, CpuLimits, LimitsOf, PutGov, Sound
  <2> QED
    BY <2>2, <2>3 DEF SoundPart
<1>8. CASE Suspend
  <2>1. /\ saved' = [cpu |-> cpu, gpu |-> gpu]
        /\ cpu' = PutMax(PutMin(cpu, Lowest(CpuFreqs)), Lowest(CpuFreqs))
        /\ gpu' = PutMax(PutMin(gpu, Lowest(GpuFreqs)), Lowest(GpuFreqs))
    BY <1>8 DEF Suspend
  <2>2. ASSUME NEW G, NEW S, Table(S), NEW l \in LimitsOf(S, G), Sound(l)
        PROVE  Sound(PutMax(PutMin(l, Lowest(S)), Lowest(S)))
    <3>1. Lowest(S) \in S
      BY <2>2, TableEnds
    <3>2. PutMin(l, Lowest(S)) \in LimitsOf(S, G) /\ Sound(PutMin(l, Lowest(S)))
      BY <2>2, <3>1, PutIn, PutSound
    <3> QED
      BY <3>1, <3>2, PutSound
  <2>3. Sound(cpu') /\ Sound(gpu')
    BY <2>1, <2>2, Tables DEF LimitsPart, SoundPart, CpuLimits, GpuLimits
  <2> QED
    BY <2>1, <2>3 DEF LimitsPart
<1>9. CASE Resume
  <2> DEFINE l == IF saved = NoLimits THEN cpu ELSE Put(cpu, saved.cpu, CpuFreqs)
             m == IF saved = NoLimits THEN gpu
                  ELSE PutGov(Put(gpu, saved.gpu, GpuFreqs), saved.gpu.gov)
  <2>1. l \in CpuLimits
    BY PutLimits, Tables DEF LimitsPart, CpuLimits
  <2>2. m \in GpuLimits
    <3>1. CASE saved = NoLimits
      BY <3>1 DEF LimitsPart
    <3>2. CASE saved # NoLimits
      <4> DEFINE k == Put(gpu, saved.gpu, GpuFreqs)
      <4>1. k \in GpuLimits /\ saved.gpu \in GpuLimits
        BY <3>2, PutLimits, Tables DEF LimitsPart, GpuLimits
      <4> HIDE DEF k
      <4>2. PutGov(k, saved.gpu.gov) \in GpuLimits
        BY <4>1 DEF PutGov, GpuLimits, LimitsOf
      <4> QED
        BY <3>2, <4>2 DEF k
    <3> QED
      BY <3>1, <3>2
  <2>3. /\ cpu' = CpuFor(l, Effective, governor)
        /\ gpu' = GpuReapplied(m, level, clock, Effective) /\ saved' = NoLimits
    BY <1>9 DEF Resume
  <2> HIDE DEF l, m
  <2> QED
    BY <2>1, <2>2, <2>3, ReapplySound DEF SettingsPart
<1>10. CASE Reload
  BY <1>10, ReapplySound, PowerAssumption DEF Reload, LimitsPart, SoundPart
<1>11. CASE Awake
  BY <1>11, ReapplySound DEF Awake, LimitsPart, SoundPart, SettingsPart
<1>12. CASE \E c \in Clients : \/ \E p \in PpdProfiles : ClientHolds(c, p)
                               \/ ClientReleases(c) \/ ClientExits(c)
  BY <1>12, ClientFrame DEF SoundPart
<1>13. CASE UNCHANGED vars
  BY <1>13 DEF vars, SoundPart
<1> QED
  BY <1>1, <1>2, <1>3, <1>4, <1>5, <1>6, <1>7, <1>8, <1>9, <1>10, <1>11, <1>12, <1>13 DEF Next

\* Every variable has its type: the limits are frequencies of the tables with the
\* lower one never past the upper one, whatever was written in which order; the
\* cookies given out, and those the requests under way will take, keep to the bound.
THEOREM TypeCorrect == Spec => []TypeOK
<1>1. Init => SettingsPart
  BY PowerAssumption DEF Init, SettingsPart, SettingsSurviveRestart, Settings, NoFile,
     Manual, Profiles, Levels, Default
<1>2. Init => OwnersPart
  BY DEF Init, OwnersPart, Ordered
<1>3. Init => CookiesPart
  <2> SUFFICES ASSUME Init PROVE CookiesPart
    OBVIOUS
  <2>1. queue = <<>> /\ nextCookie = 1 /\ holds = {} /\ alive = Clients
        /\ told = [c \in Clients |-> 0]
    BY DEF Init
  <2>2. nextCookie + Pending(queue) <= MaxCookie + 1 /\ Len(queue) <= MaxQueue
    BY <2>1, NothingPending, PowerAssumption
  <2>3. told \in [Clients -> 0 .. MaxCookie]
    BY <2>1, PowerAssumption
  <2>4. \A i \in 1 .. Len(queue) : queue[i].type = "hold" => queue[i].profile \in PpdProfiles
    BY <2>1
  <2>5. nextCookie \in Nat \ {0} /\ holds \subseteq HoldsType /\ alive \subseteq Clients
    BY <2>1
  <2> QED
    BY <2>2, <2>3, <2>4, <2>5 DEF CookiesPart
<1>4. Init => ValuesPart
  <2>1. Init => /\ up \in BOOLEAN /\ suspended \in BOOLEAN
                /\ unsaved \in BOOLEAN /\ unsaid \in BOOLEAN
    BY Zenon DEF Init
  <2>2. Init => announced \in Profiles /\ clock = 0 /\ file.clock = 0 /\ asked.clock = 0
    BY DEF Init, NoFile, Profiles, Default
  <2> QED
    BY <2>1, <2>2 DEF ValuesPart, ClockValues
<1>5. Init => SoundPart
  BY Tables, TableEnds DEF Init, SoundPart, CpuAny, GpuAny, Sound
<1>6. Init => ToldPart
  BY DEF Init, ToldPart, AnnouncedIsEffective
<1>7. SettingsPart /\ OwnersPart /\ CookiesPart /\ ValuesPart /\ LimitsPart /\ SoundPart
      => TypeOK
  <2> SUFFICES ASSUME SettingsPart, OwnersPart, CookiesPart, ValuesPart, LimitsPart, SoundPart
               PROVE  TypeOK
    OBVIOUS
  <2>1. /\ up \in BOOLEAN /\ suspended \in BOOLEAN /\ unsaved \in BOOLEAN
        /\ unsaid \in BOOLEAN /\ announced \in Profiles
    BY DEF ValuesPart
  <2>2. /\ profile \in Profiles /\ level \in Levels /\ governor \in [Profiles -> Governors]
        /\ clock \in Clocks \union GpuFreqs \union {0}
    BY DEF SettingsPart, ValuesPart, ClockValues
  <2>3. {file, asked} \subseteq
          [profile : Profiles, level : Levels, clock : Clocks \union GpuFreqs \union {0}]
    BY DEF SettingsPart, ValuesPart, Settings, ClockValues
  <2>4. /\ cpu \in LimitsOf(CpuFreqs, Governors) /\ cpu.min <= cpu.max
        /\ gpu \in LimitsOf(GpuFreqs, GpuGovernors) /\ gpu.min <= gpu.max
    BY DEF LimitsPart, SoundPart, CpuLimits, GpuLimits, Sound
  <2>5. saved = NoLimits \/ saved \in [cpu : LimitsOf(CpuFreqs, Governors),
                                       gpu : LimitsOf(GpuFreqs, GpuGovernors)]
    BY DEF SoundPart, CpuLimits, GpuLimits
  <2>6. nextCookie \in 1 .. MaxCookie + 1
    BY PendingFinite, PowerAssumption DEF CookiesPart, OwnersPart
  <2> QED
    BY <2>1, <2>2, <2>3, <2>4, <2>5, <2>6 DEF TypeOK, CookiesPart, HoldsType
<1> QED
  BY <1>1, <1>2, <1>3, <1>4, <1>5, <1>6, <1>7, InitLimits, SettingsStep, OwnersStep,
     CookiesStep, ValuesStep, LimitsStep, ToldStep, SoundStep, PTL DEF Spec
=============================================================================
