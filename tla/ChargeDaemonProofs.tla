------------------------- MODULE ChargeDaemonProofs -------------------------
(***************************************************************************)
(* What y700-charged guarantees for every configuration asked for, every   *)
(* foreign writer and every timing: what it is to answer for on the        *)
(* hardware is what is stored, and nothing the firmware does changes the   *)
(* stored threshold.                                                       *)
(***************************************************************************)
EXTENDS ChargeDaemon, TLAPS

\* A value the battery's driver leaves as it is.
Kept(n, v) == v \in Int /\ Driver(n, v) = v

LEMMA DriverKept ==
  ASSUME NEW n \in Nodes, NEW v \in Int
  PROVE  Kept(n, Driver(n, v))
BY DEF Nodes, Kept, Driver, Within

LEMMA ResetKept == \A n \in Nodes : Kept(n, Reset[n])
BY DEF Nodes, Kept, Reset, Driver, Within, MaxCurrent

LEMMA ClampRange == \A v \in Int : Clamp(v) \in 55..100
BY DEF Clamp, Within

LEMMA WantedInt ==
  ASSUME NEW c \in Configs
  PROVE  \A n \in Nodes : Wanted(c)[n] \in Int
BY ClampRange DEF Nodes, Configs, Wanted, MaxCurrent

LEMMA AdoptedConfig ==
  ASSUME cfg \in Configs, NEW end \in Int
  PROVE  Adopted(end) \in Configs
BY ClampRange DEF Adopted, Configs
-----------------------------------------------------------------------------
\* The nodes hold what the driver accepts, a node the firmware answers for holds
\* its reset value, and before the battery registers it answers for them all.
NodesPart ==
  /\ hw \in [Nodes -> Int] /\ DOMAIN by = Nodes
  /\ \A n \in Nodes : /\ Kept(n, hw[n])
                      /\ by[n] = "firmware" => hw[n] = Reset[n]
                      /\ ~present => by[n] = "firmware"

\* Unless mirroring failed, UPower offers what the text says: when the text is
\* the wanted one already, so are the limits on offer.
MirrorPart == ~behind => mirror = NoText \/ offered = mirror

IInv == cfg \in Configs /\ NodesPart /\ MirrorPart /\ AppliedIsStored

LEMMA LimitIsText == \A c : Limit(c) # NoText
BY DEF Limit, NoText

\* What apply_config() leaves in the hwdb.
LEMMA MirrorStep ==
  ASSUME MirrorPart, NEW q, Mirror(cfg, q) \/ MirrorFails(cfg, q), cfg' = cfg
  PROVE  MirrorPart' /\ (~behind' => mirror' = Limit(cfg) /\ offered' = Limit(cfg))
BY LimitIsText DEF MirrorPart, Mirror, MirrorFails, hwdb

\* Every critical section that applies the stored configuration ends well.
LEMMA ApplyStep ==
  ASSUME IInv, NEW bad, Apply(cfg, bad), UNCHANGED <<cfg, present>>
  PROVE  IInv'
<1> DEFINE stale == {n \in Nodes : present /\ hw[n] # Wanted(cfg)[n]}
           wrote == stale \ bad
           queue == IF wrote = {} THEN uevents ELSE Emitted(uevents, "change")
<1>0. MirrorPart' /\ (~behind' => mirror' = Limit(cfg) /\ offered' = Limit(cfg))
  <2>1. Mirror(cfg, queue) \/ MirrorFails(cfg, queue)
    BY DEF Apply
  <2> HIDE DEF queue
  <2> QED
    BY <2>1, MirrorStep DEF IInv
<1>1. /\ \A n \in Nodes : n \in bad => n \in stale
      /\ hw' = [n \in Nodes |-> IF n \in wrote THEN Driver(n, Wanted(cfg)[n]) ELSE hw[n]]
      /\ by' = [n \in Nodes |-> IF n \in bad THEN "failure"
                                ELSE IF present THEN "daemon" ELSE by[n]]
  BY DEF Apply, Nodes
<1>2. ASSUME NEW n \in Nodes
      PROVE  /\ Kept(n, hw'[n])
             /\ by'[n] = "firmware" => hw'[n] = Reset[n]
             /\ ~present => by'[n] = "firmware"
             /\ by'[n] = "daemon" => hw'[n] = Driver(n, Wanted(cfg)[n])
  <2>1. Kept(n, hw[n]) /\ Kept(n, Driver(n, Wanted(cfg)[n]))
    BY WantedInt, DriverKept DEF IInv, NodesPart
  <2>2. CASE present
    <3>1. n \notin bad => hw'[n] = Driver(n, Wanted(cfg)[n])
      BY <1>1, <2>1, <2>2 DEF Kept
    <3>2. by'[n] # "firmware"
      BY <1>1, <2>2
    <3>3. by'[n] = "daemon" => n \notin bad
      BY <1>1, <2>2
    <3>4. Kept(n, hw'[n])
      BY <1>1, <2>1
    <3> QED
      BY <2>2, <3>1, <3>2, <3>3, <3>4
  <2>3. CASE ~present
    <3>1. hw'[n] = hw[n] /\ by'[n] = by[n] /\ by[n] = "firmware"
      BY <1>1, <2>3 DEF IInv, NodesPart
    <3> QED
      BY <2>1, <2>3, <3>1 DEF IInv, NodesPart
  <2> QED
    BY <2>2, <2>3
<1>3. hw' \in [Nodes -> Int] /\ DOMAIN by' = Nodes
  <2>1. \A n \in Nodes : hw'[n] \in Int
    BY <1>2 DEF Kept
  <2> QED
    BY <1>1, <2>1
<1> QED
  BY <1>0, <1>2, <1>3 DEF IInv, NodesPart, MirrorPart, AppliedIsStored

\* So do the writes of everybody else, who answer for what they write.
LEMMA FoistStep ==
  ASSUME IInv, NEW new, NEW who \in {"firmware", "desktop", "nobody"}, NEW queue,
         Foist(new, who, queue), UNCHANGED <<cfg, hwdb, present, up, lock>>,
         \A n \in Nodes : n \in DOMAIN new =>
           Kept(n, new[n]) /\ present /\ (who = "firmware" => new[n] = Reset[n])
  PROVE  IInv'
<1>1. ASSUME NEW n \in Nodes
      PROVE  /\ Kept(n, hw'[n])
             /\ by'[n] = "firmware" => hw'[n] = Reset[n]
             /\ ~present => by'[n] = "firmware"
             /\ by'[n] = "daemon" => hw'[n] = hw[n] /\ by[n] = "daemon"
  <2>1. CASE n \in DOMAIN new
    BY <2>1 DEF Foist
  <2>2. CASE n \notin DOMAIN new
    BY <2>2 DEF Foist, IInv, NodesPart
  <2> QED
    BY <2>1, <2>2
<1>2. hw' \in [Nodes -> Int] /\ DOMAIN by' = Nodes
  <2>1. \A n \in Nodes : hw'[n] \in Int
    BY <1>1 DEF Kept
  <2> QED
    BY <2>1 DEF Foist
<1> QED
  BY <1>1, <1>2 DEF hwdb, IInv, NodesPart, MirrorPart, AppliedIsStored

LEMMA InitIInv == Init => IInv
<1> SUFFICES ASSUME Init PROVE IInv
  OBVIOUS
<1>1. cfg \in Configs
  BY DEF Init, DefaultConfig, Configs
<1>2. hw \in [Nodes -> Int]
  BY DEF Init, Reset, Nodes, MaxCurrent
<1>3. NodesPart
  BY <1>2, ResetKept DEF Init, NodesPart
<1>4. AppliedIsStored
  BY DEF Init, AppliedIsStored
<1>5. MirrorPart
  BY DEF Init, MirrorPart
<1> QED
  BY <1>1, <1>3, <1>4, <1>5 DEF IInv

LEMMA StepIInv ==
  ASSUME IInv, [Next]_vars
  PROVE  IInv'
<1> USE DEF daemon, clock, hwdb
<1>1. CASE Start
  BY <1>1, ApplyStep DEF Start
<1>2. CASE Listen
  BY <1>2 DEF Listen, IInv, NodesPart, MirrorPart, AppliedIsStored
<1>3. CASE HandleUsb \/ HandleBattery
  BY <1>3 DEF HandleUsb, HandleBattery, IInv, NodesPart, MirrorPart, AppliedIsStored
<1>4. CASE ApplyStored
  BY <1>4, ApplyStep DEF ApplyStored
<1>5. CASE AdoptExternal
  <2>1. cfg' \in Configs
    BY <1>5, AdoptedConfig DEF AdoptExternal, IInv, NodesPart, Nodes
  <2>2. cfg' = cfg \/ lock' = "main"
    BY <1>5 DEF AdoptExternal
  <2>3. UNCHANGED <<hw, hwdb, by, present, up>> /\ (lock' = lock \/ lock' = "main")
    BY <1>5 DEF AdoptExternal
  <2> QED
    BY <2>1, <2>2, <2>3 DEF IInv, NodesPart, MirrorPart, AppliedIsStored
<1>6. CASE AdoptApplies
  BY <1>6, ApplyStep DEF AdoptApplies
<1>7. CASE Reconcile
  <2>1. CASE BypassDropped
    BY <1>7, <2>1, ApplyStep DEF Reconcile
  <2>2. CASE ~BypassDropped
    BY <1>7, <2>2 DEF Reconcile, IInv, NodesPart, MirrorPart, AppliedIsStored
  <2> QED
    BY <2>1, <2>2
<1>8. CASE ClientSaves
  <2>1. cfg' \in Configs
    <3>1. PICK b \in {cfg.bypass, ~cfg.bypass}, p \in BOOLEAN,
               t \in {cfg.threshold} \union {Clamp(v) : v \in Asked} :
            cfg' = [bypass |-> b, protection |-> p, threshold |-> t]
      BY <1>8 DEF ClientSaves
    <3>2. b \in BOOLEAN
      BY DEF IInv, Configs
    <3>3. t \in 55..100
      BY ClampRange, ChargeAssumption DEF IInv, Configs
    <3> QED
      BY <3>1, <3>2, <3>3 DEF Configs
  <2> QED
    BY <1>8, <2>1 DEF ClientSaves, IInv, NodesPart, MirrorPart, AppliedIsStored
<1>9. CASE ClientApplies
  BY <1>9, ApplyStep DEF ClientApplies
<1>10. CASE Crash
  BY <1>10 DEF Crash, IInv, NodesPart, MirrorPart, AppliedIsStored
<1>11. CASE SupplyChanges
  <2>1. UNCHANGED <<cfg, hwdb, present, up, lock>>
    BY <1>11 DEF SupplyChanges
  <2>2. CASE present /\ Foist(Reset, "firmware", Emitted(Emitted(uevents, "usb"), "change"))
    BY <2>1, <2>2, FoistStep, ResetKept
  <2>3. CASE Foist(<<>>, "nobody", Emitted(uevents, "usb"))
    <3>1. \A n \in Nodes : n \notin DOMAIN <<>>
      OBVIOUS
    <3> QED
      BY <2>1, <2>3, <3>1, FoistStep
  <2> QED
    BY <1>11, <2>2, <2>3 DEF SupplyChanges
<1>12. CASE FirmwareResets
  BY <1>12, FoistStep, ResetKept DEF FirmwareResets
<1>13. CASE DesktopWrites
  <2>1. PICK e \in Desktop :
          Foist([end |-> e, start |-> Driver("start", e - 10)], "desktop",
                Emitted(uevents, "change"))
    BY <1>13 DEF DesktopWrites
  <2> DEFINE new == [end |-> e, start |-> Driver("start", e - 10)]
  <2>2. e \in 55..100
    BY ChargeAssumption
  <2>3. Kept("end", e) /\ Kept("start", Driver("start", e - 10))
    BY <2>2, DriverKept DEF Kept, Driver, Within, Nodes
  <2>4. \A n \in Nodes : n \in DOMAIN new => Kept(n, new[n])
    BY <2>3
  <2>5. present /\ UNCHANGED <<cfg, hwdb, present, up, lock>>
    BY <1>13 DEF DesktopWrites
  <2> HIDE DEF new
  <2> QED
    BY <2>1, <2>4, <2>5, FoistStep DEF new
<1>14. CASE BatteryRegisters \/ Tick \/ UNCHANGED vars
  BY <1>14 DEF BatteryRegisters, Tick, vars, IInv, NodesPart, MirrorPart, AppliedIsStored
<1> QED
  BY <1>1, <1>2, <1>3, <1>4, <1>5, <1>6, <1>7, <1>8, <1>9, <1>10, <1>11, <1>12,
     <1>13, <1>14 DEF Next, Boot, MainThread

THEOREM Invariance == Spec => []IInv
  BY InitIInv, StepIInv, PTL DEF Spec
-----------------------------------------------------------------------------
\* While the daemon runs and nobody is between saving and applying, every node the
\* daemon answers for agrees with the stored configuration; and so does what UPower
\* offers, over early returns, restarts and half-done mirrors, unless mirroring
\* failed since it last succeeded.
THEOREM AppliedStored == Spec => []AppliedIsStored
<1>1. IInv => AppliedIsStored
  BY DEF IInv
<1> QED
  BY <1>1, Invariance, PTL

\* No reset by the firmware, taken for an external change or not, changes the
\* stored threshold: only a client, or a limit written by somebody else, does.
THEOREM ThresholdStays == Spec => ThresholdKept
<1> DEFINE Kind == cfg'.threshold # cfg.threshold =>
                     lock' = "client" \/ by["end"] # "firmware"
<1>1. IInv /\ [Next]_vars => [Kind]_vars
  <2> SUFFICES ASSUME IInv, [Next]_vars, cfg'.threshold # cfg.threshold,
                      lock' # "client"
               PROVE  by["end"] # "firmware"
    OBVIOUS
  <2>1. AdoptExternal /\ cfg' # cfg
    BY DEF Next, Boot, MainThread, Start, Listen, HandleUsb, HandleBattery, ApplyStored,
       AdoptApplies, Reconcile, ClientSaves, ClientApplies, Crash, SupplyChanges,
       FirmwareResets, DesktopWrites, BatteryRegisters, Tick, vars
  <2>2. cfg' = Adopted(hw.end)
    BY <2>1 DEF AdoptExternal
  <2>3. hw.end # 100
    BY <2>2 DEF Adopted, IInv, Configs
  <2> QED
    BY <2>3 DEF IInv, NodesPart, Reset, Nodes
<1> QED
  BY <1>1, Invariance, PTL DEF Spec, ThresholdKept
-----------------------------------------------------------------------------
(* The types.                                                              *)

Kinds == {"usb", "change", "add"}

\* The queue of uevents.
LEMMA EmittedIs ==
  ASSUME NEW q \in Seq(Kinds), NEW k \in Kinds
  PROVE  Emitted(q, k) \in Seq(Kinds)
BY DEF Emitted

LEMMA TakenIs ==
  ASSUME uevents \in Seq(Kinds), uevents # <<>>
  PROVE  Tail(uevents) \in Seq(Kinds)
OBVIOUS

\* Both clamps, of the daemon and of the driver, keep every limit in its range.
LEMMA WantedRange ==
  ASSUME NEW c \in Configs
  PROVE  /\ Limit(c) \in Limits
         /\ Wanted(c).current \in {0, MaxCurrent}
         /\ Driver("current", Wanted(c).current) \in {0, MaxCurrent}
         /\ Driver("end", Wanted(c).end) \in 55..100
         /\ Driver("start", Wanted(c).start) \in 50..95
<1>1. Clamp(c.threshold) \in 55..100
  BY ClampRange DEF Configs
<1>2. /\ Wanted(c).start \in 45..95 /\ Wanted(c).end \in 55..100
      /\ Wanted(c).current \in {0, MaxCurrent}
  BY <1>1 DEF Wanted
<1> QED
  BY <1>2 DEF Limit, Limits, Driver, Within

NodesType ==
  /\ DOMAIN hw = Nodes /\ hw.current \in {0, MaxCurrent}
  /\ hw.end \in 55..100 /\ hw.start \in 50..95
  /\ mirror \in Limits \union {NoText} /\ offered \in Limits /\ behind \in BOOLEAN
  /\ by \in [Nodes -> {"daemon", "desktop", "firmware", "failure"}]
ControlType ==
  /\ present \in BOOLEAN /\ plugged \in BOOLEAN /\ usbOnline \in BOOLEAN
  /\ up \in {"down", "started", "up"}
  /\ main \in {"loop", "apply", "adopt", "saved"}
  /\ lock \in {"free", "client", "main"}
  /\ (lock = "main" <=> main = "saved")
  /\ (up # "up" => main = "loop" /\ lock = "free")
ClockType ==
  /\ uevents \in Seq(Kinds)
  /\ sinceWrite \in 0..SelfGrace /\ sincePlug \in 0..ReplugGrace
  /\ sinceCheck \in 0..Interval
  /\ budget \in 0..Budget
Types == cfg \in Configs /\ NodesType /\ ControlType /\ ClockType

LEMMA TypesIs == Types <=> TypeOK
BY DEF Types, NodesType, ControlType, ClockType, TypeOK, Kinds

LEMMA TriggeredIs ==
  ASSUME NEW q \in Seq(Kinds)
  PROVE  Triggered(q) \in Seq(Kinds)
<1>1. "usb" \in Kinds /\ "change" \in Kinds
  BY DEF Kinds
<1>2. (IF present THEN Emitted(q, "change") ELSE q) \in Seq(Kinds)
  BY <1>1, EmittedIs
<1> QED
  BY <1>1, <1>2, EmittedIs DEF Triggered

LEMMA MirrorTypes ==
  ASSUME Types, NEW q \in Seq(Kinds), Mirror(cfg, q) \/ MirrorFails(cfg, q)
  PROVE  /\ mirror' \in Limits \union {NoText} /\ offered' \in Limits
         /\ behind' \in BOOLEAN /\ uevents' \in Seq(Kinds)
<1>1. Limit(cfg) \in Limits
  BY WantedRange DEF Types
<1>2. Triggered(q) \in Seq(Kinds)
  BY TriggeredIs
<1>3. CASE Mirror(cfg, q)
  BY <1>1, <1>2, <1>3 DEF Mirror, hwdb, Types, NodesType
<1>4. CASE MirrorFails(cfg, q)
  BY <1>1, <1>2, <1>4 DEF MirrorFails, Types, NodesType
<1> QED
  BY <1>3, <1>4

LEMMA ApplyTypes ==
  ASSUME Types, NEW bad, Apply(cfg, bad)
  PROVE  /\ NodesType' /\ uevents' \in Seq(Kinds) /\ sinceWrite' \in 0..SelfGrace
         /\ budget' \in 0..Budget
<1> DEFINE stale == {n \in Nodes : present /\ hw[n] # Wanted(cfg)[n]}
           wrote == stale \ bad
           queue == IF wrote = {} THEN uevents ELSE Emitted(uevents, "change")
<1>1. /\ hw' = [n \in Nodes |-> IF n \in wrote THEN Driver(n, Wanted(cfg)[n]) ELSE hw[n]]
      /\ by' = [n \in Nodes |-> IF n \in bad THEN "failure"
                                ELSE IF present THEN "daemon" ELSE by[n]]
  BY DEF Apply
<1>2. /\ DOMAIN hw' = Nodes /\ hw'.current \in {0, MaxCurrent}
      /\ hw'.end \in 55..100 /\ hw'.start \in 50..95
  BY <1>1, WantedRange DEF Types, NodesType, Nodes
<1>3. /\ mirror' \in Limits \union {NoText} /\ offered' \in Limits
      /\ behind' \in BOOLEAN /\ uevents' \in Seq(Kinds)
  <2>1. Mirror(cfg, queue) \/ MirrorFails(cfg, queue)
    BY DEF Apply
  <2>2. "change" \in Kinds /\ uevents \in Seq(Kinds)
    BY DEF Kinds, Types, ClockType
  <2>3. queue \in Seq(Kinds)
    BY <2>2, EmittedIs
  <2> HIDE DEF queue
  <2> QED
    BY <2>1, <2>3, MirrorTypes
<1>4. by' \in [Nodes -> {"daemon", "desktop", "firmware", "failure"}]
  BY <1>1 DEF Types, NodesType
<1>5. sinceWrite' \in 0..SelfGrace
  <2>1. 0 \in 0..SelfGrace
    BY ChargeAssumption
  <2> QED
    BY <2>1 DEF Apply, Types, ClockType
<1>6. budget' \in 0..Budget
  BY ChargeAssumption DEF Apply, Spend, Types, ClockType
<1> QED
  BY <1>2, <1>3, <1>4, <1>5, <1>6 DEF NodesType

LEMMA StartRange ==
  ASSUME NEW v \in Int
  PROVE  Driver("start", v) \in 50..95
<1>1. Driver("start", v) = Within(v, 50, 95)
  BY DEF Driver
<1> QED
  BY <1>1 DEF Within

LEMMA FoistTypes ==
  ASSUME Types, NEW new, NEW who \in {"firmware", "desktop", "nobody"}, NEW queue \in Seq(Kinds),
         Foist(new, who, queue), UNCHANGED hwdb,
         who = "nobody" => DOMAIN new = {},
         "current" \in DOMAIN new => new["current"] \in {0, MaxCurrent},
         "end" \in DOMAIN new => new["end"] \in 55..100,
         "start" \in DOMAIN new => new["start"] \in 50..95
  PROVE  NodesType' /\ uevents' \in Seq(Kinds) /\ budget' \in 0..Budget
<1>1. /\ hw' = [n \in Nodes |-> IF n \in DOMAIN new THEN new[n] ELSE hw[n]]
      /\ by' = [n \in Nodes |-> IF n \in DOMAIN new THEN who ELSE by[n]]
      /\ uevents' = queue
  BY DEF Foist
<1>2. /\ DOMAIN hw' = Nodes /\ hw'.current \in {0, MaxCurrent}
      /\ hw'.end \in 55..100 /\ hw'.start \in 50..95
  BY <1>1 DEF Types, NodesType, Nodes
<1>3. by' \in [Nodes -> {"daemon", "desktop", "firmware", "failure"}]
  BY <1>1 DEF Types, NodesType
<1>4. budget' \in 0..Budget
  BY ChargeAssumption DEF Foist, Spend, Types, ClockType
<1> QED
  BY <1>1, <1>2, <1>3, <1>4 DEF hwdb, Types, NodesType

LEMMA ResetRange ==
  /\ Reset.current \in {0, MaxCurrent} /\ Reset.end \in 55..100 /\ Reset.start \in 50..95
  /\ Reset["current"] \in {0, MaxCurrent} /\ Reset["end"] \in 55..100
  /\ Reset["start"] \in 50..95 /\ DOMAIN Reset = Nodes
BY DEF Reset, Nodes, MaxCurrent

LEMMA InitTypes ==
  ASSUME Init
  PROVE  Types
<1>1. cfg \in Configs
  BY DEF Init, DefaultConfig, Configs
<1>2. NodesType
  BY <1>1, ResetRange, WantedRange DEF Init, NodesType
<1>3. ControlType
  BY ChargeAssumption DEF Init, ControlType
<1>4. ClockType
  BY ChargeAssumption DEF Init, ClockType
<1> QED
  BY <1>1, <1>2, <1>3, <1>4 DEF Types

\* The steps of the daemon that apply nothing.
LEMMA HandlerTypes ==
  ASSUME Types, \/ Listen \/ HandleUsb \/ HandleBattery \/ AdoptExternal \/ ClientSaves
                \/ Crash \/ BatteryRegisters \/ Tick \/ UNCHANGED vars
  PROVE  NodesType' /\ ControlType' /\ ClockType'
<1> USE DEF daemon, clock, hwdb
<1>1. CASE Listen
  BY <1>1, ChargeAssumption DEF Listen, Types, NodesType, ControlType, ClockType
<1>2. CASE HandleUsb \/ HandleBattery
  <2>1. uevents' \in Seq(Kinds)
    BY <1>2, TakenIs DEF HandleUsb, HandleBattery, Types, ClockType
  <2>2. sincePlug' \in 0..ReplugGrace
    BY <1>2, ChargeAssumption DEF HandleUsb, HandleBattery, Types, ClockType
  <2>3. ControlType'
    BY <1>2 DEF HandleUsb, HandleBattery, Looping, Types, ControlType
  <2>4. UNCHANGED <<hw, hwdb, by, sinceWrite, sinceCheck, budget>>
    BY <1>2 DEF HandleUsb, HandleBattery
  <2> QED
    BY <2>1, <2>2, <2>3, <2>4 DEF Types, NodesType, ClockType
<1>3. CASE AdoptExternal
  BY <1>3 DEF AdoptExternal, Types, NodesType, ControlType, ClockType
<1>4. CASE ClientSaves
  <2>1. budget' \in 0..Budget
    BY <1>4, ChargeAssumption DEF ClientSaves, Spend, Types, ClockType
  <2> QED
    BY <1>4, <2>1 DEF ClientSaves, Types, NodesType, ControlType, ClockType
<1>5. CASE Crash
  BY <1>5, ChargeAssumption DEF Crash, Spend, Types, NodesType, ControlType, ClockType
<1>6. CASE BatteryRegisters
  <2>1. "add" \in Kinds
    BY DEF Kinds
  <2>2. uevents' \in Seq(Kinds)
    BY <1>6, <2>1, EmittedIs DEF BatteryRegisters, Types, ClockType
  <2> QED
    BY <1>6, <2>2 DEF BatteryRegisters, Types, NodesType, ControlType, ClockType
<1>7. CASE Tick
  <2>1. /\ sinceWrite' \in 0..SelfGrace /\ sincePlug' \in 0..ReplugGrace
        /\ sinceCheck' \in 0..Interval
    BY <1>7, ChargeAssumption DEF Tick, Types, ClockType
  <2>2. UNCHANGED <<hw, hwdb, by, present, plugged, daemon, uevents, budget>>
    BY <1>7 DEF Tick
  <2> QED
    BY <2>1, <2>2 DEF Types, NodesType, ControlType, ClockType
<1>8. CASE UNCHANGED vars
  BY <1>8 DEF vars, Types, NodesType, ControlType, ClockType
<1> QED
  BY <1>1, <1>2, <1>3, <1>4, <1>5, <1>6, <1>7, <1>8

\* Those that apply the stored configuration.
LEMMA ApplyingTypes ==
  ASSUME Types, Start \/ ClientApplies \/ ApplyStored \/ AdoptApplies \/ Reconcile
  PROVE  NodesType' /\ ControlType' /\ ClockType'
<1> USE DEF daemon, clock, hwdb
<1>1. \/ \E bad : Apply(cfg, bad)
      \/ UNCHANGED <<hw, hwdb, by, uevents, sinceWrite, budget>>
  BY DEF Start, ClientApplies, ApplyStored, AdoptApplies, Reconcile
<1>2. /\ NodesType' /\ uevents' \in Seq(Kinds) /\ sinceWrite' \in 0..SelfGrace
      /\ budget' \in 0..Budget
  <2>1. CASE \E bad : Apply(cfg, bad)
    BY <2>1, ApplyTypes
  <2>2. CASE UNCHANGED <<hw, hwdb, by, uevents, sinceWrite, budget>>
    BY <2>2 DEF Types, NodesType, ClockType
  <2> QED
    BY <1>1, <2>1, <2>2
<1>3. ControlType'
  BY DEF Start, ClientApplies, ApplyStored, AdoptApplies, Reconcile, Due, Looping, Types,
         ControlType
<1>4. sincePlug' \in 0..ReplugGrace /\ sinceCheck' \in 0..Interval
  BY ChargeAssumption DEF Start, ClientApplies, ApplyStored, AdoptApplies, Reconcile, Types,
                          ClockType
<1> QED
  BY <1>2, <1>3, <1>4 DEF ClockType

\* Those of everybody else.
LEMMA ForeignTypes ==
  ASSUME Types, SupplyChanges \/ FirmwareResets \/ DesktopWrites
  PROVE  NodesType' /\ ControlType' /\ ClockType'
<1> USE DEF daemon, clock, hwdb
<1>1. "usb" \in Kinds /\ "change" \in Kinds /\ uevents \in Seq(Kinds)
  BY DEF Kinds, Types, ClockType
<1>2. /\ Emitted(uevents, "usb") \in Seq(Kinds) /\ Emitted(uevents, "change") \in Seq(Kinds)
      /\ Emitted(Emitted(uevents, "usb"), "change") \in Seq(Kinds)
  BY <1>1, EmittedIs
<1>3. UNCHANGED hwdb /\ UNCHANGED <<sinceWrite, sincePlug, sinceCheck>>
  BY DEF SupplyChanges, FirmwareResets, DesktopWrites
<1>4. ControlType'
  BY DEF SupplyChanges, FirmwareResets, DesktopWrites, Types, ControlType
<1>5. NodesType' /\ uevents' \in Seq(Kinds) /\ budget' \in 0..Budget
  <2>1. ASSUME NEW queue \in Seq(Kinds), Foist(Reset, "firmware", queue)
        PROVE  NodesType' /\ uevents' \in Seq(Kinds) /\ budget' \in 0..Budget
    BY <1>3, <2>1, FoistTypes, ResetRange
  <2>2. ASSUME NEW queue \in Seq(Kinds), Foist(<<>>, "nobody", queue)
        PROVE  NodesType' /\ uevents' \in Seq(Kinds) /\ budget' \in 0..Budget
    <3>1. DOMAIN <<>> = {}
      OBVIOUS
    <3> QED
      BY <1>3, <2>2, <3>1, FoistTypes
  <2>3. ASSUME NEW e \in Desktop, NEW queue \in Seq(Kinds),
               Foist([end |-> e, start |-> Driver("start", e - 10)], "desktop", queue)
        PROVE  NodesType' /\ uevents' \in Seq(Kinds) /\ budget' \in 0..Budget
    <3> DEFINE new == [end |-> e, start |-> Driver("start", e - 10)]
    <3>1. e \in 55..100
      BY ChargeAssumption
    <3>2. DOMAIN new = {"end", "start"} /\ new["end"] = e /\ new["start"] = Driver("start", e - 10)
      OBVIOUS
    <3>3. Driver("start", e - 10) \in 50..95
      BY <3>1, StartRange
    <3>4. "current" \notin DOMAIN new /\ new["end"] \in 55..100 /\ new["start"] \in 50..95
      BY <3>1, <3>2, <3>3
    <3> HIDE DEF new
    <3> QED
      BY <1>3, <2>3, <3>4, FoistTypes DEF new
  <2>4. CASE SupplyChanges
    BY <1>2, <2>1, <2>2, <2>4 DEF SupplyChanges
  <2>5. CASE FirmwareResets
    BY <1>2, <2>1, <2>5 DEF FirmwareResets
  <2>6. CASE DesktopWrites
    BY <1>2, <2>3, <2>6 DEF DesktopWrites
  <2> QED
    BY <2>4, <2>5, <2>6
<1> QED
  BY <1>3, <1>4, <1>5 DEF Types, ClockType

\* The lock is held by the main thread exactly between its save and its apply,
\* the nodes and the hwdb's mirror stay in the range of the driver and of the
\* clamp, and only a daemon that is up is inside a handler.
THEOREM TypeCorrect == Spec => []TypeOK
<1>1. Init => Types
  BY InitTypes
<1>2. IInv' /\ Types /\ [Next]_vars => Types'
  <2> SUFFICES ASSUME IInv', Types, [Next]_vars PROVE Types'
    OBVIOUS
  <2>1. NodesType' /\ ControlType' /\ ClockType'
    BY HandlerTypes, ApplyingTypes, ForeignTypes DEF Next, Boot, MainThread
  <2> QED
    BY <2>1 DEF IInv, Types
<1>3. Spec => []Types
  BY <1>1, <1>2, Invariance, PTL DEF Spec
<1> QED
  BY <1>3, TypesIs, PTL
=============================================================================
