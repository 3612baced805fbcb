----------------------------- MODULE ChargeDaemon -----------------------------
(***************************************************************************)
(* y700-charged: the stored charge configuration, the three nodes of the   *)
(* battery's sysfs it is applied to, the limits it has UPower offer, and   *)
(* everybody else who writes those nodes: the desktop (UPower) and the     *)
(* charger's firmware.                                                     *)
(*                                                                         *)
(* Simplifications.  Time passes in Tick, whose unit is 4 s, and not while *)
(* a handler runs or a uevent waits.  apply_config() is one step; a kill   *)
(* inside it leaves what one of its failures leaves, followed by Crash.    *)
(* The local hwdb takes effect through the compiled database and UPower;   *)
(* both count as refreshed or not.  A uevent carries nothing the handlers  *)
(* use, so one that is already queued is not queued twice.  Clients queue  *)
(* on the daemon's lock; each critical section of theirs is a step of "the *)
(* client".                                                                *)
(***************************************************************************)
EXTENDS Integers, Sequences, SequencesExt

CONSTANTS
  Asked,        \* thresholds a client may ask for
  Desktop,      \* end thresholds the desktop may write
  SelfGrace, ReplugGrace, Interval,   \* in Ticks
  ResetAnytime, \* the firmware resets the nodes at any time, not only when
                \* the supply comes or goes
  WritesFail,   \* a write to sysfs may fail, and a step of mirror_hwdb()
  BatteryLate,  \* the battery's driver may register after the daemon started
  Budget        \* bound on what the world does: requests, supply changes,
                \* foreign writes, failed writes, crashes

ASSUME ChargeAssumption ==
  /\ Asked \subseteq Int /\ Desktop \subseteq 55..100
  /\ {SelfGrace, ReplugGrace, Interval, Budget} \subseteq Nat
  /\ {ResetAnytime, WritesFail, BatteryLate} \subseteq BOOLEAN

MaxCurrent == 5         \* constant_charge_current_max; 0 bypasses the battery
Nodes == {"current", "end", "start"}
Parts == Nodes \union {"hwdb"}   \* of apply_config(): each may fail
Reset == [current |-> MaxCurrent, end |-> 100, start |-> 95]

VARIABLES
  cfg,        \* /etc/y700-charge/config.json
  hw,         \* node |-> what it reads
  mirror,     \* CHARGE_LIMIT in the local hwdb's text, NoText when the text
              \* is cut short or not the daemon's
  offered,    \* the limits UPower writes when it is asked to limit charging
  behind,     \* history: a mirror_hwdb() failed since the last whole one
  by,         \* history: node |-> who is to answer for its value
  present,    \* battery_present()
  plugged,    \* the supply is online
  up,         \* "down", "started" (no sockets yet) or "up"
  main,       \* what the main thread does next
  lock,       \* who is between save_config() and apply_config()
  usbOnline,  \* _usb_online
  uevents,    \* the netlink socket
  sinceWrite, sincePlug, sinceCheck,  \* Ticks since _last_write, _replug_at
                                      \* and last_reconcile, saturating
  budget

hwdb   == <<mirror, offered, behind>>
daemon == <<up, main, lock, usbOnline>>
clock  == <<sinceWrite, sincePlug, sinceCheck>>
vars == <<cfg, hw, hwdb, by, present, plugged, daemon, uevents, clock, budget>>

Within(v, low, high) == IF v < low THEN low ELSE IF v > high THEN high ELSE v

\* Faulty variant: the lower limit is forgotten.
ClampTop(v) == IF v > 100 THEN 100 ELSE v

\* _clamp_threshold()
Clamp(v) == Within(v, 55, 100)

\* What the battery's driver makes of a written value.
Driver(n, v) == CASE n = "end"   -> Within(v, 55, 100)
                  [] n = "start" -> Within(v, 50, 95)
                  [] OTHER       -> v

\* desired_thresholds() and the charge current.
Wanted(c) ==
  [current |-> IF c.bypass THEN 0 ELSE MaxCurrent,
   end     |-> IF c.protection THEN Clamp(c.threshold) ELSE 100,
   start   |-> IF c.protection THEN Clamp(c.threshold) - 10 ELSE 95]

\* _hwdb_body(): the text is that of its limits.
Limit(c) == <<Wanted(c).start, Wanted(c).end>>
NoText == <<>>

DefaultConfig == [bypass |-> FALSE, protection |-> TRUE, threshold |-> 80]

Init ==
  /\ cfg = DefaultConfig
  /\ hw = Reset
  /\ mirror = NoText                  \* the packaged text has other comments,
  /\ offered = Limit(DefaultConfig)   \* and these limits
  /\ behind = FALSE
  /\ by = [n \in Nodes |-> "firmware"]
  /\ present \in (IF BatteryLate THEN BOOLEAN ELSE {TRUE})
  /\ plugged \in BOOLEAN
  /\ up = "down" /\ main = "loop" /\ lock = "free" /\ usbOnline = FALSE
  /\ uevents = <<>>
  /\ sinceWrite = SelfGrace /\ sincePlug = ReplugGrace /\ sinceCheck = 0
  /\ budget = Budget

\* A uevent that the kernel adds to the queue q, once the daemon listens.
Emitted(q, k) == IF up = "up" /\ ~Contains(q, k) THEN Append(q, k) ELSE q

Spend(n) == budget >= n /\ budget' = budget - n

\* What `udevadm trigger` adds for the battery and for the supply.
Triggered(q) == Emitted(IF present THEN Emitted(q, "change") ELSE q, "usb")

\* mirror_hwdb(), with q the uevents so far: nothing to do when the text is the
\* wanted one already; else the text, and what makes UPower read it.
Mirror(c, q) ==
  IF mirror = Limit(c)
  THEN UNCHANGED hwdb /\ uevents' = q
  ELSE mirror' = Limit(c) /\ offered' = Limit(c) /\ behind' = FALSE /\ uevents' = Triggered(q)

\* It swallows an error, and looks at no exit status: the text is not opened, or
\* cut short, or is written and the compiled database or UPower not refreshed.
MirrorFails(c, q) ==
  /\ mirror # Limit(c)
  /\ mirror' \in {mirror, NoText, Limit(c)}
  /\ uevents' \in {q} \union (IF mirror' = Limit(c) THEN {Triggered(q)} ELSE {})
  /\ offered' = offered
  /\ behind' = TRUE

\* apply_config(): writes the nodes whose value differs, mirrors the limits.
\* The parts in bad fail, which goes unnoticed.
Apply(c, bad) ==
  LET stale == {n \in Nodes : present /\ hw[n] # Wanted(c)[n]}
      wrote == stale \ bad
      queue == IF wrote = {} THEN uevents ELSE Emitted(uevents, "change")
  IN  /\ bad \subseteq stale \union {"hwdb"}
      /\ bad # {} => WritesFail
      /\ Spend(IF bad = {} THEN 0 ELSE 1)
      /\ hw' = [n \in Nodes |-> IF n \in wrote THEN Driver(n, Wanted(c)[n]) ELSE hw[n]]
      /\ by' = [n \in Nodes |-> IF n \in bad THEN "failure"
                                ELSE IF present THEN "daemon" ELSE by[n]]
      /\ IF "hwdb" \in bad THEN MirrorFails(c, queue) ELSE Mirror(c, queue)
      /\ sinceWrite' = IF wrote = {} THEN sinceWrite ELSE 0
-----------------------------------------------------------------------------
(* The daemon's start.                                                     *)

Start ==
  /\ up = "down"
  /\ up' = "started" /\ usbOnline' = plugged
  /\ sinceCheck' = 0
  /\ \E bad \in SUBSET Parts : Apply(cfg, bad)
  /\ UNCHANGED <<cfg, present, plugged, main, lock, sincePlug>>

\* The sockets open: uevents from now on are seen.
Listen ==
  /\ up = "started"
  /\ up' = "up"
  /\ uevents' = <<>>
  /\ UNCHANGED <<cfg, hw, hwdb, by, present, plugged, main, lock, usbOnline,
                 clock, budget>>
-----------------------------------------------------------------------------
(* A client of the control socket.                                         *)

\* set_config(): each field may be missing from the request.
ClientSaves ==
  /\ up = "up" /\ lock = "free"
  /\ \E b \in {cfg.bypass, ~cfg.bypass}, p \in BOOLEAN,
        t \in {cfg.threshold} \union {Clamp(v) : v \in Asked} :
       cfg' = [bypass |-> b, protection |-> p, threshold |-> t]
  /\ lock' = "client"
  /\ Spend(1)
  /\ UNCHANGED <<hw, hwdb, by, present, plugged, up, main, usbOnline, uevents,
                 clock>>

ClientApplies ==
  /\ lock = "client"
  /\ lock' = "free"
  /\ \E bad \in SUBSET Parts : Apply(cfg, bad)
  /\ UNCHANGED <<cfg, present, plugged, up, main, usbOnline, sincePlug, sinceCheck>>
-----------------------------------------------------------------------------
(* The main thread.                                                        *)

Looping == up = "up" /\ main = "loop"

\* _handle_uevent() of the supply: a transition suppresses adoption for a
\* while, and going online applies the configuration.
HandleUsb ==
  /\ Looping /\ uevents # <<>> /\ Head(uevents) = "usb"
  /\ uevents' = Tail(uevents)
  /\ usbOnline' = plugged
  /\ IF plugged = usbOnline THEN UNCHANGED <<main, sincePlug>>
     ELSE sincePlug' = 0 /\ main' = IF plugged THEN "apply" ELSE "loop"
  /\ UNCHANGED <<cfg, hw, hwdb, by, present, plugged, up, lock, sinceWrite,
                 sinceCheck, budget>>

\* _handle_uevent() of the battery.
HandleBattery ==
  /\ Looping /\ uevents # <<>> /\ Head(uevents) # "usb"
  /\ uevents' = Tail(uevents)
  /\ main' = IF Head(uevents) = "add" THEN "apply" ELSE "adopt"
  /\ UNCHANGED <<cfg, hw, hwdb, by, present, plugged, up, lock, usbOnline,
                 clock, budget>>

\* apply_config(load_config()) under the lock.
ApplyStored ==
  /\ main = "apply" /\ lock = "free"
  /\ main' = "loop"
  /\ \E bad \in SUBSET Parts : Apply(cfg, bad)
  /\ UNCHANGED <<cfg, present, plugged, up, lock, usbOnline, sincePlug, sinceCheck>>

\* Faulty variant: the threshold is taken over even when there is no limit.
AdoptedAlways(end) ==
  [cfg EXCEPT !.protection = end < 100, !.threshold = Clamp(end)]

\* The configuration that stands for a foreign end threshold.
Adopted(end) ==
  IF end >= 100 THEN [cfg EXCEPT !.protection = FALSE]
  ELSE [cfg EXCEPT !.protection = TRUE, !.threshold = Clamp(end)]

Foreign ==
  /\ sinceWrite >= SelfGrace /\ sincePlug >= ReplugGrace
  /\ present
  /\ hw.end # Wanted(cfg).end

\* Faulty variant: what was adopted is stored and not applied.
AdoptExternalStores ==
  /\ main = "adopt" /\ lock = "free"
  /\ main' = "loop"
  /\ cfg' = IF Foreign THEN Adopted(hw.end) ELSE cfg
  /\ UNCHANGED <<hw, hwdb, by, present, plugged, up, lock, usbOnline, uevents,
                 clock, budget>>

\* adopt_external(), up to save_config().
AdoptExternal ==
  /\ main = "adopt" /\ lock = "free"
  /\ IF Foreign THEN main' = "saved" /\ lock' = "main" /\ cfg' = Adopted(hw.end)
     ELSE main' = "loop" /\ UNCHANGED <<lock, cfg>>
  /\ UNCHANGED <<hw, hwdb, by, present, plugged, up, usbOnline, uevents, clock,
                 budget>>

AdoptApplies ==
  /\ main = "saved"
  /\ main' = "loop" /\ lock' = "free"
  /\ \E bad \in SUBSET Parts : Apply(cfg, bad)
  /\ UNCHANGED <<cfg, present, plugged, up, usbOnline, sincePlug, sinceCheck>>

Due == Looping /\ uevents = <<>> /\ sinceCheck >= Interval /\ lock = "free"
BypassDropped == cfg.bypass /\ present /\ hw.current # 0

\* Faulty variant: only adopts.
ReconcileAdopts ==
  /\ Due
  /\ sinceCheck' = 0
  /\ main' = "adopt"
  /\ UNCHANGED <<cfg, hw, hwdb, by, present, plugged, up, lock, usbOnline,
                 uevents, sinceWrite, sincePlug, budget>>

\* Faulty variant: only heals.
ReconcileHeals ==
  /\ Due
  /\ sinceCheck' = 0
  /\ IF BypassDropped THEN \E bad \in SUBSET Parts : Apply(cfg, bad)
     ELSE UNCHANGED <<hw, hwdb, by, uevents, sinceWrite, budget>>
  /\ UNCHANGED <<cfg, present, plugged, daemon, sincePlug>>

\* reconcile(), once the uevents are drained: heals a dropped bypass, else
\* releases the lock and adopts.
Reconcile ==
  /\ Due
  /\ sinceCheck' = 0
  /\ IF BypassDropped
     THEN (\E bad \in SUBSET Parts : Apply(cfg, bad)) /\ UNCHANGED main
     ELSE main' = "adopt" /\ UNCHANGED <<hw, hwdb, by, uevents, sinceWrite, budget>>
  /\ UNCHANGED <<cfg, present, plugged, up, lock, usbOnline, sincePlug>>

\* SIGTERM, a crash, a reboot of the service; clients go down with it.
Crash ==
  /\ up # "down"
  /\ up' = "down" /\ main' = "loop" /\ lock' = "free"
  /\ uevents' = <<>>
  /\ sinceWrite' = SelfGrace /\ sincePlug' = ReplugGrace /\ sinceCheck' = 0
  /\ Spend(1)
  /\ UNCHANGED <<cfg, hw, hwdb, by, present, plugged, usbOnline>>
-----------------------------------------------------------------------------
(* The world.                                                              *)

Foist(new, who, queue) ==
  /\ hw' = [n \in Nodes |-> IF n \in DOMAIN new THEN new[n] ELSE hw[n]]
  /\ by' = [n \in Nodes |-> IF n \in DOMAIN new THEN who ELSE by[n]]
  /\ uevents' = queue
  /\ Spend(1)

\* The supply comes or goes; "usually" the firmware drops the limits.
SupplyChanges ==
  /\ plugged' = ~plugged
  /\ \/ present /\ Foist(Reset, "firmware", Emitted(Emitted(uevents, "usb"), "change"))
     \/ Foist(<<>>, "nobody", Emitted(uevents, "usb"))
  /\ UNCHANGED <<cfg, hwdb, present, daemon, clock>>

FirmwareResets ==
  /\ ResetAnytime /\ present
  /\ Foist(Reset, "firmware", Emitted(uevents, "change"))
  /\ UNCHANGED <<cfg, hwdb, present, plugged, daemon, clock>>

\* UPower writes the start and the end threshold.
DesktopWrites ==
  /\ present
  /\ \E e \in Desktop :
       Foist([end |-> e, start |-> Driver("start", e - 10)], "desktop",
             Emitted(uevents, "change"))
  /\ UNCHANGED <<cfg, hwdb, present, plugged, daemon, clock>>

BatteryRegisters ==
  /\ ~present
  /\ present' = TRUE
  /\ uevents' = Emitted(uevents, "add")
  /\ UNCHANGED <<cfg, hw, hwdb, by, plugged, daemon, clock, budget>>

Tick ==
  /\ main = "loop" /\ lock = "free" /\ uevents = <<>>
  /\ sinceWrite' = IF sinceWrite < SelfGrace THEN sinceWrite + 1 ELSE sinceWrite
  /\ sincePlug' = IF sincePlug < ReplugGrace THEN sincePlug + 1 ELSE sincePlug
  /\ sinceCheck' = IF sinceCheck < Interval THEN sinceCheck + 1 ELSE sinceCheck
  /\ UNCHANGED <<cfg, hw, hwdb, by, present, plugged, daemon, uevents, budget>>
-----------------------------------------------------------------------------
Boot == Start \/ Listen
MainThread == \/ HandleUsb \/ HandleBattery \/ ApplyStored \/ AdoptExternal
              \/ AdoptApplies \/ Reconcile

Next ==
  \/ Boot \/ MainThread \/ ClientSaves \/ ClientApplies \/ Crash
  \/ SupplyChanges \/ FirmwareResets \/ DesktopWrites \/ BatteryRegisters \/ Tick

Spec == Init /\ [][Next]_vars

\* systemd restarts the daemon whenever it is down; time passes; the main
\* thread obtains the lock, which clients release, sooner or later.
Fairness == WF_vars(Boot) /\ SF_vars(MainThread) /\ WF_vars(ClientApplies)
              /\ WF_vars(Tick)

FairSpec == Spec /\ Fairness
-----------------------------------------------------------------------------
Limits == (45..95) \X (55..100)
Configs == [bypass : BOOLEAN, protection : BOOLEAN, threshold : 55..100]

TypeOK ==
  /\ cfg \in Configs
  /\ DOMAIN hw = Nodes /\ hw.current \in {0, MaxCurrent}
  /\ hw.end \in 55..100 /\ hw.start \in 50..95
  /\ mirror \in Limits \union {NoText} /\ offered \in Limits /\ behind \in BOOLEAN
  /\ by \in [Nodes -> {"daemon", "desktop", "firmware", "failure"}]
  /\ present \in BOOLEAN /\ plugged \in BOOLEAN /\ usbOnline \in BOOLEAN
  /\ up \in {"down", "started", "up"}
  /\ main \in {"loop", "apply", "adopt", "saved"}
  /\ lock \in {"free", "client", "main"}
  /\ lock = "main" <=> main = "saved"
  /\ up # "up" => main = "loop" /\ lock = "free"
  /\ uevents \in Seq({"usb", "change", "add"})
  /\ sinceWrite \in 0..SelfGrace /\ sincePlug \in 0..ReplugGrace
  /\ sinceCheck \in 0..Interval
  /\ budget \in 0..Budget

\* While the daemon runs and nobody is between saving and applying, every
\* node that nobody else wrote, and whose write did not fail, is what the
\* stored configuration asks for, as the driver clamps it; and unless mirroring
\* failed since it last succeeded, the desktop offers the stored limit.
AppliedIsStored ==
  up # "down" /\ lock = "free" =>
    /\ \A n \in Nodes : by[n] = "daemon" => hw[n] = Driver(n, Wanted(cfg)[n])
    /\ ~behind => mirror = Limit(cfg) /\ offered = Limit(cfg)

\* Whatever the firmware resets and the daemon takes for an external change,
\* the threshold the user chose stays stored: protection can be switched on
\* again and comes back with it.
ThresholdKept ==
  [][cfg'.threshold # cfg.threshold => lock' = "client" \/ by["end"] # "firmware"]_vars

\* A bypass that the firmware dropped is set again, or was given up.
BypassHealed == BypassDropped ~> ~BypassDropped

\* Once the world leaves the daemon alone, the stored configuration and the
\* hardware agree on the end threshold for ever.
Converges == <>[](present => hw.end = Wanted(cfg).end)

\* _handle_uevent(): "suppress adoption for a moment so the resulting reset is
\* not read as an external change".  A reset by the firmware never turns the
\* stored protection off once the daemon has seen the supply's transition.
ResetNotAdopted ==
  [][cfg.protection /\ by["end"] = "firmware" /\ usbOnline = plugged =>
       cfg'.protection \/ lock' = "client"]_vars
=============================================================================
