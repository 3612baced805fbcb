----------------------------- MODULE FanControl -----------------------------
(***************************************************************************)
(* armada-powerd as the fan controller: the tick that reads temperatures   *)
(* and moves the PWM, its suspended regime, its failures, and who leaves   *)
(* the fan safe when the daemon stops or dies.                             *)
(*                                                                         *)
(* Simplifications.  Of the readings only what the code computes from them *)
(* is kept, the mean of the three hottest (read_temp) and the hottest      *)
(* (read_temp_max), both 0 when no zone could be read.  The smoothed       *)
(* temperature is a weighted mean of its old value and the reading in      *)
(* floating point; here its whole degrees are any value between the two.   *)
(* A tick is two actions, what it computes and what it writes, because a   *)
(* signal handler may run between them; the handler counts as installed    *)
(* from the tick of the constructor on.  write_text() swallows the errors  *)
(* of every write, those of fan_safe() included.                           *)
(***************************************************************************)
EXTENDS Integers, Sequences

CONSTANTS
  MinPwm, MaxPwm,    \* min_pwm, max_pwm
  RampUp, RampDown,  \* the largest change of one tick
  Quantum,           \* pwm_quantum
  FanSafePwm,        \* FAN_SAFE_PWM
  LowPwm, SleepPwm,  \* fan_low_pwm, fan_safe_pwm of [suspend]
  SafeAbove,         \* fan_safe_above
  MaxTemp,           \* bound: the hottest reading
  BootPwms,          \* what the fan's driver may leave in pwm1 at boot
  MaxLag,            \* bound: lost writes in a row that the ramp is followed over
  Curves             \* the fan curves of the profiles, each a sequence of
                     \* <<temperature, pwm>> sorted by temperature

Temps == 0 .. MaxTemp
Pwms  == 0 .. 255

ASSUME FanAssumption ==
  /\ MinPwm \in Pwms /\ MaxPwm \in Pwms /\ MinPwm <= MaxPwm
  /\ RampUp \in Nat /\ RampDown \in Nat
  /\ Quantum \in 1 .. 255
  /\ FanSafePwm \in Pwms
  /\ LowPwm \in 0 .. MaxPwm /\ SleepPwm \in LowPwm .. MaxPwm
  /\ SafeAbove \in Nat /\ MaxTemp \in Nat
  /\ BootPwms \subseteq Pwms /\ MaxLag \in Nat
  /\ Curves \subseteq Seq(Nat \X Nat)
  /\ \A c \in Curves :
       /\ Len(c) > 0
       /\ \A i \in 1 .. Len(c) - 1 : c[i][1] <= c[i + 1][1]

Min2(a, b) == IF a <= b THEN a ELSE b
Max2(a, b) == IF a <= b THEN b ELSE a
Clamp(x, low, high) == Max2(low, Min2(high, x))

\* Python's round(n / d): to the nearest, halves to the even neighbour.
RoundDiv(n, d) ==
  LET q == n \div d
      r == n % d
  IN  IF 2 * r < d THEN q ELSE IF 2 * r > d THEN q + 1 ELSE q + (q % 2)

\* Faulty variant: a plain multiple of the quantum, rounded down.
QuantizeDown(n, d) ==
  Clamp((n \div (d * Quantum)) * Quantum, MinPwm, MaxPwm)

\* quantize_pwm(n / d): the nearest multiple of the quantum (whole part only
\* when the quantum is 1), within the limits.
Quantize(n, d) ==
  Clamp(IF Quantum > 1 THEN RoundDiv(n, d * Quantum) * Quantum ELSE n \div d,
        MinPwm, MaxPwm)

\* target_pwm(): piecewise linear between the points of the curve.
Target(c, temp) ==
  IF temp <= c[1][1] THEN Quantize(c[1][2], 1)
  ELSE IF temp >= c[Len(c)][1] THEN Quantize(c[Len(c)][2], 1)
  ELSE LET i    == CHOOSE j \in 1 .. Len(c) - 1 :
                     /\ c[j][1] <= temp /\ temp <= c[j + 1][1]
                     /\ \A k \in 1 .. j - 1 : ~(c[k][1] <= temp /\ temp <= c[k + 1][1])
           span == c[i + 1][1] - c[i][1]
       IN  IF span = 0 THEN Quantize(c[i + 1][2], 1)
           ELSE Quantize(c[i][2] * span + (c[i + 1][2] - c[i][2]) * (temp - c[i][1]),
                         span)

\* suspend_target_pwm()
SleepTarget(temp) == IF temp = 0 \/ temp >= SafeAbove THEN SleepPwm ELSE LowPwm

VARIABLES
  phase,      \* what the process is doing, see Phases
  suspended,  \* self.suspended
  curve,      \* fan_curve of the profile in effect
  mean, hot,  \* read_temp(), read_temp_max()
  smoothed,   \* int(self.smoothed_temp)
  last,       \* self.last_pwm
  pending,    \* the value a tick is about to write
  hw,         \* pwm1
  regime,     \* history: which branch chose last
  lag,        \* history: ticks whose write was lost since pwm1 was last_pwm;
              \* Apart when pwm1 has nothing to do with last_pwm
  missed      \* history: who was to leave the fan safe at this end of the
              \* daemon, but never ran or lost its write

sensors == <<mean, hot, smoothed>>
history == <<regime, lag, missed>>
vars == <<phase, suspended, curve, mean, hot, smoothed, last, pending, hw,
          regime, lag, missed>>

Apart == MaxLag + 1

\* "run": in the main loop; "write": a tick about to write; "stopWrite": the
\* same, after the handler of SIGTERM ran; "stopping": the finally clause is
\* left to run; "exited": ExecStopPost is left to run; "down": it has run.
Phases == {"run", "write", "stopWrite", "stopping", "exited", "down"}

\* The device has booted, and nobody has written pwm1.
Init ==
  /\ phase = "down"
  /\ suspended = FALSE
  /\ curve \in Curves
  /\ mean = 0 /\ hot = 0 /\ smoothed = 0
  /\ hw \in BootPwms
  /\ last = 0 /\ pending = 0
  /\ regime = "none" /\ lag = Apart
  /\ missed = {"finally", "stopPost"}
-----------------------------------------------------------------------------
(* The environment.                                                        *)

Sense ==
  /\ \E m \in Temps, h \in Temps :
       /\ m <= h /\ (m = 0 <=> h = 0)
       /\ <<m, h>> # <<mean, hot>>
       /\ mean' = m /\ hot' = h
  /\ UNCHANGED <<phase, suspended, curve, smoothed, last, pending, hw, history>>

\* Another profile, a hold, or a Reload puts another curve in effect.
ChangeCurve ==
  /\ phase = "run"
  /\ curve' \in Curves \ {curve}
  /\ UNCHANGED <<phase, suspended, sensors, last, pending, hw, history>>
-----------------------------------------------------------------------------
(* fan_tick()                                                              *)

\* Faulty variant: no limit on how fast the fan may slow down.
NextPwmDrop(from, target) ==
  Clamp(IF target > from THEN Min2(target, from + RampUp) ELSE target,
        MinPwm, MaxPwm)

\* One step of the ramp from one speed towards the target.
NextPwm(from, target) ==
  Clamp(IF target > from THEN Min2(target, from + RampUp)
        ELSE Max2(target, from - RampDown),
        MinPwm, MaxPwm)

\* Faulty variant: without a reading the fan holds its speed.
NormalTickHolds(s, from) ==
  /\ smoothed' \in IF mean = 0 THEN {s} ELSE IF s = 0 THEN {mean}
                   ELSE Min2(s, mean) .. Max2(s, mean)
  /\ last' = NextPwm(from, IF mean = 0 THEN from ELSE Target(curve, smoothed'))
  /\ pending' = last'
  /\ regime' = "normal"

\* Faulty variant: the new reading is added without its weight.
NormalTickUnweighted(s, from) ==
  /\ smoothed' = s + mean
  /\ last' = NextPwm(from, IF mean = 0 THEN FanSafePwm ELSE Target(curve, smoothed'))
  /\ pending' = last'
  /\ regime' = "normal"

\* Awake, with s the smoothed temperature and from the demand so far.
NormalTick(s, from) ==
  /\ smoothed' \in IF mean = 0 THEN {s} ELSE IF s = 0 THEN {mean}
                   ELSE Min2(s, mean) .. Max2(s, mean)
  /\ last' = NextPwm(from, IF mean = 0 THEN FanSafePwm ELSE Target(curve, smoothed'))
  /\ pending' = last'
  /\ regime' = "normal"

SleepTick ==
  /\ smoothed' = hot
  /\ last' = Clamp(SleepTarget(hot), 0, MaxPwm)
  /\ pending' = last'
  /\ regime' = "sleep"

Tick ==
  /\ phase = "run"
  /\ phase' = "write"
  /\ IF suspended THEN SleepTick ELSE NormalTick(smoothed, last)
  /\ UNCHANGED <<suspended, curve, mean, hot, hw, lag, missed>>

TickWrite ==
  /\ phase = "write"
  /\ phase' = "run"
  /\ hw' = pending
  /\ lag' = 0
  /\ UNCHANGED <<suspended, curve, sensors, last, pending, regime, missed>>

\* write_text() swallows the error; the next tick writes again.
TickWriteLost ==
  /\ phase = "write"
  /\ phase' = "run"
  /\ lag' = IF regime = "normal" THEN Min2(lag + 1, Apart) ELSE Apart
  /\ UNCHANGED <<suspended, curve, sensors, last, pending, hw, regime, missed>>

\* A write of the safe speed, which may be lost.
WriteSafe ==
  \/ hw' = FanSafePwm /\ lag' = 0
  \/ hw' = hw /\ lag' = Apart

\* Faulty variant: the hardware is made safe, last_pwm is forgotten.
FanSafeForgets ==
  /\ WriteSafe
  /\ last' = last
  /\ regime' = "safe"

\* fan_safe()
FanSafe ==
  /\ WriteSafe
  /\ last' = FanSafePwm
  /\ regime' = "safe"

\* Any exception in a tick, before its write or after it.
TickFails ==
  /\ phase \in {"run", "write"}
  /\ phase' = "run"
  /\ FanSafe
  /\ UNCHANGED <<suspended, curve, sensors, pending, missed>>

\* suspend() and resume() end with a tick of their own.
Suspend ==
  /\ phase = "run" /\ ~suspended
  /\ phase' = "write"
  /\ suspended' = TRUE
  /\ SleepTick
  /\ UNCHANGED <<curve, mean, hot, hw, lag, missed>>

Resume ==
  /\ phase = "run"
  /\ phase' = "write"
  /\ suspended' = FALSE
  /\ NormalTick(0, last)
  /\ UNCHANGED <<curve, mean, hot, hw, lag, missed>>
-----------------------------------------------------------------------------
(* The end of the process, and its start.                                  *)

\* SIGTERM, or SIGINT: the handler runs wherever the main thread is.
Stop ==
  /\ phase \in {"run", "write"}
  /\ phase' = IF phase = "run" THEN "stopping" ELSE "stopWrite"
  /\ FanSafe
  /\ UNCHANGED <<suspended, curve, sensors, pending, missed>>

\* The tick it interrupted goes on: it writes the value it had already taken,
\* or last_pwm as the handler left it, or fails and calls fan_safe() itself.
StopWrite ==
  /\ phase = "stopWrite"
  /\ phase' = "stopping"
  /\ hw' \in {pending, last, hw}
  /\ UNCHANGED <<suspended, curve, sensors, last, pending, history>>

\* name_lost() ends the main loop and writes nothing.
NameLost ==
  /\ phase = "run"
  /\ phase' = "stopping"
  /\ UNCHANGED <<suspended, curve, sensors, last, pending, hw, history>>

\* Faulty variant: what the handler of the signal wrote is relied on.
FinallyTrusts ==
  /\ phase = "stopping"
  /\ phase' = "exited"
  /\ UNCHANGED <<suspended, curve, sensors, last, pending, hw, history>>

\* The finally clause of main().
Finally ==
  /\ phase = "stopping"
  /\ phase' = "exited"
  /\ FanSafe
  /\ missed' = IF lag' = 0 THEN missed ELSE missed \union {"finally"}
  /\ UNCHANGED <<suspended, curve, sensors, pending>>

Kill ==
  /\ phase \in {"run", "write", "stopWrite", "stopping"}
  /\ phase' = "exited"
  /\ missed' = missed \union {"finally"}
  /\ UNCHANGED <<suspended, curve, sensors, last, pending, hw, regime, lag>>

\* ExecStopPost=armada-powerd --fan-safe, a process of its own.
StopPost ==
  /\ phase = "exited"
  /\ phase' = "down"
  /\ WriteSafe
  /\ missed' = IF lag' = 0 THEN missed ELSE missed \union {"stopPost"}
  /\ UNCHANGED <<suspended, curve, sensors, last, pending, regime>>

\* __init__() takes the PWM it finds, or min_pwm if it cannot be read, for its
\* last demand, and ends with a tick.
Start ==
  /\ phase = "down"
  /\ phase' = "write"
  /\ suspended' = FALSE
  /\ \E from \in {hw, MinPwm} :
       /\ NormalTick(0, from)
       /\ lag' = IF from = hw THEN 0 ELSE Apart
  /\ missed' = {}
  /\ UNCHANGED <<curve, mean, hot, hw>>
-----------------------------------------------------------------------------
Next ==
  \/ Sense \/ ChangeCurve
  \/ Tick \/ TickWrite \/ TickWriteLost \/ TickFails \/ Suspend \/ Resume
  \/ Stop \/ StopWrite \/ NameLost \/ Finally \/ Kill \/ StopPost \/ Start

Spec == Init /\ [][Next]_vars

\* The timer fires every three seconds, a write that can succeed does sooner
\* or later, and systemd runs ExecStopPost and restarts the unit.
FairSpec == Spec /\ WF_vars(Tick) /\ SF_vars(TickWrite)
                 /\ WF_vars(StopPost) /\ WF_vars(Start)
-----------------------------------------------------------------------------
TypeOK ==
  /\ phase \in Phases
  /\ suspended \in BOOLEAN
  /\ curve \in Curves
  /\ mean \in Temps /\ hot \in Temps
  /\ smoothed \in Temps
  /\ last \in Pwms /\ pending \in Pwms /\ hw \in Pwms
  /\ regime \in {"none", "normal", "sleep", "safe"}
  /\ lag \in 0 .. Apart
  /\ missed \subseteq {"finally", "stopPost"}

\* What each regime may ask of the fan: within [fan] when awake, whatever speed
\* the daemon found, within [suspend] when suspended, FAN_SAFE_PWM after a
\* failure.  Between two ticks, unless writes were lost since, the fan has the
\* speed that the daemon announces.
RegimeLimits ==
  /\ regime = "normal" => last \in MinPwm .. MaxPwm
  /\ regime = "sleep"  => last \in LowPwm .. SleepPwm
  /\ regime = "safe"   => last = FanSafePwm
  /\ phase = "run" /\ lag = 0 => hw = last

\* No daemon, no fan left at a speed that was right once.  An ending that was
\* not a kill leaves the fan at the safe speed by its finally clause, whatever a
\* tick still wrote after the signal; and once the unit is down, one of that
\* clause and ExecStopPost is enough.
UnattendedIsSafe ==
  /\ phase = "exited" /\ "finally" \notin missed => hw = FanSafePwm
  /\ phase = "down" /\ ~({"finally", "stopPost"} \subseteq missed) => hw = FanSafePwm

\* An awake tick moves a fan that is within the limits by one ramp at most, and
\* by one more for each write that was lost just before: the demand runs on
\* while pwm1 does not follow.
RampStep ==
  phase = "write" /\ phase' = "run" /\ regime' = "normal"
    /\ lag <= MaxLag /\ hw \in MinPwm .. MaxPwm
      => /\ hw' <= hw + (lag + 1) * RampUp
         /\ hw' >= hw - (lag + 1) * RampDown

RampBounded == [][RampStep]_vars

\* When the sensors stay unreadable while the daemon stays up and awake, the
\* fan comes to the safe speed and does not stay at the last demand.
BlindFanIsSafe ==
  <>[](phase \in {"run", "write"} /\ ~suspended /\ mean = 0)
    => <>[](hw \in {FanSafePwm, Clamp(FanSafePwm, MinPwm, MaxPwm)})

\* The target is the curve's own value up to half a quantum and the limits: it
\* passes by every point of the curve (of points at one temperature only one can
\* count), and never falls while the curve rises.
Rising(c) == \A i \in 1 .. Len(c) - 1 : c[i][2] <= c[i + 1][2]
Alone(c, i) == \A j \in 1 .. Len(c) \ {i} : c[j][1] # c[i][1]
TargetFollowsCurve ==
  /\ \A i \in 1 .. Len(curve) : Alone(curve, i) =>
       LET pwm == Clamp(curve[i][2], MinPwm, MaxPwm)
           got == Target(curve, curve[i][1])
       IN  /\ 2 * (got - pwm) <= Quantum
           /\ 2 * (pwm - got) <= Quantum
  /\ Rising(curve) => \A t \in Temps \ {MaxTemp} :
       Target(curve, t) <= Target(curve, t + 1)
=============================================================================
