-------------------------- MODULE FanControlProofs --------------------------
(***************************************************************************)
(* What FanControl guarantees for every configuration: the type invariant, *)
(* the limits of each regime, the safe fan of a stopped unit, the ramp,    *)
(* and a target that follows the curve.                                    *)
(***************************************************************************)
EXTENDS FanControl, WellFoundedInduction, TLAPS

\* A set of naturals has a least element.
LEMMA Least ==
  ASSUME NEW T, T \subseteq Nat, T # {}
  PROVE  \E x \in T : \A y \in T : x <= y
<1>1. \E x \in T : \A y \in T : ~(<<y, x>> \in OpToRel(<, Nat))
  BY NatLessThanWellFounded, WFMin
<1>2. PICK x \in T : \A y \in T : ~(<<y, x>> \in OpToRel(<, Nat))
  BY <1>1
<1>3. ASSUME NEW y \in T
      PROVE  x <= y
  <2>1. <<y, x>> \in Nat \X Nat
    OBVIOUS
  <2>2. y < x => <<y, x>> \in OpToRel(<, Nat)
    BY <2>1 DEF OpToRel
  <2>3. ~(y < x)
    BY <1>2, <2>2, Zenon
  <2>4. x \in Nat /\ y \in Nat
    OBVIOUS
  <2>. QED
    BY <2>3, <2>4, SMT
<1>. QED
  BY <1>3

LEMMA Difference == \A a, b \in Nat : a - b \in Int
OBVIOUS

LEMMA Successor == \A a, b \in Nat : (a + 1) - b = (a - b) + 1
OBVIOUS

LEMMA Scaled ==
  ASSUME NEW a \in Int, NEW b \in Int, a <= b, NEW d \in Nat
  PROVE  a * d <= b * d
OBVIOUS

LEMMA Product ==
  ASSUME NEW a \in Int, NEW b \in Int
  PROVE  a * b \in Int
OBVIOUS

LEMMA ClampType ==
  ASSUME NEW x \in Int, NEW low \in Int, NEW high \in Int, low <= high
  PROVE  Clamp(x, low, high) \in low .. high
BY DEF Clamp, Min2, Max2

LEMMA QuantizeType ==
  ASSUME NEW n \in Int, NEW d \in Nat \ {0}
  PROVE  Quantize(n, d) \in MinPwm .. MaxPwm
<1>. DEFINE k == d * Quantum
<1>1. Quantum \in Nat \ {0} /\ MinPwm \in Int /\ MaxPwm \in Int /\ MinPwm <= MaxPwm
  BY FanAssumption DEF Pwms
<1>2. k \in Nat \ {0}
  BY <1>1
<1>3. RoundDiv(n, k) \in Int
  <2>. HIDE DEF k
  <2>. QED
    BY <1>2 DEF RoundDiv
<1>4. RoundDiv(n, k) * Quantum \in Int
  <2>. HIDE DEF k
  <2>. QED
    BY <1>1, <1>3
<1>5. n \div d \in Int
  OBVIOUS
<1>. HIDE DEF k
<1>6. (IF Quantum > 1 THEN RoundDiv(n, k) * Quantum ELSE n \div d) \in Int
  BY <1>4, <1>5
<1>. QED
  BY <1>1, <1>6, ClampType DEF Quantize, k

\* Between its first and its last temperature a curve has a segment that holds
\* the temperature, and a first such segment.
LEMMA Segment ==
  ASSUME NEW c \in Curves, NEW t \in Nat, c[1][1] < t, t < c[Len(c)][1]
  PROVE  \E j \in 1 .. Len(c) - 1 :
           /\ c[j][1] <= t /\ t <= c[j + 1][1]
           /\ \A k \in 1 .. j - 1 : ~(c[k][1] <= t /\ t <= c[k + 1][1])
<1>. DEFINE Above == {i \in 1 .. Len(c) : t <= c[i][1]}
            Holding == {i \in 1 .. Len(c) - 1 : c[i][1] <= t /\ t <= c[i + 1][1]}
<1>1. /\ c \in Seq(Nat \X Nat) /\ Len(c) \in Nat /\ Len(c) > 0
      /\ \A i \in 1 .. Len(c) : c[i][1] \in Nat
  BY FanAssumption
<1>2. Above \subseteq Nat /\ Len(c) \in Above
  BY <1>1
<1>3. PICK m \in Above : \A y \in Above : m <= y
  <2>1. Above # {}
    BY <1>2
  <2>. HIDE DEF Above
  <2>. QED
    BY <1>2, <2>1, Least
<1>4. m # 1 /\ m - 1 \in 1 .. Len(c)
  BY <1>1, <1>3
<1>5. m - 1 \notin Above
  BY <1>3, <1>4
<1>6. m - 1 \in Holding
  BY <1>1, <1>3, <1>4, <1>5
<1>7. PICK j \in Holding : \A y \in Holding : j <= y
  <2>1. Holding \subseteq Nat
    BY <1>1
  <2>2. Holding # {}
    BY <1>6
  <2>. HIDE DEF Holding
  <2>. QED
    BY <2>1, <2>2, Least
<1>8. ASSUME NEW k \in 1 .. j - 1
      PROVE  ~(c[k][1] <= t /\ t <= c[k + 1][1])
  <2>1. k \in 1 .. Len(c) - 1 /\ ~(j <= k)
    BY <1>1
  <2>2. k \notin Holding
    <3>. HIDE DEF Holding
    <3>. QED
      BY <1>7, <2>1
  <2>. QED
    BY <2>1, <2>2
<1>. QED
  BY <1>7, <1>8

LEMMA TargetType ==
  ASSUME NEW c \in Curves, NEW t \in Temps
  PROVE  Target(c, t) \in MinPwm .. MaxPwm
<1>. DEFINE Fits(j) == /\ c[j][1] <= t /\ t <= c[j + 1][1]
                       /\ \A k \in 1 .. j - 1 :
                            ~(c[k][1] <= t /\ t <= c[k + 1][1])
            i    == CHOOSE j \in 1 .. Len(c) - 1 : Fits(j)
            span == c[i + 1][1] - c[i][1]
            rise == (c[i + 1][2] - c[i][2]) * (t - c[i][1])
<1>1. /\ c \in Seq(Nat \X Nat) /\ Len(c) \in Nat /\ Len(c) > 0
      /\ \A j \in 1 .. Len(c) : c[j][1] \in Nat /\ c[j][2] \in Nat
      /\ \A j \in 1 .. Len(c) - 1 : c[j][1] <= c[j + 1][1]
      /\ t \in Nat
  BY FanAssumption DEF Temps
<1>2. CASE t <= c[1][1]
  <2>1. c[1][2] \in Int /\ 1 \in Nat \ {0}
    BY <1>1
  <2>2. Quantize(c[1][2], 1) \in MinPwm .. MaxPwm
    BY <2>1, QuantizeType
  <2>. QED
    BY <1>2, <2>2 DEF Target
<1>3. CASE ~(t <= c[1][1]) /\ t >= c[Len(c)][1]
  <2>1. c[Len(c)][2] \in Int /\ 1 \in Nat \ {0}
    BY <1>1
  <2>2. Quantize(c[Len(c)][2], 1) \in MinPwm .. MaxPwm
    BY <2>1, QuantizeType
  <2>. QED
    BY <1>3, <2>2 DEF Target
<1>4. CASE ~(t <= c[1][1]) /\ ~(t >= c[Len(c)][1])
  <2>1. c[1][1] < t /\ t < c[Len(c)][1]
    BY <1>1, <1>4
  <2>2. \E j \in 1 .. Len(c) - 1 : Fits(j)
    BY <1>1, <2>1, Segment
  <2>3. i \in 1 .. Len(c) - 1
    <3>. HIDE DEF Fits
    <3>. QED
      BY <2>2
  <2>4. i \in 1 .. Len(c) /\ i + 1 \in 1 .. Len(c)
    <3>. HIDE DEF i
    <3>. QED
      BY <1>1, <2>3
  <2>5. /\ c[i][1] \in Nat /\ c[i][2] \in Nat
        /\ c[i + 1][1] \in Nat /\ c[i + 1][2] \in Nat
        /\ c[i][1] <= c[i + 1][1]
    <3>. HIDE DEF i
    <3>. QED
      BY <1>1, <2>3, <2>4
  <2>6. span \in Nat /\ rise \in Int /\ c[i][2] * span + rise \in Int
    <3>. HIDE DEF i
    <3>1. span \in Nat
      BY <2>5
    <3>2. rise \in Int
      <4>1. c[i + 1][2] - c[i][2] \in Int /\ t - c[i][1] \in Int
        BY <1>1, <2>5, Difference, Zenon
      <4>. QED
        BY <4>1, Product, Zenon
    <3>3. c[i][2] * span \in Int
      <4>. HIDE DEF span
      <4>. QED
        BY <2>5, <3>1, Product
    <3>. HIDE DEF span, rise
    <3>. QED
      BY <3>1, <3>2, <3>3
  <2>7. Target(c, t) = IF span = 0 THEN Quantize(c[i + 1][2], 1)
                       ELSE Quantize(c[i][2] * span + rise, span)
    BY <1>4 DEF Target
  <2>8. Quantize(c[i + 1][2], 1) \in MinPwm .. MaxPwm
    <3>. HIDE DEF i
    <3>. QED
      BY <2>5, QuantizeType
  <2>9. span # 0 => Quantize(c[i][2] * span + rise, span) \in MinPwm .. MaxPwm
    <3>. HIDE DEF i, span, rise
    <3>1. c[i][2] * span + rise \in Int /\ span \in Nat
      BY <2>6
    <3>2. CASE span # 0
      <4>1. span \in Nat \ {0}
        BY <3>1, <3>2
      <4>. QED
        BY <3>1, <4>1, QuantizeType
    <3>. QED
      BY <3>2
  <2>. HIDE DEF i, span, rise
  <2>. QED
    BY <2>7, <2>8, <2>9
<1>. QED
  BY <1>2, <1>3, <1>4

LEMMA NextPwmType ==
  ASSUME NEW from \in Pwms, NEW target \in Int
  PROVE  NextPwm(from, target) \in MinPwm .. MaxPwm
<1>1. /\ MinPwm \in Int /\ MaxPwm \in Int /\ MinPwm <= MaxPwm
      /\ RampUp \in Int /\ RampDown \in Int /\ from \in Int
  BY FanAssumption DEF Pwms
<1>2. (IF target > from THEN Min2(target, from + RampUp)
       ELSE Max2(target, from - RampDown)) \in Int
  BY <1>1 DEF Min2, Max2
<1>. QED
  BY <1>1, <1>2, ClampType DEF NextPwm

\* The clamp after the ramp never undoes the ramp's limit.
LEMMA RampOfNextPwm ==
  ASSUME NEW from \in MinPwm .. MaxPwm, NEW target \in Int
  PROVE  /\ NextPwm(from, target) <= from + RampUp
         /\ NextPwm(from, target) >= from - RampDown
<1>1. /\ MinPwm \in Int /\ MaxPwm \in Int /\ MinPwm <= MaxPwm
      /\ RampUp \in Nat /\ RampDown \in Nat
  <2>1. /\ MinPwm \in Pwms /\ MaxPwm \in Pwms /\ MinPwm <= MaxPwm
        /\ RampUp \in Nat /\ RampDown \in Nat
    BY FanAssumption, Zenon
  <2>. QED
    BY <2>1 DEF Pwms
<1>2. from \in Int /\ MinPwm <= from /\ from <= MaxPwm
  BY <1>1
<1>. DEFINE step == IF target > from THEN Min2(target, from + RampUp)
                    ELSE Max2(target, from - RampDown)
<1>3. step \in Int /\ step <= from + RampUp /\ step >= from - RampDown
  BY <1>1, <1>2 DEF Min2, Max2
<1>4. NextPwm(from, target) = Clamp(step, MinPwm, MaxPwm)
  BY DEF NextPwm
<1>. HIDE DEF step
<1>. QED
  BY <1>1, <1>2, <1>3, <1>4 DEF Clamp, Min2, Max2
-----------------------------------------------------------------------------
\* The demand v is at most k ramps away from the speed h.
Reach(v, h, k) == v <= h + k * RampUp /\ v >= h - k * RampDown

LEMMA ReachNone == ASSUME NEW v \in Int PROVE Reach(v, v, 0)
BY FanAssumption DEF Reach

LEMMA ReachOn ==
  ASSUME NEW v \in Int, NEW w \in Int, NEW h \in Int, NEW k \in Nat,
         Reach(v, h, k), w <= v + RampUp, w >= v - RampDown
  PROVE  Reach(w, h, k + 1)
<1>1. RampUp \in Nat /\ RampDown \in Nat
  BY FanAssumption
<1>2. k * RampUp \in Nat /\ k * RampDown \in Nat
  BY <1>1
<1>3. (k + 1) * RampUp = k * RampUp + RampUp
      /\ (k + 1) * RampDown = k * RampDown + RampDown
  BY <1>1
<1>. QED
  BY <1>1, <1>2, <1>3 DEF Reach

\* A tick writes the demand it has just computed.
PendingPart == phase = "write" => pending = last

\* How far the demand has run from a fan within its limits: a ramp for each
\* write lost, and one more when a tick has computed and not written yet.
RampPart ==
  lag <= MaxLag /\ hw \in MinPwm .. MaxPwm =>
    /\ phase = "run" => last \in MinPwm .. MaxPwm /\ Reach(last, hw, lag)
    /\ phase = "write" /\ regime = "normal" => Reach(last, hw, lag + 1)

\* What Init establishes and every step keeps.
Safe == TypeOK /\ RegimeLimits /\ UnattendedIsSafe
Inv  == Safe /\ PendingPart /\ RampPart

LEMMA Constants ==
  /\ MinPwm \in Pwms /\ MaxPwm \in Pwms /\ FanSafePwm \in Pwms
  /\ MinPwm .. MaxPwm \subseteq Pwms
  /\ LowPwm .. SleepPwm \subseteq Pwms
  /\ LowPwm \in Int /\ SleepPwm \in Int /\ LowPwm <= SleepPwm
  /\ 0 <= LowPwm /\ SleepPwm <= MaxPwm
  /\ 0 \in Temps /\ 0 \in Pwms
  /\ MaxLag \in Nat /\ Apart \in 0 .. Apart /\ 0 \in 0 .. Apart
  /\ Apart # 0 /\ ~(Apart <= MaxLag)
<1>1. /\ MinPwm \in Pwms /\ MaxPwm \in Pwms /\ FanSafePwm \in Pwms
      /\ LowPwm \in 0 .. MaxPwm /\ SleepPwm \in LowPwm .. MaxPwm
      /\ MaxTemp \in Nat /\ MaxLag \in Nat
  BY FanAssumption, Zenon
<1>2. MinPwm .. MaxPwm \subseteq Pwms
  BY <1>1 DEF Pwms
<1>3. /\ LowPwm \in Int /\ SleepPwm \in Int /\ LowPwm <= SleepPwm
      /\ 0 <= LowPwm /\ SleepPwm <= MaxPwm
  BY <1>1 DEF Pwms
<1>4. LowPwm .. SleepPwm \subseteq Pwms
  BY <1>1, <1>3 DEF Pwms
<1>5. 0 \in Temps /\ 0 \in Pwms
  BY <1>1 DEF Temps, Pwms
<1>6. /\ Apart \in 0 .. Apart /\ 0 \in 0 .. Apart
      /\ Apart # 0 /\ ~(Apart <= MaxLag)
  BY <1>1 DEF Apart
<1>. QED
  BY <1>1, <1>2, <1>3, <1>4, <1>5, <1>6

LEMMA InitInv == Init => Inv
<1>1. Init => hw \in Pwms
  BY FanAssumption DEF Init
<1>. QED
  BY <1>1, Constants DEF Init, Inv, Safe, TypeOK, RegimeLimits,
     UnattendedIsSafe, PendingPart, RampPart, Phases

\* The awake branch of a tick, from any smoothed temperature and any demand.
LEMMA NormalTickResult ==
  ASSUME TypeOK, NEW s \in Temps, NEW from \in Pwms, NormalTick(s, from)
  PROVE  /\ smoothed' \in Temps
         /\ last' \in MinPwm .. MaxPwm
         /\ pending' = last' /\ regime' = "normal"
         /\ from \in MinPwm .. MaxPwm
              => last' <= from + RampUp /\ last' >= from - RampDown
<1>1. smoothed' \in Temps
  <2>1. MaxTemp \in Nat /\ mean \in Temps
    BY FanAssumption DEF TypeOK
  <2>2. Min2(s, mean) .. Max2(s, mean) \subseteq Temps
    BY <2>1 DEF Temps, Min2, Max2
  <2>. QED
    BY <2>1, <2>2 DEF NormalTick
<1>2. Target(curve, smoothed') \in MinPwm .. MaxPwm
  BY <1>1, TargetType DEF TypeOK
<1>. DEFINE goal == IF mean = 0 THEN FanSafePwm ELSE Target(curve, smoothed')
<1>3. goal \in Int
  <2>1. FanSafePwm \in Int /\ MinPwm \in Int /\ MaxPwm \in Int
    BY Constants DEF Pwms
  <2>. QED
    BY <1>2, <2>1
<1>4. last' = NextPwm(from, goal) /\ pending' = last' /\ regime' = "normal"
  BY DEF NormalTick
<1>. HIDE DEF goal
<1>. QED
  BY <1>1, <1>3, <1>4, NextPwmType, RampOfNextPwm

\* Its suspended branch.
LEMMA SleepTickResult ==
  ASSUME TypeOK, SleepTick
  PROVE  /\ smoothed' \in Temps
         /\ last' \in LowPwm .. SleepPwm
         /\ pending' = last' /\ regime' = "sleep"
BY Constants DEF SleepTick, SleepTarget, Clamp, Min2, Max2, TypeOK, Pwms

\* The types, the regimes and the safe end.
LEMMA SafeStep == Safe /\ PendingPart /\ [Next]_vars => Safe' /\ PendingPart'
<1>. SUFFICES ASSUME TypeOK, RegimeLimits, UnattendedIsSafe, PendingPart, [Next]_vars
              PROVE  Safe' /\ PendingPart'
  BY DEF Safe
<1>. USE DEF Safe, TypeOK, RegimeLimits, UnattendedIsSafe, PendingPart, Phases,
             sensors, history
<1>1. CASE Sense
  BY <1>1 DEF Sense
<1>2. CASE ChangeCurve
  BY <1>2 DEF ChangeCurve
<1>3. CASE Tick
  <2>1. CASE suspended
    BY <1>3, <2>1, SleepTickResult, Constants DEF Tick
  <2>2. CASE ~suspended
    BY <1>3, <2>2, NormalTickResult, Constants DEF Tick
  <2>. QED
    BY <2>1, <2>2
<1>4. CASE TickWrite
  BY <1>4, Constants DEF TickWrite
<1>5. CASE TickWriteLost
  <2>1. lag' \in 0 .. Apart /\ lag' # 0
    BY <1>5, Constants DEF TickWriteLost, Min2
  <2>. QED
    BY <1>5, <2>1 DEF TickWriteLost
<1>6. CASE TickFails
  BY <1>6, Constants DEF TickFails, FanSafe, WriteSafe
<1>7. CASE Suspend
  BY <1>7, SleepTickResult, Constants DEF Suspend
<1>8. CASE Resume
  BY <1>8, NormalTickResult, Constants DEF Resume
<1>9. CASE Stop
  BY <1>9, Constants DEF Stop, FanSafe, WriteSafe
<1>10. CASE StopWrite
  BY <1>10 DEF StopWrite
<1>11. CASE NameLost
  BY <1>11 DEF NameLost
<1>12. CASE Finally
  BY <1>12, Constants DEF Finally, FanSafe, WriteSafe
<1>13. CASE Kill
  BY <1>13 DEF Kill
<1>14. CASE StopPost
  BY <1>14, Constants DEF StopPost, WriteSafe
<1>15. CASE Start
  <2>1. PICK from \in {hw, MinPwm} :
          NormalTick(0, from) /\ lag' = IF from = hw THEN 0 ELSE Apart
    BY <1>15 DEF Start
  <2>2. from \in Pwms
    BY Constants
  <2>. QED
    BY <1>15, <2>1, <2>2, NormalTickResult, Constants DEF Start
<1>16. CASE UNCHANGED vars
  BY <1>16 DEF vars
<1>. QED
  BY <1>1, <1>2, <1>3, <1>4, <1>5, <1>6, <1>7, <1>8, <1>9, <1>10, <1>11,
     <1>12, <1>13, <1>14, <1>15, <1>16 DEF Next

\* The distance between the demand and the fan.
LEMMA RampPartStep == Inv /\ [Next]_vars => RampPart'
<1>. SUFFICES ASSUME TypeOK, RegimeLimits, PendingPart, RampPart, [Next]_vars,
                     lag' <= MaxLag, hw' \in MinPwm .. MaxPwm
              PROVE  /\ phase' = "run" =>
                          last' \in MinPwm .. MaxPwm /\ Reach(last', hw', lag')
                     /\ phase' = "write" /\ regime' = "normal" =>
                          Reach(last', hw', lag' + 1)
  BY DEF Inv, Safe, RampPart, Reach
<1>0. /\ MinPwm .. MaxPwm \subseteq Int /\ Pwms \subseteq Int /\ MaxLag \in Nat
      /\ lag \in Nat /\ last \in Int /\ hw \in Int /\ Apart = MaxLag + 1
  BY Constants DEF TypeOK, Pwms, Apart
\* A step that leaves the demand, the fan and the distance alone.
<1>1. ASSUME UNCHANGED <<last, hw, lag, regime>>,
             phase' = phase \/ phase' \notin {"run", "write"}
      PROVE  /\ phase' = "run" =>
                  last' \in MinPwm .. MaxPwm /\ Reach(last', hw', lag')
             /\ phase' = "write" /\ regime' = "normal" =>
                  Reach(last', hw', lag' + 1)
  BY <1>1 DEF RampPart
\* An awake tick, from the demand so far.
<1>2. ASSUME NEW s \in Temps, phase = "run", phase' = "write",
             NormalTick(s, last), hw' = hw, lag' = lag
      PROVE  Reach(last', hw', lag' + 1)
  <2>1. last \in Pwms
    BY DEF TypeOK
  <2>2. last \in MinPwm .. MaxPwm /\ Reach(last, hw, lag)
    BY <1>2 DEF RampPart
  <2>3. /\ last' \in MinPwm .. MaxPwm
        /\ last' <= last + RampUp /\ last' >= last - RampDown
    BY <1>2, <2>1, <2>2, NormalTickResult
  <2>4. Reach(last', hw, lag + 1)
    BY <1>0, <2>2, <2>3, ReachOn
  <2>. QED
    BY <1>2, <2>4
<1>3. CASE Sense \/ ChangeCurve \/ NameLost \/ Kill \/ StopWrite \/ UNCHANGED vars
  <2>1. CASE StopWrite
    BY <2>1 DEF StopWrite
  <2>2. CASE ~StopWrite
    BY <1>1, <1>3, <2>2 DEF Sense, ChangeCurve, NameLost, Kill, vars, history
  <2>. QED
    BY <2>1, <2>2
<1>4. CASE Tick
  <2>1. suspended => phase' = "write" /\ regime' = "sleep"
    BY <1>4 DEF Tick, SleepTick
  <2>2. ~suspended => /\ NormalTick(smoothed, last) /\ smoothed \in Temps
                      /\ phase = "run" /\ phase' = "write" /\ hw' = hw /\ lag' = lag
    BY <1>4 DEF Tick, TypeOK
  <2>. QED
    BY <1>2, <2>1, <2>2
<1>5. CASE Resume
  <2>1. /\ NormalTick(0, last) /\ 0 \in Temps
        /\ phase = "run" /\ phase' = "write" /\ hw' = hw /\ lag' = lag
    BY <1>5, Constants DEF Resume
  <2>. QED
    BY <1>2, <2>1
<1>6. CASE Suspend
  BY <1>6 DEF Suspend, SleepTick
<1>7. CASE TickWrite
  <2>1. phase' = "run" /\ last' = last /\ hw' = last /\ lag' = 0
    BY <1>7 DEF TickWrite, PendingPart
  <2>. QED
    BY <1>0, <2>1, ReachNone
<1>8. CASE TickWriteLost
  <2>1. phase = "write" /\ phase' = "run" /\ last' = last /\ hw' = hw
    BY <1>8 DEF TickWriteLost
  <2>2. regime = "normal" /\ lag' = lag + 1 /\ lag <= MaxLag
    BY <1>0, <1>8 DEF TickWriteLost, Min2
  <2>3. last \in MinPwm .. MaxPwm
    BY <2>2 DEF RegimeLimits
  <2>. QED
    BY <2>1, <2>2, <2>3 DEF RampPart
<1>9. CASE TickFails
  <2>1. phase' = "run" /\ last' = FanSafePwm /\ ((hw' = FanSafePwm /\ lag' = 0) \/ lag' = Apart)
    BY <1>9 DEF TickFails, FanSafe, WriteSafe
  <2>2. hw' = FanSafePwm /\ lag' = 0
    BY <1>0, <2>1
  <2>. QED
    BY <1>0, <2>1, <2>2, ReachNone
<1>10. CASE Stop \/ Finally \/ StopPost
  BY <1>10 DEF Stop, Finally, StopPost
<1>11. CASE Start
  <2>1. PICK from \in {hw, MinPwm} :
          NormalTick(0, from) /\ lag' = IF from = hw THEN 0 ELSE Apart
    BY <1>11 DEF Start
  <2>2. from = hw /\ lag' = 0 /\ hw' = hw /\ phase' = "write"
    BY <1>0, <1>11, <2>1 DEF Start
  <2>3. hw \in Pwms /\ 0 \in Temps /\ NormalTick(0, hw) /\ hw \in MinPwm .. MaxPwm
    BY <2>1, <2>2, Constants DEF TypeOK
  <2>4. /\ last' \in MinPwm .. MaxPwm
        /\ last' <= hw + RampUp /\ last' >= hw - RampDown
    BY <2>3, NormalTickResult
  <2>5. Reach(last', hw, 0 + 1)
    BY <1>0, <2>4, ReachNone, ReachOn
  <2>. QED
    BY <2>2, <2>5
<1>. QED
  BY <1>3, <1>4, <1>5, <1>6, <1>7, <1>8, <1>9, <1>10, <1>11 DEF Next

LEMMA InductiveStep == Inv /\ [Next]_vars => Inv'
BY SafeStep, RampPartStep DEF Inv

\* In every reachable state the fan's speed fits the regime that chose it, an
\* end of the daemon has left the fan at the safe speed, and the demand is no
\* further from the fan than the writes lost.
THEOREM FanAlwaysSafe == Spec => []Inv
BY InitInv, InductiveStep, PTL DEF Spec

THEOREM TypeCorrect == Spec => []TypeOK
<1>1. Inv => TypeOK
  BY DEF Inv, Safe
<1>. QED
  BY <1>1, FanAlwaysSafe, PTL

\* What each branch of the tick may ask of the fan, from whatever speed the
\* daemon found in pwm1, and that the fan has it unless writes were lost.
THEOREM RegimesKept == Spec => []RegimeLimits
<1>1. Inv => RegimeLimits
  BY DEF Inv, Safe
<1>. QED
  BY <1>1, FanAlwaysSafe, PTL

\* An end that is not a kill leaves the fan at the safe speed before
\* ExecStopPost runs, whatever a tick wrote after the signal; and of the finally
\* clause and ExecStopPost either is enough, each running or not, each losing its
\* write or not.
THEOREM UnattendedFan == Spec => []UnattendedIsSafe
<1>1. Inv => UnattendedIsSafe
  BY DEF Inv, Safe
<1>. QED
  BY <1>1, FanAlwaysSafe, PTL

\* Awake, a write moves the fan by no more than the configured ramp for itself
\* and for each write lost just before it.
THEOREM RampKept == Spec => RampBounded
<1>1. Inv /\ [Next]_vars => [RampStep]_vars
  <2>. SUFFICES ASSUME Inv, Next, phase = "write", phase' = "run", regime' = "normal",
                       lag <= MaxLag, hw \in MinPwm .. MaxPwm
                PROVE  Reach(hw', hw, lag + 1)
    BY DEF RampStep, Reach
  <2>0. lag \in Nat /\ hw \in Int /\ last \in Int
    BY Constants DEF Inv, Safe, TypeOK, Pwms, Apart
  <2>1. CASE TickWrite
    BY <2>1 DEF TickWrite, Inv, PendingPart, RampPart
  <2>2. CASE TickWriteLost
    <3>1. hw' = hw
      BY <2>2 DEF TickWriteLost
    <3>2. Reach(hw, hw, lag + 1)
      <4>1. RampUp \in Nat /\ RampDown \in Nat /\ lag + 1 \in Nat
        BY <2>0, FanAssumption
      <4>2. (lag + 1) * RampUp \in Nat /\ (lag + 1) * RampDown \in Nat
        BY <4>1
      <4>. QED
        BY <2>0, <4>2 DEF Reach
    <3>. QED
      BY <3>1, <3>2
  <2>. QED
    BY <2>1, <2>2 DEF Next, Sense, ChangeCurve, Tick, TickFails, FanSafe, Suspend,
       Resume, Stop, StopWrite, NameLost, Finally, Kill, StopPost, Start
<1>. QED
  BY <1>1, FanAlwaysSafe, PTL DEF Spec, RampBounded
-----------------------------------------------------------------------------
(* The target.  Rounding is monotone in the quotient, also between quotients *)
(* of different divisors, because halves go to the even neighbour.          *)

LEMMA Division ==
  ASSUME NEW n \in Int, NEW d \in Nat \ {0}
  PROVE  /\ n \div d \in Int /\ n % d \in 0 .. d - 1
         /\ n = d * (n \div d) + (n % d)
OBVIOUS

Even(q) == \E h \in Int : q = 2 * h

LEMMA NextEven == \A q \in Int : q + (q % 2) \in Int /\ Even(q + (q % 2))
<1>. SUFFICES ASSUME NEW q \in Int
              PROVE  q + (q % 2) \in Int /\ Even(q + (q % 2))
  OBVIOUS
<1>1. q \div 2 \in Int /\ q % 2 \in 0 .. 1 /\ q = 2 * (q \div 2) + (q % 2)
  BY Division
<1>. DEFINE h == q \div 2 + (q % 2)
<1>2. h \in Int /\ q + (q % 2) = 2 * h /\ 2 * h \in Int
  BY <1>1
<1>. HIDE DEF h
<1>. QED
  BY <1>2, Zenon DEF Even

LEMMA NotBothEven ==
  ASSUME NEW p \in Int, NEW q \in Int, Even(p), Even(q)
  PROVE  p # q + 1
BY DEF Even

\* The quotient is within one half of what is divided, and even when it is a tie.
LEMMA RoundDivNear ==
  ASSUME NEW n \in Int, NEW d \in Nat \ {0}, NEW x, x = RoundDiv(n, d)
  PROVE  /\ x \in Int
         /\ 2 * n - d <= 2 * (d * x) /\ 2 * (d * x) <= 2 * n + d
         /\ (2 * (d * x) = 2 * n - d \/ 2 * (d * x) = 2 * n + d) => Even(x)
<1>. DEFINE q == n \div d
            r == n % d
<1>1. q \in Int /\ r \in Int /\ 0 <= r /\ r < d /\ n = d * q + r
  <2>1. q \in Int /\ r \in 0 .. d - 1 /\ n = d * q + r
    BY Division
  <2>. HIDE DEF q, r
  <2>. QED
    BY <2>1
<1>2. x = IF 2 * r < d THEN q ELSE IF 2 * r > d THEN q + 1 ELSE q + (q % 2)
  BY DEF RoundDiv
<1>. HIDE DEF q, r
<1>3. d * q \in Int /\ d * (q + 1) = d * q + d
  BY <1>1
<1>4. CASE 2 * r < d
  BY <1>1, <1>2, <1>3, <1>4
<1>5. CASE 2 * r > d
  BY <1>1, <1>2, <1>3, <1>5
<1>6. CASE 2 * r = d
  <2>1. x = q + (q % 2) /\ q % 2 \in 0 .. 1
    BY <1>1, <1>2, <1>6, Division
  <2>2. Even(x) /\ x \in Int
    BY <1>1, <2>1, NextEven
  <2>3. x = q \/ x = q + 1
    BY <1>1, <2>1
  <2>. QED
    BY <1>1, <1>3, <1>6, <2>2, <2>3
<1>. QED
  BY <1>1, <1>4, <1>5, <1>6

\* Two quotients with their divisors multiplied out.
LEMMA Crossed ==
  ASSUME NEW d \in Nat \ {0}, NEW e \in Nat \ {0}, NEW a \in Int, NEW b \in Int, a <= b
  PROVE  /\ d * a \in Int /\ d * a <= d * b
         /\ d * (e * a) = (d * e) * a
         /\ d * e \in Nat \ {0} /\ e * d = d * e
OBVIOUS

LEMMA RoundDivMonotone ==
  ASSUME NEW n \in Int, NEW d \in Nat \ {0}, NEW m \in Int, NEW e \in Nat \ {0},
         n * e <= m * d
  PROVE  RoundDiv(n, d) <= RoundDiv(m, e)
<1>. DEFINE p == RoundDiv(n, d)
            q == RoundDiv(m, e)
<1>1. /\ p \in Int /\ 2 * (d * p) <= 2 * n + d
      /\ 2 * (d * p) = 2 * n + d => Even(p)
  BY RoundDivNear
<1>2. /\ q \in Int /\ 2 * m - e <= 2 * (e * q)
      /\ 2 * (e * q) = 2 * m - e => Even(q)
  BY RoundDivNear
<1>. HIDE DEF p, q
<1>. SUFFICES ASSUME p >= q + 1
              PROVE  FALSE
  BY <1>1, <1>2 DEF p, q
<1>. DEFINE X == d * e
            A == n * e
            B == m * d
<1>3. /\ X \in Int /\ X > 0 /\ A \in Int /\ B \in Int /\ A <= B
      /\ X * p \in Int /\ X * q \in Int
  BY <1>1, <1>2
<1>4. 2 * (X * p) <= 2 * A + X
  <2>1. e * (2 * (d * p)) <= e * (2 * n + d)
    BY <1>1, Crossed
  <2>2. e * (2 * (d * p)) = 2 * (X * p) /\ e * (2 * n + d) = 2 * A + X
    BY <1>1
  <2>. QED
    BY <2>1, <2>2
<1>5. 2 * B - X <= 2 * (X * q)
  <2>1. d * (2 * m - e) <= d * (2 * (e * q))
    BY <1>2, Crossed
  <2>2. d * (2 * (e * q)) = 2 * (X * q) /\ d * (2 * m - e) = 2 * B - X
    BY <1>2
  <2>. QED
    BY <2>1, <2>2
<1>6. X * p >= X * q + X
  <2>1. X * (q + 1) <= X * p
    BY <1>1, <1>2, <1>3, Crossed
  <2>2. X * (q + 1) = X * q + X
    BY <1>2, <1>3
  <2>. QED
    BY <2>1, <2>2
<1>7. 2 * (X * p) = 2 * A + X /\ 2 * (X * q) = 2 * B - X /\ X * p = X * (q + 1)
  <2>1. X * (q + 1) = X * q + X
    BY <1>2, <1>3
  <2>2. ASSUME NEW x \in Int, NEW a \in Int, NEW b \in Int, NEW u \in Int, NEW v \in Int,
               a <= b, 2 * u <= 2 * a + x, 2 * b - x <= 2 * v, u >= v + x
        PROVE  2 * u = 2 * a + x /\ 2 * v = 2 * b - x /\ u = v + x
    BY <2>2
  <2>. HIDE DEF X, A, B
  <2>. QED
    BY <1>3, <1>4, <1>5, <1>6, <2>1, <2>2
<1>8. p = q + 1
  <2>. HIDE DEF X, A, B
  <2>1. X \in Nat \ {0} /\ p - (q + 1) \in Nat
    BY <1>1, <1>2, <1>3
  <2>2. X * (p - (q + 1)) = 0
    BY <1>1, <1>2, <1>3, <1>7
  <2>. QED
    BY <1>1, <1>2, <2>1, <2>2
<1>9. Even(p)
  <2>1. e * (2 * (d * p)) = e * (2 * n + d)
    <3>1. e * (2 * (d * p)) = 2 * (X * p) /\ e * (2 * n + d) = 2 * A + X
      BY <1>1
    <3>. QED
      BY <1>7, <3>1
  <2>2. 2 * (d * p) = 2 * n + d
    BY <1>1, <2>1
  <2>. QED
    BY <1>1, <2>2
<1>10. Even(q)
  <2>1. d * (2 * (e * q)) = d * (2 * m - e)
    <3>1. d * (2 * (e * q)) = 2 * (X * q) /\ d * (2 * m - e) = 2 * B - X
      BY <1>2
    <3>. QED
      BY <1>7, <3>1
  <2>2. 2 * (e * q) = 2 * m - e
    BY <1>2, <2>1
  <2>. QED
    BY <1>2, <2>2
<1>. QED
  BY <1>1, <1>2, <1>8, <1>9, <1>10, NotBothEven

LEMMA FloorMonotone ==
  ASSUME NEW n \in Int, NEW d \in Nat \ {0}, NEW m \in Int, NEW e \in Nat \ {0},
         n * e <= m * d
  PROVE  n \div d <= m \div e
<1>. DEFINE p == n \div d
            q == m \div e
<1>1. p \in Int /\ d * p <= n
  BY Division
<1>2. q \in Int /\ m < e * q + e
  BY Division
<1>. HIDE DEF p, q
<1>. SUFFICES ASSUME p >= q + 1
              PROVE  FALSE
  BY <1>1, <1>2 DEF p, q
<1>3. e * (d * p) <= e * n
  BY <1>1, Crossed
<1>4. d * m < d * (e * q + e)
  BY <1>2
<1>5. (d * e) * (q + 1) <= (d * e) * p
  BY <1>1, <1>2, Crossed
<1>6. e * (d * p) = (d * e) * p /\ d * (e * q + e) = (d * e) * (q + 1)
      /\ d * m = m * d /\ e * n = n * e
  BY <1>1, <1>2
<1>. DEFINE U == (d * e) * p  V == (d * e) * (q + 1)  A == n * e  B == m * d
<1>7. U \in Int /\ V \in Int /\ A \in Int /\ B \in Int
  BY <1>1, <1>2
<1>8. U <= A /\ B < V /\ V <= U /\ A <= B
  BY <1>3, <1>4, <1>5, <1>6
<1>. HIDE DEF U, V, A, B
<1>. QED
  BY <1>7, <1>8

LEMMA ClampMonotone ==
  ASSUME NEW a \in Int, NEW b \in Int, a <= b, NEW low \in Int, NEW high \in Int, low <= high
  PROVE  Clamp(a, low, high) <= Clamp(b, low, high)
BY DEF Clamp, Min2, Max2

LEMMA ClampNear ==
  ASSUME NEW a \in Int, NEW b \in Int, NEW low \in Int, NEW high \in Int, low <= high,
         NEW k \in Int, k >= 0, 2 * (a - b) <= k, 2 * (b - a) <= k
  PROVE  /\ 2 * (Clamp(a, low, high) - Clamp(b, low, high)) <= k
         /\ 2 * (Clamp(b, low, high) - Clamp(a, low, high)) <= k
BY DEF Clamp, Min2, Max2

LEMMA QuantumTypes ==
  /\ Quantum \in Nat \ {0} /\ MinPwm \in Int /\ MaxPwm \in Int /\ MinPwm <= MaxPwm
BY FanAssumption DEF Pwms

\* A higher demand never gets a lower PWM.
LEMMA QuantizeMonotone ==
  ASSUME NEW n \in Int, NEW d \in Nat \ {0}, NEW m \in Int, NEW e \in Nat \ {0},
         n * e <= m * d
  PROVE  Quantize(n, d) <= Quantize(m, e)
<1>. USE QuantumTypes
<1>. DEFINE a == IF Quantum > 1 THEN RoundDiv(n, d * Quantum) * Quantum ELSE n \div d
            b == IF Quantum > 1 THEN RoundDiv(m, e * Quantum) * Quantum ELSE m \div e
<1>1. a \in Int /\ b \in Int /\ a <= b
  <2>1. CASE Quantum > 1
    <3>1. d * Quantum \in Nat \ {0} /\ e * Quantum \in Nat \ {0}
      OBVIOUS
    <3>2. n * (e * Quantum) <= m * (d * Quantum)
      <4>1. Quantum * (n * e) <= Quantum * (m * d)
        BY Crossed
      <4>2. n * (e * Quantum) = Quantum * (n * e) /\ m * (d * Quantum) = Quantum * (m * d)
        OBVIOUS
      <4>. QED
        BY <4>1, <4>2
    <3>. DEFINE p == RoundDiv(n, d * Quantum)
                q == RoundDiv(m, e * Quantum)
    <3>3. p \in Int /\ q \in Int
      BY <3>1, RoundDivNear
    <3>4. p <= q
      BY <3>1, <3>2, RoundDivMonotone
    <3>. HIDE DEF p, q
    <3>5. p * Quantum \in Int /\ q * Quantum \in Int /\ p * Quantum <= q * Quantum
      BY <3>3, <3>4
    <3>. QED
      BY <2>1, <3>5 DEF p, q
  <2>2. CASE ~(Quantum > 1)
    BY <2>2, Division, FloorMonotone
  <2>. QED
    BY <2>1, <2>2
<1>. HIDE DEF a, b
<1>2. Clamp(a, MinPwm, MaxPwm) <= Clamp(b, MinPwm, MaxPwm)
  BY <1>1, ClampMonotone
<1>. QED
  BY <1>2 DEF Quantize, a, b

\* A whole PWM comes out within half a quantum and the limits, whatever divisor it
\* is written over.
Near(x, v) == /\ 2 * (x - Clamp(v, MinPwm, MaxPwm)) <= Quantum
              /\ 2 * (Clamp(v, MinPwm, MaxPwm) - x) <= Quantum

LEMMA QuantizeNear ==
  ASSUME NEW v \in Nat, NEW d \in Nat \ {0}
  PROVE  Near(Quantize(v * d, d), v)
<1>. USE QuantumTypes
<1>. DEFINE a == IF Quantum > 1 THEN RoundDiv(v * d, d * Quantum) * Quantum ELSE (v * d) \div d
<1>1. a \in Int /\ 2 * (a - v) <= Quantum /\ 2 * (v - a) <= Quantum
  <2>1. CASE Quantum > 1
    <3>. DEFINE p == RoundDiv(v * d, d * Quantum)
    <3>1. d * Quantum \in Nat \ {0} /\ v * d \in Int
      OBVIOUS
    <3>2. /\ p \in Int
          /\ 2 * (v * d) - d * Quantum <= 2 * ((d * Quantum) * p)
          /\ 2 * ((d * Quantum) * p) <= 2 * (v * d) + d * Quantum
      BY <3>1, RoundDivNear
    <3>. HIDE DEF p
    <3>3. p * Quantum \in Int
      BY <3>2
    <3>4. /\ 2 * (v * d) - d * Quantum = d * (2 * v - Quantum)
          /\ 2 * ((d * Quantum) * p) = d * (2 * (p * Quantum))
          /\ 2 * (v * d) + d * Quantum = d * (2 * v + Quantum)
      BY <3>2
    <3>5. 2 * v - Quantum <= 2 * (p * Quantum) /\ 2 * (p * Quantum) <= 2 * v + Quantum
      <4>1. ASSUME NEW x \in Int, NEW y \in Int, d * x <= d * y
            PROVE  x <= y
        <5>1. y < x => d * y < d * x
          OBVIOUS
        <5>. QED
          BY <4>1, <5>1
      <4>2. 2 * v - Quantum \in Int /\ 2 * v + Quantum \in Int /\ 2 * (p * Quantum) \in Int
        BY <3>3
      <4>3. d * (2 * v - Quantum) <= d * (2 * (p * Quantum))
        BY <3>2, <3>4
      <4>4. d * (2 * (p * Quantum)) <= d * (2 * v + Quantum)
        BY <3>2, <3>4
      <4>. QED
        BY <4>1, <4>2, <4>3, <4>4
    <3>6. a = p * Quantum
      BY <2>1 DEF p
    <3>. HIDE DEF a
    <3>. QED
      BY <3>3, <3>5, <3>6
  <2>2. CASE ~(Quantum > 1)
    <3>. DEFINE p == (v * d) \div d
    <3>1. p \in Int /\ (v * d) % d \in 0 .. d - 1 /\ v * d = d * p + ((v * d) % d)
      <4>1. v * d \in Int
        OBVIOUS
      <4>. QED
        BY <4>1, Division, Zenon
    <3>. HIDE DEF p
    <3>2. v * d = d * v /\ d * p <= d * v /\ d * v < d * p + d
      BY <3>1
    <3>3. ~(p > v) /\ ~(v > p)
      <4>1. p >= v + 1 => d * p >= d * v + d
        BY <3>1
      <4>2. v >= p + 1 => d * v >= d * p + d
        BY <3>1
      <4>. QED
        BY <3>1, <3>2, <4>1, <4>2
    <3>4. a = v
      BY <2>2, <3>1, <3>3 DEF p
    <3>. QED
      BY <3>4
  <2>. QED
    BY <2>1, <2>2
<1>. HIDE DEF a
<1>2. /\ 2 * (Clamp(a, MinPwm, MaxPwm) - Clamp(v, MinPwm, MaxPwm)) <= Quantum
      /\ 2 * (Clamp(v, MinPwm, MaxPwm) - Clamp(a, MinPwm, MaxPwm)) <= Quantum
  BY <1>1, ClampNear
<1>. QED
  BY <1>2 DEF Quantize, Near, a

\* A curve is sorted, between any two of its points.
LEMMA Chain ==
  ASSUME NEW f, NEW len \in Nat, \A i \in 1 .. len : f[i] \in Nat,
         \A i \in 1 .. len - 1 : f[i] <= f[i + 1],
         NEW i \in 1 .. len, NEW j \in i .. len
  PROVE  f[i] <= f[j]
<1>. DEFINE Bad == {k \in i .. len : f[k] < f[i]}
<1>. SUFFICES ASSUME j \in Bad PROVE FALSE
  OBVIOUS
<1>1. PICK m \in Bad : \A k \in Bad : m <= k
  <2>1. Bad \subseteq Nat /\ Bad # {}
    OBVIOUS
  <2>. HIDE DEF Bad
  <2>. QED
    BY <2>1, Least
<1>2. m \in i .. len /\ f[m] < f[i] /\ m # i
  OBVIOUS
<1>3. m - 1 \in i .. len /\ m - 1 \in 1 .. len - 1 /\ (m - 1) + 1 = m
  BY <1>2
<1>4. m - 1 \notin Bad
  <2>. HIDE DEF Bad
  <2>. QED
    BY <1>1, <1>2
<1>5. f[m - 1] >= f[i] /\ f[m - 1] <= f[m]
  BY <1>3, <1>4
<1>. QED
  BY <1>2, <1>3, <1>5

LEMMA CurveTypes ==
  ASSUME NEW c \in Curves
  PROVE  /\ Len(c) \in Nat \ {0}
         /\ \A i \in 1 .. Len(c) : c[i][1] \in Nat /\ c[i][2] \in Nat
BY FanAssumption

LEMMA CurveSorted ==
  ASSUME NEW c \in Curves, NEW i \in 1 .. Len(c), NEW j \in i .. Len(c)
  PROVE  /\ c[i][1] <= c[j][1]
         /\ Rising(c) => c[i][2] <= c[j][2]
<1>. DEFINE temps == [k \in 1 .. Len(c) |-> c[k][1]]
            pwms == [k \in 1 .. Len(c) |-> c[k][2]]
<1>1. /\ \A k \in 1 .. Len(c) : temps[k] \in Nat /\ pwms[k] \in Nat
      /\ \A k \in 1 .. Len(c) - 1 : temps[k] <= temps[k + 1]
      /\ Rising(c) => \A k \in 1 .. Len(c) - 1 : pwms[k] <= pwms[k + 1]
      /\ Len(c) \in Nat
  BY CurveTypes, FanAssumption DEF Rising
<1>2. c[i][1] = temps[i] /\ c[j][1] = temps[j] /\ c[i][2] = pwms[i] /\ c[j][2] = pwms[j]
  BY CurveTypes
<1>. HIDE DEF temps, pwms
<1>3. temps[i] <= temps[j]
  BY <1>1, Chain
<1>4. Rising(c) => pwms[i] <= pwms[j]
  BY <1>1, Chain
<1>. QED
  BY <1>2, <1>3, <1>4

\* The demand at temperature t within the segment after point j.
Within(c, t, j) == j \in 1 .. Len(c) - 1 /\ c[j][1] < t /\ t <= c[j + 1][1]
Span(c, j) == c[j + 1][1] - c[j][1]
Demand(c, t, j) == c[j][2] * Span(c, j) + (c[j + 1][2] - c[j][2]) * (t - c[j][1])

\* target_pwm() in three branches: its test for a segment without width is never
\* needed, and neither is what follows its loop.
LEMMA TargetIs ==
  ASSUME NEW c \in Curves, NEW t \in Nat
  PROVE  \/ t <= c[1][1] /\ Target(c, t) = Quantize(c[1][2], 1)
         \/ c[1][1] < t /\ t >= c[Len(c)][1] /\ Target(c, t) = Quantize(c[Len(c)][2], 1)
         \/ \E j \in 1 .. Len(c) - 1 :
              /\ Within(c, t, j) /\ t < c[Len(c)][1]
              /\ Target(c, t) = Quantize(Demand(c, t, j), Span(c, j))
<1>. DEFINE Fits(j) == /\ c[j][1] <= t /\ t <= c[j + 1][1]
                       /\ \A k \in 1 .. j - 1 :
                            ~(c[k][1] <= t /\ t <= c[k + 1][1])
            i == CHOOSE j \in 1 .. Len(c) - 1 : Fits(j)
<1>1. CASE t <= c[1][1] \/ t >= c[Len(c)][1]
  BY <1>1, CurveTypes DEF Target
<1>2. CASE ~(t <= c[1][1]) /\ ~(t >= c[Len(c)][1])
  <2>1. c[1][1] < t /\ t < c[Len(c)][1]
    BY <1>2, CurveTypes
  <2>2. \E j \in 1 .. Len(c) - 1 : Fits(j)
    BY <2>1, Segment
  <2>3. i \in 1 .. Len(c) - 1 /\ Fits(i)
    <3>. HIDE DEF Fits
    <3>. QED
      BY <2>2
  <2>4. Target(c, t) = IF Span(c, i) = 0 THEN Quantize(c[i + 1][2], 1)
                       ELSE Quantize(Demand(c, t, i), Span(c, i))
    BY <1>2 DEF Target, Span, Demand
  <2>. HIDE DEF i
  <2>5. c[i][1] # t
    <3>. SUFFICES ASSUME c[i][1] = t PROVE FALSE
      OBVIOUS
    <3>1. i # 1
      BY <2>1, CurveTypes
    <3>2. i - 1 \in 1 .. i - 1 /\ i - 1 \in 1 .. Len(c) - 1 /\ (i - 1) + 1 = i
      BY <2>3, <3>1, CurveTypes
    <3>3. c[i - 1][1] <= c[i][1]
      BY <3>2, FanAssumption
    <3>. QED
      BY <2>3, <3>2, <3>3, CurveTypes
  <2>6. Within(c, t, i)
    BY <2>3, <2>5, CurveTypes DEF Within
  <2>7. Span(c, i) # 0
    BY <2>3, <2>6, CurveTypes DEF Within, Span
  <2>. QED
    BY <2>1, <2>3, <2>4, <2>6, <2>7
<1>. QED
  BY <1>1, <1>2

LEMMA DemandTypes ==
  ASSUME NEW c \in Curves, NEW t \in Nat, NEW j \in 1 .. Len(c) - 1, Within(c, t, j)
  PROVE  /\ j \in 1 .. Len(c) /\ j + 1 \in 1 .. Len(c)
         /\ c[j][1] \in Nat /\ c[j][2] \in Nat /\ c[j + 1][1] \in Nat /\ c[j + 1][2] \in Nat
         /\ Span(c, j) \in Nat \ {0} /\ Demand(c, t, j) \in Int
<1>1. j \in 1 .. Len(c) /\ j + 1 \in 1 .. Len(c)
  BY CurveTypes
<1>2. c[j][1] \in Nat /\ c[j][2] \in Nat /\ c[j + 1][1] \in Nat /\ c[j + 1][2] \in Nat
  BY <1>1, CurveTypes
<1>3. Span(c, j) \in Nat \ {0}
  BY <1>2 DEF Within, Span
<1>4. c[j + 1][2] - c[j][2] \in Int /\ t - c[j][1] \in Int
  BY <1>2, Difference, Zenon
<1>5. c[j][2] * Span(c, j) \in Int
  <2>1. c[j][2] \in Int /\ Span(c, j) \in Int
    BY <1>2, <1>3
  <2>. QED
    BY <2>1, Product, Zenon
<1>6. (c[j + 1][2] - c[j][2]) * (t - c[j][1]) \in Int
  BY <1>4, Product, Zenon
<1>7. Demand(c, t, j) \in Int
  BY <1>5, <1>6 DEF Demand
<1>. QED
  BY <1>1, <1>2, <1>3, <1>7

\* The curve passes by each of its points.
LEMMA PointNear ==
  ASSUME NEW c \in Curves, NEW i \in 1 .. Len(c), Alone(c, i)
  PROVE  Near(Target(c, c[i][1]), c[i][2])
<1>. DEFINE t == c[i][1]
<1>1. t \in Nat /\ c[i][2] \in Nat
  BY CurveTypes
<1>2. 1 \in 1 .. Len(c) /\ Len(c) \in 1 .. Len(c) /\ Len(c) \in i .. Len(c) /\ i \in 1 .. i
  BY CurveTypes
<1>3. ASSUME NEW k \in 1 .. Len(c), c[k][1] = t
      PROVE  k = i
  BY <1>3 DEF Alone
<1>4. Near(Quantize(c[i][2], 1), c[i][2])
  <2>1. c[i][2] * 1 = c[i][2] /\ 1 \in Nat \ {0}
    BY <1>1
  <2>. QED
    BY <1>1, <2>1, QuantizeNear
<1>5. CASE t <= c[1][1] /\ Target(c, t) = Quantize(c[1][2], 1)
  <2>1. c[1][1] <= t
    BY <1>2, CurveSorted
  <2>2. c[1][1] = t
    BY <1>1, <1>2, <1>5, <2>1, CurveTypes
  <2>3. i = 1
    BY <1>2, <1>3, <2>2
  <2>. QED
    BY <1>4, <1>5, <2>3
<1>6. CASE t >= c[Len(c)][1] /\ Target(c, t) = Quantize(c[Len(c)][2], 1)
  <2>1. t <= c[Len(c)][1]
    BY <1>2, CurveSorted
  <2>2. c[Len(c)][1] = t
    BY <1>1, <1>2, <1>6, <2>1, CurveTypes
  <2>3. i = Len(c)
    BY <1>2, <1>3, <2>2
  <2>. QED
    BY <1>4, <1>6, <2>3
<1>7. ASSUME NEW j \in 1 .. Len(c) - 1, Within(c, t, j),
             Target(c, t) = Quantize(Demand(c, t, j), Span(c, j))
      PROVE  Near(Target(c, t), c[i][2])
  <2>1. /\ j \in 1 .. Len(c) /\ j + 1 \in 1 .. Len(c) /\ Span(c, j) \in Nat \ {0}
        /\ c[j][1] \in Nat /\ c[j][2] \in Nat /\ c[j + 1][1] \in Nat
    BY <1>1, <1>7, DemandTypes
  <2>2. c[j][1] < t /\ t <= c[j + 1][1]
    BY <1>7 DEF Within
  <2>3. ~(i <= j)
    <3>. SUFFICES ASSUME i <= j PROVE FALSE
      OBVIOUS
    <3>1. j \in i .. Len(c)
      BY <2>1
    <3>2. t <= c[j][1]
      BY <3>1, CurveSorted
    <3>. QED
      BY <1>1, <2>1, <2>2, <3>2
  <2>4. i \in j + 1 .. Len(c)
    BY <2>1, <2>3
  <2>5. c[j + 1][1] <= t
    BY <2>1, <2>4, CurveSorted
  <2>6. c[j + 1][1] = t
    BY <1>1, <2>1, <2>2, <2>5
  <2>7. i = j + 1
    BY <1>3, <2>1, <2>6
  <2>8. Demand(c, t, j) = c[i][2] * Span(c, j)
    <3>1. Span(c, j) = t - c[j][1] /\ c[j + 1][2] = c[i][2]
      BY <2>6, <2>7 DEF Span
    <3>2. Demand(c, t, j) = c[j][2] * Span(c, j) + (c[i][2] - c[j][2]) * Span(c, j)
      BY <3>1 DEF Demand
    <3>. QED
      BY <1>1, <2>1, <3>2
  <2>. QED
    BY <1>1, <1>7, <2>1, <2>8, QuantizeNear
<1>. QED
  <2>1. \/ t <= c[1][1] /\ Target(c, t) = Quantize(c[1][2], 1)
        \/ t >= c[Len(c)][1] /\ Target(c, t) = Quantize(c[Len(c)][2], 1)
        \/ \E j \in 1 .. Len(c) - 1 :
             Within(c, t, j) /\ Target(c, t) = Quantize(Demand(c, t, j), Span(c, j))
    <3>. HIDE DEF t
    <3>. QED
      BY <1>1, TargetIs, Zenon
  <2>. QED
    BY <1>5, <1>6, <1>7, <2>1, Zenon

\* Within a segment of a curve that rises, the demand is between those of its ends.
LEMMA DemandBetween ==
  ASSUME NEW c \in Curves, Rising(c), NEW t \in Nat, NEW j \in 1 .. Len(c) - 1,
         Within(c, t, j)
  PROVE  /\ c[j][2] * Span(c, j) <= Demand(c, t, j)
         /\ Demand(c, t, j) <= c[j + 1][2] * Span(c, j)
<1>. DEFINE low == c[j][2]  high == c[j + 1][2]  x == t - c[j][1]
<1>1. /\ low \in Nat /\ high \in Nat /\ low <= high
      /\ x \in Nat /\ x <= Span(c, j) /\ Span(c, j) \in Nat
  <2>1. /\ low \in Nat /\ high \in Nat /\ c[j][1] \in Nat /\ c[j + 1][1] \in Nat
        /\ Span(c, j) \in Nat
    BY DemandTypes
  <2>2. low <= high
    BY DEF Rising
  <2>3. x \in Nat /\ x <= Span(c, j)
    BY <2>1 DEF Within, Span
  <2>. QED
    BY <2>1, <2>2, <2>3
<1>2. Demand(c, t, j) = low * Span(c, j) + (high - low) * x
  BY DEF Demand
<1>. HIDE DEF low, high, x
<1>3. 0 <= (high - low) * x /\ (high - low) * x <= (high - low) * Span(c, j)
  BY <1>1
<1>4. (high - low) * Span(c, j) = high * Span(c, j) - low * Span(c, j)
  BY <1>1
<1>. QED
  BY <1>1, <1>2, <1>3, <1>4 DEF low, high

\* The target never falls when the temperature rises.
LEMMA TargetRises ==
  ASSUME NEW c \in Curves, Rising(c), NEW t \in Nat
  PROVE  Target(c, t) <= Target(c, t + 1)
<1>. DEFINE first == c[1][2]  last2 == c[Len(c)][2]
<1>1. /\ t + 1 \in Nat /\ 1 \in 1 .. Len(c) /\ Len(c) \in 1 .. Len(c) /\ Len(c) \in Nat
      /\ c[1][1] \in Nat /\ c[Len(c)][1] \in Nat /\ first \in Nat /\ last2 \in Nat
      /\ 1 \in Nat \ {0}
  BY CurveTypes
<1>2. Quantize(first, 1) <= Quantize(last2, 1)
  <2>1. first <= last2
    BY <1>1, CurveSorted
  <2>2. first * 1 <= last2 * 1
    BY <1>1, <2>1
  <2>. HIDE DEF first, last2
  <2>. QED
    BY <1>1, <2>2, QuantizeMonotone
<1>3. ASSUME NEW s \in Nat, NEW j \in 1 .. Len(c) - 1, Within(c, s, j)
      PROVE  /\ Quantize(first, 1) <= Quantize(Demand(c, s, j), Span(c, j))
             /\ Quantize(Demand(c, s, j), Span(c, j)) <= Quantize(last2, 1)
  <2>. DEFINE n == Demand(c, s, j)  d == Span(c, j)  low == c[j][2]  high == c[j + 1][2]
  <2>1. /\ j \in 1 .. Len(c) /\ j + 1 \in 1 .. Len(c) /\ low \in Nat /\ high \in Nat
        /\ d \in Nat \ {0} /\ n \in Int
    BY <1>3, DemandTypes
  <2>2. first <= low /\ high <= last2
    <3>1. j \in 1 .. Len(c) /\ Len(c) \in j + 1 .. Len(c)
      BY <1>1, <2>1
    <3>2. first <= low
      BY <1>1, <3>1, CurveSorted
    <3>3. high <= last2
      BY <2>1, <3>1, CurveSorted
    <3>. QED
      BY <3>2, <3>3
  <2>3. low * d <= n /\ n <= high * d
    BY <1>3, DemandBetween
  <2>. HIDE DEF n, d, low, high, first, last2
  <2>4. first * d <= low * d /\ high * d <= last2 * d
    BY <1>1, <2>1, <2>2
  <2>5. first * d <= n * 1 /\ n * 1 <= last2 * d
    BY <1>1, <2>1, <2>3, <2>4
  <2>6. Quantize(first, 1) <= Quantize(n, d)
    BY <1>1, <2>1, <2>5, QuantizeMonotone
  <2>7. Quantize(n, d) <= Quantize(last2, 1)
    BY <1>1, <2>1, <2>5, QuantizeMonotone
  <2>. QED
    BY <2>6, <2>7 DEF n, d
<1>4. ASSUME NEW j \in 1 .. Len(c) - 1, NEW k \in 1 .. Len(c) - 1,
             Within(c, t, j), Within(c, t + 1, k)
      PROVE  Quantize(Demand(c, t, j), Span(c, j)) <= Quantize(Demand(c, t + 1, k), Span(c, k))
  <2>1. /\ j \in 1 .. Len(c) /\ j + 1 \in 1 .. Len(c) /\ Span(c, j) \in Nat \ {0}
        /\ Demand(c, t, j) \in Int /\ c[j][2] \in Nat /\ c[j + 1][2] \in Nat
        /\ c[j][1] \in Nat
    BY <1>4, DemandTypes
  <2>2. /\ k \in 1 .. Len(c) /\ k + 1 \in 1 .. Len(c) /\ Span(c, k) \in Nat \ {0}
        /\ Demand(c, t + 1, k) \in Int /\ c[k][2] \in Nat /\ c[k + 1][1] \in Nat
    BY <1>1, <1>4, DemandTypes
  <2>3. CASE j = k
    <3>. DEFINE slope == c[j + 1][2] - c[j][2]  x == t - c[j][1]  d == Span(c, j)
    <3>1. slope \in Nat /\ x \in Int
      BY <2>1 DEF Rising
    <3>2. Demand(c, t, j) = c[j][2] * d + slope * x
      BY DEF Demand
    <3>3. Demand(c, t + 1, j) = c[j][2] * d + slope * (x + 1)
      <4>1. (t + 1) - c[j][1] = x + 1
        BY <2>1, Successor, Zenon
      <4>. QED
        BY <4>1 DEF Demand
    <3>. HIDE DEF slope, x, d
    <3>4. slope * x \in Int /\ slope * (x + 1) = slope * x + slope
      BY <3>1
    <3>5. c[j][2] * d \in Int
      BY <2>1 DEF d
    <3>6. Demand(c, t, j) <= Demand(c, t + 1, j)
      BY <3>1, <3>2, <3>3, <3>4, <3>5
    <3>7. /\ Demand(c, t, j) \in Int /\ Demand(c, t + 1, j) \in Int
          /\ Span(c, j) \in Nat /\ Span(c, j) \in Nat \ {0}
      BY <2>1, <2>2, <2>3
    <3>8. Demand(c, t, j) * Span(c, j) <= Demand(c, t + 1, j) * Span(c, j)
      BY <3>6, <3>7, Scaled, Zenon
    <3>9. Quantize(Demand(c, t, j), Span(c, j)) <= Quantize(Demand(c, t + 1, j), Span(c, j))
      BY <3>7, <3>8, QuantizeMonotone, Zenon
    <3>. QED
      BY <2>3, <3>9
  <2>4. CASE j < k
    <3>. DEFINE n == Demand(c, t, j)  d == Span(c, j)  high == c[j + 1][2]
                m == Demand(c, t + 1, k)  e == Span(c, k)  low == c[k][2]
    <3>1. high <= low
      <4>1. k \in j + 1 .. Len(c)
        BY <2>2, <2>4
      <4>. QED
        BY <2>1, <4>1, CurveSorted
    <3>2. n <= high * d
      BY <1>4, DemandBetween
    <3>3. low * e <= m
      BY <1>1, <1>4, DemandBetween
    <3>4. /\ n \in Int /\ m \in Int /\ d \in Nat \ {0} /\ e \in Nat \ {0}
          /\ high \in Nat /\ low \in Nat
      BY <2>1, <2>2
    <3>. HIDE DEF n, m, d, e, high, low
    <3>5. n * e <= (high * d) * e /\ (low * e) * d <= m * d
      BY <3>2, <3>3, <3>4
    <3>6. (high * d) * e = high * (d * e) /\ (low * e) * d = low * (d * e)
          /\ d * e \in Nat
      BY <3>4
    <3>7. high * (d * e) <= low * (d * e)
      BY <3>1, <3>4, <3>6
    <3>8. n * e \in Int /\ m * d \in Int /\ high * (d * e) \in Int /\ low * (d * e) \in Int
      BY <3>4, <3>6
    <3>9. n * e <= m * d
      BY <3>5, <3>6, <3>7, <3>8
    <3>. QED
      BY <3>4, <3>9, QuantizeMonotone DEF n, m, d, e
  <2>5. ~(k < j)
    <3>. SUFFICES ASSUME k < j PROVE FALSE
      OBVIOUS
    <3>1. j \in k + 1 .. Len(c)
      BY <2>1, <2>2
    <3>2. c[k + 1][1] <= c[j][1]
      BY <2>2, <3>1, CurveSorted
    <3>3. c[j][1] < t /\ t + 1 <= c[k + 1][1]
      BY <1>4 DEF Within
    <3>. QED
      BY <2>1, <2>2, <3>2, <3>3
  <2>. QED
    BY <2>1, <2>2, <2>3, <2>4, <2>5
<1>. HIDE DEF first, last2
<1>5. CASE t <= c[1][1] /\ Target(c, t) = Quantize(first, 1)
  <2>1. Quantize(first, 1) <= Quantize(first, 1)
    <3>1. first * 1 <= first * 1
      BY <1>1
    <3>. QED
      BY <1>1, <3>1, QuantizeMonotone
  <2>. QED
    BY <1>1, <1>2, <1>3, <1>5, <2>1, TargetIs DEF first, last2
<1>6. CASE c[1][1] < t /\ t >= c[Len(c)][1] /\ Target(c, t) = Quantize(last2, 1)
  <2>1. Quantize(last2, 1) <= Quantize(last2, 1)
    <3>1. last2 * 1 <= last2 * 1
      BY <1>1
    <3>. QED
      BY <1>1, <3>1, QuantizeMonotone
  <2>2. ~(t + 1 <= c[1][1]) /\ ~(t + 1 < c[Len(c)][1])
    BY <1>1, <1>6
  <2>. QED
    BY <1>1, <1>6, <2>1, <2>2, TargetIs DEF last2
<1>7. ASSUME NEW j \in 1 .. Len(c) - 1, Within(c, t, j),
             Target(c, t) = Quantize(Demand(c, t, j), Span(c, j))
      PROVE  Target(c, t) <= Target(c, t + 1)
  <2>1. c[1][1] < t
    <3>1. c[1][1] <= c[j][1]
      BY <1>1, CurveSorted
    <3>. QED
      BY <1>1, <1>7, <3>1, CurveTypes DEF Within
  <2>2. ~(t + 1 <= c[1][1])
    BY <1>1, <2>1
  <2>. QED
    BY <1>1, <1>3, <1>4, <1>7, <2>2, TargetIs DEF last2
<1>. QED
  BY <1>5, <1>6, <1>7, TargetIs DEF first, last2

\* For every curve, limit and quantum of a configuration the target follows the
\* curve: by its points up to half a quantum, and never down while the curve rises.
THEOREM CurveFollowed == Spec => []TargetFollowsCurve
<1>1. Inv => TargetFollowsCurve
  <2>. SUFFICES ASSUME curve \in Curves PROVE TargetFollowsCurve
    BY DEF Inv, Safe, TypeOK
  <2>1. ASSUME NEW i \in 1 .. Len(curve), Alone(curve, i)
        PROVE  Near(Target(curve, curve[i][1]), curve[i][2])
    BY <2>1, PointNear
  <2>2. ASSUME Rising(curve), NEW t \in Temps \ {MaxTemp}
        PROVE  Target(curve, t) <= Target(curve, t + 1)
    BY <2>2, TargetRises DEF Temps
  <2>. QED
    BY <2>1, <2>2 DEF TargetFollowsCurve, Near
<1>. QED
  BY <1>1, FanAlwaysSafe, PTL
=============================================================================
