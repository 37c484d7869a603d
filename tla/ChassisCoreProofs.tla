-------------------------- MODULE ChassisCoreProofs --------------------------
(***************************************************************************)
(* What each operation of the chassis core preserves, for every number of  *)
(* wheels, every limit and every clock.                                    *)
(***************************************************************************)
EXTENDS ChassisCore, TLAPS

\* Nothing to act on outside ARMED.
Quiet(c) ==
  c.state # "ARMED" =>
    /\ c.target = AllZero /\ c.output = AllZero
    /\ c.integral = AllZero /\ c.stall = AllZero

\* A core record with nothing to act on outside ARMED.
Sound(c) == c \in Cores /\ Quiet(c)

\* Within the configured limits.
Bounded(c) ==
  \A w \in Wheels :
    /\ Magnitude(c.target[w]) <= MaxTarget
    /\ Magnitude(c.output[w]) <= MaxOutput
    /\ Magnitude(c.integral[w]) <= IntegralLimit
    /\ c.stall[w] < StallSteps

-----------------------------------------------------------------------------
(* Arithmetic. *)

\* Clamp keeps every number within its limit.
LEMMA ClampBound ==
  ASSUME NEW n \in Int, NEW limit \in Nat
  PROVE  Clamp(n, limit) \in Int /\ Magnitude(Clamp(n, limit)) <= limit
  BY DEF Clamp, Magnitude

\* Rounding a ratio yields an integer.
LEMMA RoundType ==
  ASSUME NEW n \in Int, NEW d \in Nat \ {0} PROVE RoundRatio(n, d) \in Int
<1>1. Magnitude(n) \in Nat
  BY DEF Magnitude
<1>2. 2 * d \in Nat \ {0} /\ 2 * Magnitude(n) + d \in Nat
  BY <1>1
<1>3. (2 * Magnitude(n) + d) \div (2 * d) \in Int
  BY <1>2
<1> QED
  BY <1>3 DEF RoundRatio

LEMMA RoundScaledType ==
  ASSUME NEW n \in Int PROVE RoundScaled(n) \in Int
  BY RoundType, CoreAssumption DEF RoundScaled

\* The output of the PI controller is within the hard limit for every error,
\* integral and gain.
LEMMA PiOutputBound ==
  ASSUME NEW c \in Cores, NEW error \in Int, NEW integral \in Int
  PROVE  /\ PiOutput(c, error, integral) \in Int
         /\ Magnitude(PiOutput(c, error, integral)) <= MaxOutput
<1>1. c.kp \in Nat /\ c.ki \in Nat
  BY DEF Cores
<1>2. c.kp * error + c.ki * integral \in Int
  BY <1>1
<1>3. RoundScaled(c.kp * error + c.ki * integral) \in Int
  BY <1>2, RoundScaledType
<1>4. MaxOutput \in Nat
  BY CoreAssumption
<1> QED
  BY <1>3, <1>4, ClampBound DEF PiOutput

-----------------------------------------------------------------------------
(* The controller's arithmetic, of every gain, scale and limit. *)

\* Division with a remainder, and that it determines the quotient.
LEMMA DivFacts ==
  ASSUME NEW a \in Int, NEW d \in Nat \ {0}
  PROVE  /\ a \div d \in Int
         /\ d * (a \div d) <= a /\ a < d * (a \div d) + d
  OBVIOUS

LEMMA DivOrder ==
  ASSUME NEW d \in Nat \ {0}, NEW p \in Int, NEW q \in Int, d * p < d * q + d
  PROVE  p <= q
  OBVIOUS

\* What rounding does to a number that is not negative.
LEMMA RoundNat ==
  ASSUME NEW n \in Nat, NEW d \in Nat \ {0}
  PROVE  LET r == RoundRatio(n, d)
         IN  /\ r \in Nat
             /\ (2 * d) * r <= 2 * n + d
             /\ 2 * n + d < (2 * d) * r + 2 * d
<1> DEFINE e == 2 * d
           a == 2 * n + d
           r == a \div e
<1>1. e \in Nat \ {0} /\ a \in Nat
  OBVIOUS
<1>2. RoundRatio(n, d) = r
  BY DEF RoundRatio, Magnitude
<1> HIDE DEF a, e
<1>3. r \in Int /\ e * r <= a /\ a < e * r + e
  BY <1>1, DivFacts
<1> HIDE DEF r
<1>4. e * 0 < e * r + e
  BY <1>1, <1>3
<1>5. 0 <= r
  BY <1>1, <1>3, <1>4, DivOrder
<1>6. r \in Nat
  BY <1>3, <1>5
<1> QED
  BY <1>2, <1>3, <1>6 DEF a, e

\* Rounding treats both signs alike.
LEMMA RoundOdd ==
  ASSUME NEW n \in Int, NEW d \in Nat \ {0}
  PROVE  RoundRatio(-n, d) = -RoundRatio(n, d)
<1>1. Magnitude(-n) = Magnitude(n) /\ Magnitude(n) \in Nat
  BY DEF Magnitude
<1>2. CASE n = 0
  <2>1. RoundRatio(0, d) \in Nat /\ (2 * d) * RoundRatio(0, d) <= d
    BY RoundNat
  <2>2. RoundRatio(0, d) = 0
    BY <2>1
  <2> QED
    BY <1>2, <2>2
<1>3. CASE n # 0
  <2> DEFINE r == (2 * Magnitude(n) + d) \div (2 * d)
  <2>1. r \in Int
    BY <1>1
  <2>2. /\ RoundRatio(n, d) = IF n < 0 THEN -r ELSE r
        /\ RoundRatio(-n, d) = IF -n < 0 THEN -r ELSE r
    BY <1>1 DEF RoundRatio
  <2> HIDE DEF r
  <2> QED
    BY <1>3, <2>1, <2>2
<1> QED
  BY <1>2, <1>3

\* lroundf: the result is within half of the exact value.
THEOREM RoundingIsNearest ==
  ASSUME NEW n \in Int, NEW d \in Nat \ {0}
  PROVE  Magnitude((2 * d) * RoundRatio(n, d) - 2 * n) <= d
<1> DEFINE Near(x) == Magnitude((2 * d) * RoundRatio(x, d) - 2 * x) <= d
<1>1. \A x \in Nat : Near(x)
  <2> SUFFICES ASSUME NEW x \in Nat PROVE Near(x)
    OBVIOUS
  <2> DEFINE e == (2 * d) * RoundRatio(x, d)
  <2>1. e \in Int /\ e <= 2 * x + d /\ 2 * x + d < e + 2 * d
    BY RoundNat
  <2> HIDE DEF e
  <2>2. Magnitude(e - 2 * x) <= d
    BY <2>1 DEF Magnitude
  <2> QED
    BY <2>2 DEF e
<1>2. CASE n \in Nat
  BY <1>1, <1>2
<1>3. CASE n \notin Nat
  <2>1. -n \in Nat /\ RoundRatio(-n, d) \in Int /\ RoundRatio(n, d) \in Int
    BY <1>3, RoundType
  <2>2. RoundRatio(-n, d) = -RoundRatio(n, d)
    BY RoundOdd
  <2>3. (2 * d) * RoundRatio(-n, d) - 2 * (-n)
          = -((2 * d) * RoundRatio(n, d) - 2 * n)
    BY <2>1, <2>2
  <2>4. \A e \in Int : Magnitude(-e) = Magnitude(e)
    BY DEF Magnitude
  <2>5. (2 * d) * RoundRatio(n, d) - 2 * n \in Int
    BY <2>1
  <2>6. Near(-n)
    BY <1>1, <2>1
  <2> QED
    BY <2>3, <2>4, <2>5, <2>6
<1> QED
  BY <1>2, <1>3

\* Rounding keeps the order.
LEMMA RoundMonotone ==
  ASSUME NEW m \in Int, NEW n \in Int, m <= n, NEW d \in Nat \ {0}
  PROVE  RoundRatio(m, d) <= RoundRatio(n, d)
<1>1. ASSUME NEW x \in Nat, NEW y \in Nat, x <= y
      PROVE  RoundRatio(x, d) <= RoundRatio(y, d)
  <2> DEFINE e == 2 * d
             p == RoundRatio(x, d)
             q == RoundRatio(y, d)
  <2>1. e \in Nat \ {0}
    OBVIOUS
  <2>2. p \in Nat /\ e * p <= 2 * x + d
    BY <1>1, RoundNat
  <2>3. q \in Nat /\ 2 * y + d < e * q + e
    BY <1>1, RoundNat
  <2> HIDE DEF e, p, q
  <2>4. e * p \in Int /\ e * q \in Int
    BY <2>1, <2>2, <2>3
  <2>5. e * p < e * q + e
    BY <1>1, <2>1, <2>2, <2>3, <2>4
  <2>6. p <= q
    BY <2>1, <2>2, <2>3, <2>5, DivOrder
  <2> QED
    BY <2>6 DEF p, q
<1>2. /\ RoundRatio(m, d) \in Int /\ RoundRatio(n, d) \in Int
      /\ RoundRatio(-m, d) = -RoundRatio(m, d)
      /\ RoundRatio(-n, d) = -RoundRatio(n, d)
  BY RoundType, RoundOdd
<1>3. CASE m \in Nat
  BY <1>1, <1>3
<1>4. CASE n \notin Nat
  <2>1. -n \in Nat /\ -m \in Nat /\ -n <= -m
    BY <1>4
  <2>2. RoundRatio(-n, d) <= RoundRatio(-m, d)
    BY <1>1, <2>1
  <2> QED
    BY <1>2, <2>2
<1>5. CASE m \notin Nat /\ n \in Nat
  <2>1. -m \in Nat
    BY <1>5
  <2>2. RoundRatio(-m, d) \in Nat
    BY <2>1, RoundNat
  <2>3. RoundRatio(n, d) \in Nat
    BY <1>5, RoundNat
  <2> QED
    BY <1>2, <2>2, <2>3
<1> QED
  BY <1>3, <1>4, <1>5

\* Rounding is exact on whole numbers.
LEMMA RoundExact ==
  ASSUME NEW k \in Nat, NEW d \in Nat \ {0} PROVE RoundRatio(d * k, d) = k
<1> DEFINE e == 2 * d
           r == RoundRatio(d * k, d)
<1>1. d * k \in Nat /\ e \in Nat \ {0} /\ 2 * (d * k) = e * k
  OBVIOUS
<1>2. r \in Int /\ e * r <= e * k + d /\ e * k + d < e * r + e
  BY <1>1, RoundNat
<1>3. d < e
  OBVIOUS
<1> HIDE DEF e, r
<1>4. e * r \in Int /\ e * k \in Int
  BY <1>1, <1>2
<1>5. e * r < e * k + e /\ e * k < e * r + e
  BY <1>1, <1>2, <1>3, <1>4
<1>6. r <= k /\ k <= r
  BY <1>1, <1>2, <1>5, DivOrder
<1>7. r = k
  BY <1>2, <1>6
<1> QED
  BY <1>7 DEF r

\* robot_chassis_core_step clamps the command and rounds it; PiOutput rounds it
\* and clamps it.  They agree, for every command, since the limit is whole.
THEOREM ClampAndRoundCommute ==
  ASSUME NEW n \in Int, NEW limit \in Nat
  PROVE  RoundScaled(Clamp(n, GainScale * limit)) = Clamp(RoundScaled(n), limit)
<1> DEFINE l == GainScale * limit
<1>1. l \in Nat
  BY CoreAssumption
<1>2. RoundScaled(l) = limit
  BY RoundExact, CoreAssumption DEF RoundScaled
<1>3. RoundScaled(-l) = -limit
  BY <1>1, <1>2, RoundOdd, CoreAssumption DEF RoundScaled
<1>4. RoundScaled(n) \in Int
  BY RoundScaledType
<1> HIDE DEF l
<1>5. CASE n > l
  <2>1. limit <= RoundScaled(n)
    BY <1>1, <1>2, <1>5, RoundMonotone, CoreAssumption DEF RoundScaled
  <2>2. Clamp(n, l) = l /\ Clamp(RoundScaled(n), limit) = limit
    BY <1>1, <1>4, <1>5, <2>1 DEF Clamp
  <2> QED
    BY <1>2, <2>2 DEF l
<1>6. CASE n < -l
  <2>1. RoundScaled(n) <= -limit
    BY <1>1, <1>3, <1>6, RoundMonotone, CoreAssumption DEF RoundScaled
  <2>2. Clamp(n, l) = -l /\ Clamp(RoundScaled(n), limit) = -limit
    BY <1>1, <1>4, <1>6, <2>1 DEF Clamp
  <2> QED
    BY <1>3, <2>2 DEF l
<1>7. CASE -l <= n /\ n <= l
  <2>1. -limit <= RoundScaled(n) /\ RoundScaled(n) <= limit
    BY <1>1, <1>2, <1>3, <1>7, RoundMonotone, CoreAssumption DEF RoundScaled
  <2>2. Clamp(n, l) = n /\ Clamp(RoundScaled(n), limit) = RoundScaled(n)
    BY <1>1, <1>4, <1>7, <2>1 DEF Clamp
  <2> QED
    BY <2>2 DEF l
<1> QED
  BY <1>1, <1>5, <1>6, <1>7

\* Clamping treats both signs alike and keeps the order.
LEMMA ClampFacts ==
  ASSUME NEW limit \in Nat
  PROVE  /\ \A n \in Int : Clamp(-n, limit) = -Clamp(n, limit)
         /\ \A m, n \in Int : m <= n => Clamp(m, limit) <= Clamp(n, limit)
  BY DEF Clamp

\* A wheel that lags further behind is driven no less, whatever the gains.
THEOREM ControllerIsMonotone ==
  ASSUME NEW c \in Cores, NEW e1 \in Int, NEW e2 \in Int, e1 <= e2,
         NEW i1 \in Int, NEW i2 \in Int, i1 <= i2
  PROVE  PiOutput(c, e1, i1) <= PiOutput(c, e2, i2)
<1> DEFINE x == c.kp * e1 + c.ki * i1
           y == c.kp * e2 + c.ki * i2
<1>1. c.kp \in Nat /\ c.ki \in Nat
  BY DEF Cores
<1>2. c.kp * e1 \in Int /\ c.kp * e2 \in Int /\ c.ki * i1 \in Int /\ c.ki * i2 \in Int
  BY <1>1
<1>3. ASSUME NEW k \in Nat, NEW a \in Int, NEW b \in Int, a <= b
      PROVE  k * a <= k * b
  BY <1>3
<1>4. c.kp * e1 <= c.kp * e2 /\ c.ki * i1 <= c.ki * i2
  BY <1>1, <1>3
<1>5. x \in Int /\ y \in Int /\ x <= y
  BY <1>2, <1>4
<1> HIDE DEF x, y
<1>6. /\ RoundScaled(x) \in Int /\ RoundScaled(y) \in Int
      /\ RoundScaled(x) <= RoundScaled(y)
  BY <1>5, RoundScaledType, RoundMonotone, CoreAssumption DEF RoundScaled
<1>7. Clamp(RoundScaled(x), MaxOutput) <= Clamp(RoundScaled(y), MaxOutput)
  BY <1>6, ClampFacts, CoreAssumption
<1> QED
  BY <1>7 DEF x, y, PiOutput

-----------------------------------------------------------------------------
(* The conversion of a twist. *)

\* A ratio within a whole limit rounds to within it, and at the limit to it.
LEMMA RoundWithin ==
  ASSUME NEW n \in Int, NEW d \in Nat \ {0}, NEW limit \in Nat,
         Magnitude(n) <= d * limit
  PROVE  /\ RoundRatio(n, d) \in Int
         /\ Magnitude(RoundRatio(n, d)) <= limit
         /\ Magnitude(n) = d * limit => Magnitude(RoundRatio(n, d)) = limit
<1> DEFINE l == d * limit
<1>1. l \in Nat
  OBVIOUS
<1>2. RoundRatio(l, d) = limit
  BY RoundExact
<1>3. RoundRatio(-l, d) = -limit
  BY <1>1, <1>2, RoundOdd
<1>4. RoundRatio(n, d) \in Int
  BY RoundType
<1>5. Magnitude(n) <= l
  OBVIOUS
<1> HIDE DEF l
<1>6. -l <= n /\ n <= l /\ -l \in Int
  BY <1>1, <1>5 DEF Magnitude
<1>7. -limit <= RoundRatio(n, d) /\ RoundRatio(n, d) <= limit
  BY <1>1, <1>2, <1>3, <1>6, RoundMonotone
<1>8. Magnitude(RoundRatio(n, d)) <= limit
  BY <1>4, <1>7 DEF Magnitude
<1>9. ASSUME Magnitude(n) = l PROVE Magnitude(RoundRatio(n, d)) = limit
  <2>1. n = l \/ n = -l
    BY <1>1, <1>9 DEF Magnitude
  <2>2. RoundRatio(n, d) = limit \/ RoundRatio(n, d) = -limit
    BY <1>2, <1>3, <2>1
  <2> QED
    BY <2>2 DEF Magnitude
<1> QED
  BY <1>4, <1>8, <1>9 DEF l

\* TwistCounts rounds both sides by one and the same scale.
LEMMA TwistScale ==
  ASSUME NEW left \in Int, NEW right \in Int
  PROVE  \E m \in Nat \ {0}, d \in Nat \ {0} :
           /\ TwistCounts(left, right) =
                [left |-> RoundRatio(left * m, d), right |-> RoundRatio(right * m, d)]
           /\ Magnitude(left * m) <= d * MaxTarget
           /\ Magnitude(right * m) <= d * MaxTarget
           /\ (\/ Magnitude(left) > MaxTarget * GainScale
               \/ Magnitude(right) > MaxTarget * GainScale) =>
                (\/ Magnitude(left * m) = d * MaxTarget
                 \/ Magnitude(right * m) = d * MaxTarget)
<1> DEFINE peak == IF Magnitude(left) > Magnitude(right) THEN Magnitude(left)
                   ELSE Magnitude(right)
           limit == MaxTarget * GainScale
<1>1. /\ MaxTarget \in Nat \ {0} /\ GainScale \in Nat \ {0}
      /\ limit \in Nat /\ limit = GainScale * MaxTarget
  BY CoreAssumption
<1>2. /\ Magnitude(left) \in Nat /\ Magnitude(right) \in Nat
      /\ Magnitude(left) <= peak /\ Magnitude(right) <= peak
      /\ peak = Magnitude(left) \/ peak = Magnitude(right)
      /\ peak \in Nat
  BY DEF Magnitude
<1>3. TwistCounts(left, right) =
        IF peak > limit
        THEN [left |-> RoundRatio(left * MaxTarget, peak),
              right |-> RoundRatio(right * MaxTarget, peak)]
        ELSE [left |-> RoundRatio(left, GainScale),
              right |-> RoundRatio(right, GainScale)]
  BY DEF TwistCounts, RoundScaled
<1>4. \A n \in Int : Magnitude(n * MaxTarget) = Magnitude(n) * MaxTarget
  <2> SUFFICES ASSUME NEW n \in Int
               PROVE  Magnitude(n * MaxTarget) = Magnitude(n) * MaxTarget
    OBVIOUS
  <2>1. CASE n >= 0
    <3>1. n * MaxTarget >= 0 /\ n * MaxTarget \in Int
      BY <1>1, <2>1
    <3> QED
      BY <2>1, <3>1 DEF Magnitude
  <2>2. CASE n < 0
    <3>1. n * MaxTarget < 0 /\ (-n) * MaxTarget = -(n * MaxTarget)
      BY <1>1, <2>2
    <3> QED
      BY <2>2, <3>1 DEF Magnitude
  <2> QED
    BY <2>1, <2>2
<1> HIDE DEF peak, limit
<1>5. CASE peak > limit
  <2>1. peak \in Nat \ {0}
    BY <1>1, <1>2, <1>5
  <2>2. ASSUME NEW a \in Nat, a <= peak PROVE a * MaxTarget <= peak * MaxTarget
    BY <1>1, <2>1, <2>2
  <2>3. /\ Magnitude(left * MaxTarget) <= peak * MaxTarget
        /\ Magnitude(right * MaxTarget) <= peak * MaxTarget
    BY <1>2, <1>4, <2>2
  <2>4. \/ Magnitude(left * MaxTarget) = peak * MaxTarget
        \/ Magnitude(right * MaxTarget) = peak * MaxTarget
    BY <1>2, <1>4
  <2> QED
    BY <1>1, <1>3, <1>5, <2>1, <2>3, <2>4
<1>6. CASE ~(peak > limit)
  <2>1. /\ Magnitude(left) <= GainScale * MaxTarget
        /\ Magnitude(right) <= GainScale * MaxTarget
        /\ ~(Magnitude(left) > limit) /\ ~(Magnitude(right) > limit)
    BY <1>1, <1>2, <1>6
  <2>2. left * 1 = left /\ right * 1 = right /\ 1 \in Nat \ {0}
    OBVIOUS
  <2> QED
    BY <1>1, <1>3, <1>6, <2>1, <2>2 DEF limit
<1> QED
  BY <1>5, <1>6

\* robot_chassis_core_twist_to_targets in exact arithmetic, so for a twist that
\* does not overflow its floats: both targets are within max_target_counts and
\* an armed core accepts them; when the twist is beyond the limit its faster side
\* is exactly at it.
THEOREM TwistWithinLimit ==
  ASSUME NEW left \in Int, NEW right \in Int
  PROVE  LET t == TwistCounts(left, right)
         IN  /\ t.left \in Int /\ t.right \in Int
             /\ Magnitude(t.left) <= MaxTarget /\ Magnitude(t.right) <= MaxTarget
             /\ (\/ Magnitude(left) > MaxTarget * GainScale
                 \/ Magnitude(right) > MaxTarget * GainScale) =>
                  Magnitude(t.left) = MaxTarget \/ Magnitude(t.right) = MaxTarget
<1>1. PICK m \in Nat \ {0}, d \in Nat \ {0} :
        /\ TwistCounts(left, right) =
             [left |-> RoundRatio(left * m, d), right |-> RoundRatio(right * m, d)]
        /\ Magnitude(left * m) <= d * MaxTarget
        /\ Magnitude(right * m) <= d * MaxTarget
        /\ (\/ Magnitude(left) > MaxTarget * GainScale
            \/ Magnitude(right) > MaxTarget * GainScale) =>
             (\/ Magnitude(left * m) = d * MaxTarget
              \/ Magnitude(right * m) = d * MaxTarget)
  BY TwistScale
<1>2. left * m \in Int /\ right * m \in Int /\ MaxTarget \in Nat
  BY CoreAssumption
<1>3. /\ RoundRatio(left * m, d) \in Int
      /\ Magnitude(RoundRatio(left * m, d)) <= MaxTarget
      /\ Magnitude(left * m) = d * MaxTarget =>
           Magnitude(RoundRatio(left * m, d)) = MaxTarget
  BY <1>1, <1>2, RoundWithin
<1>4. /\ RoundRatio(right * m, d) \in Int
      /\ Magnitude(RoundRatio(right * m, d)) <= MaxTarget
      /\ Magnitude(right * m) = d * MaxTarget =>
           Magnitude(RoundRatio(right * m, d)) = MaxTarget
  BY <1>1, <1>2, RoundWithin
<1> QED
  BY <1>1, <1>3, <1>4

\* In exact arithmetic, limiting and rounding never turn a twist the other way:
\* the sides keep their order, a straight twist stays straight, and no side is
\* reversed.
THEOREM TwistKeepsItsSense ==
  ASSUME NEW left \in Int, NEW right \in Int
  PROVE  LET t == TwistCounts(left, right)
         IN  /\ left <= right => t.left <= t.right
             /\ right <= left => t.right <= t.left
             /\ left >= 0 => t.left >= 0
             /\ left <= 0 => t.left <= 0
             /\ right >= 0 => t.right >= 0
             /\ right <= 0 => t.right <= 0
<1>1. PICK m \in Nat \ {0}, d \in Nat \ {0} :
        TwistCounts(left, right) =
          [left |-> RoundRatio(left * m, d), right |-> RoundRatio(right * m, d)]
  BY TwistScale
<1>2. \A a, b \in Int : a <= b => a * m <= b * m
  OBVIOUS
<1>3. \A a \in Int : a * m \in Int
  OBVIOUS
<1>4. \A a, b \in Int : a <= b => RoundRatio(a * m, d) <= RoundRatio(b * m, d)
  BY <1>2, <1>3, RoundMonotone
<1>5. RoundRatio(0 * m, d) = 0
  <2>1. RoundRatio(d * 0, d) = 0
    BY RoundExact
  <2>2. 0 * m = d * 0
    OBVIOUS
  <2> QED
    BY <2>1, <2>2
<1>6. \A a \in Int : /\ a >= 0 => RoundRatio(a * m, d) >= 0
                     /\ a <= 0 => RoundRatio(a * m, d) <= 0
  <2> SUFFICES ASSUME NEW a \in Int
               PROVE  /\ a >= 0 => RoundRatio(a * m, d) >= 0
                      /\ a <= 0 => RoundRatio(a * m, d) <= 0
    OBVIOUS
  <2> DEFINE zero == 0
  <2>1. zero \in Int /\ RoundRatio(zero * m, d) = 0
    BY <1>5
  <2> HIDE DEF zero
  <2>2. /\ zero <= a => RoundRatio(zero * m, d) <= RoundRatio(a * m, d)
        /\ a <= zero => RoundRatio(a * m, d) <= RoundRatio(zero * m, d)
    BY <1>4, <2>1
  <2>3. RoundRatio(a * m, d) \in Int
    BY <1>3, RoundType
  <2> QED
    BY <2>1, <2>2, <2>3 DEF zero
<1> QED
  BY <1>1, <1>4, <1>6

-----------------------------------------------------------------------------
(* Operations. *)

\* Zero vectors are typed and within every limit.
LEMMA AllZeroFacts ==
  /\ AllZero \in [Wheels -> Int] /\ AllZero \in [Wheels -> Nat]
  /\ \A w \in Wheels : AllZero[w] = 0 /\ Magnitude(AllZero[w]) = 0
  BY DEF AllZero, Magnitude

\* What zero_control leaves: the vectors are zero, the rest is as it was.
LEMMA ZeroControlFacts ==
  ASSUME NEW c \in Cores
  PROVE  LET z == ZeroControl(c)
         IN  /\ z \in Cores /\ Quiet(z) /\ Bounded(z)
             /\ z.state = c.state /\ z.zero_seen = c.zero_seen
             /\ z.last_command = c.last_command
             /\ z.target = AllZero /\ z.output = AllZero
             /\ z.integral = AllZero /\ z.stall = AllZero
<1>1. ZeroControl(c) \in Cores
  BY AllZeroFacts DEF ZeroControl, Cores
<1>2. LET z == ZeroControl(c)
      IN  /\ z.target = AllZero /\ z.output = AllZero
          /\ z.integral = AllZero /\ z.stall = AllZero
          /\ z.state = c.state /\ z.zero_seen = c.zero_seen
          /\ z.last_command = c.last_command
  BY DEF ZeroControl, Cores
<1>3. \A w \in Wheels : AllZero[w] = 0 /\ Magnitude(AllZero[w]) = 0
  BY AllZeroFacts
<1> QED
  BY <1>1, <1>2, <1>3, CoreAssumption DEF Quiet, Bounded

\* A record with the vectors at zero is quiet and bounded in any state.
LEMMA ZeroedIsSound ==
  ASSUME NEW c \in Cores,
         c.target = AllZero, c.output = AllZero,
         c.integral = AllZero, c.stall = AllZero
  PROVE  Quiet(c) /\ Bounded(c)
<1>1. \A w \in Wheels : AllZero[w] = 0 /\ Magnitude(AllZero[w]) = 0
  BY AllZeroFacts
<1> QED
  BY <1>1, CoreAssumption DEF Quiet, Bounded

\* The core that diag_start hands to the task is disarmed and has seen no ZERO.
LEMMA InitialCoreFacts ==
  ASSUME NEW kp \in Nat, NEW ki \in Nat
  PROVE  LET c == InitialCore(kp, ki)
         IN  /\ c \in Cores /\ Quiet(c) /\ Bounded(c)
             /\ c.state = "DISARMED" /\ c.zero_seen = FALSE
<1>1. 0 \in Clock
  BY CoreAssumption DEF Clock
<1>2. InitialCore(kp, ki) \in Cores
  BY <1>1, AllZeroFacts DEF InitialCore, Cores, States, StopReasons
<1>3. LET c == InitialCore(kp, ki)
      IN  /\ c.target = AllZero /\ c.output = AllZero
          /\ c.integral = AllZero /\ c.stall = AllZero
          /\ c.state = "DISARMED" /\ c.zero_seen = FALSE
  BY DEF InitialCore
<1> QED
  BY <1>2, <1>3, ZeroedIsSound

\* A stop for any reason leaves a typed, quiet core outside ARMED.  Only a
\* fault latches, and no stop makes a ZERO seen that was not.
LEMMA StopFacts ==
  ASSUME NEW c \in Cores, NEW reason \in StopReasons
  PROVE  LET n == Stop(c, reason)
         IN  /\ n \in Cores /\ Quiet(n) /\ Bounded(n)
             /\ n.state # "ARMED" /\ (n.zero_seen => c.zero_seen)
             /\ reason \in FaultReasons \cup {"TIMEOUT"} => ~n.zero_seen
<1> DEFINE z == ZeroControl(c)
           n == Stop(c, reason)
<1>1. /\ z \in Cores
      /\ z.target = AllZero /\ z.output = AllZero
      /\ z.integral = AllZero /\ z.stall = AllZero
  BY ZeroControlFacts
<1>2. c.zero_seen \in BOOLEAN
  BY DEF Cores
<1>3. n \in Cores
  BY <1>1, <1>2 DEF Stop, Cores, States
<1>4. /\ n.target = AllZero /\ n.output = AllZero
      /\ n.integral = AllZero /\ n.stall = AllZero
      /\ n.state # "ARMED" /\ (n.zero_seen => c.zero_seen)
      /\ reason \in FaultReasons \cup {"TIMEOUT"} => ~n.zero_seen
  BY <1>1, <1>2 DEF Stop, Cores
<1> QED
  BY <1>3, <1>4, ZeroedIsSound

\* ZERO leaves a typed, quiet core that may be armed unless a fault is latched.
LEMMA AcceptZeroFacts ==
  ASSUME NEW c \in Cores, NEW now \in Clock
  PROVE  LET n == AcceptZero(c, now)
         IN  /\ n \in Cores /\ Quiet(n) /\ Bounded(n)
             /\ n.state # "ARMED" /\ n.zero_seen
<1> DEFINE z == ZeroControl(c)
           n == AcceptZero(c, now)
<1>1. /\ z \in Cores /\ z.state = c.state
      /\ z.target = AllZero /\ z.output = AllZero
      /\ z.integral = AllZero /\ z.stall = AllZero
  BY ZeroControlFacts
<1>2. n \in Cores
  BY <1>1 DEF AcceptZero, Cores, States, StopReasons
<1>3. /\ n.target = AllZero /\ n.output = AllZero
      /\ n.integral = AllZero /\ n.stall = AllZero
      /\ n.state # "ARMED" /\ n.zero_seen
  BY <1>1 DEF AcceptZero, Cores
<1> QED
  BY <1>2, <1>3, ZeroedIsSound

\* ARM either changes nothing or arms, with the clock at now, a core that has
\* seen a ZERO; then the vectors are zero.
LEMMA ArmFacts ==
  ASSUME NEW c \in Cores, Quiet(c), NEW now \in Clock
  PROVE  LET n == Arm(c, now)
         IN  /\ n \in Cores /\ Quiet(n) /\ (Bounded(c) => Bounded(n))
             /\ \/ n = c
                \/ /\ c.state # "ARMED" /\ c.zero_seen
                   /\ n.state = "ARMED" /\ n.last_command = now
<1> DEFINE z == ZeroControl(c)
           n == Arm(c, now)
<1>1. CASE ~CanArm(c)
  BY <1>1 DEF Arm
<1>2. CASE CanArm(c)
  <2>1. /\ z \in Cores
        /\ z.target = AllZero /\ z.output = AllZero
        /\ z.integral = AllZero /\ z.stall = AllZero
    BY ZeroControlFacts
  <2>2. n \in Cores
    BY <1>2, <2>1 DEF Arm, Cores, States, StopReasons
  <2>3. /\ n.target = AllZero /\ n.output = AllZero
        /\ n.integral = AllZero /\ n.stall = AllZero
        /\ n.state = "ARMED" /\ n.last_command = now
    BY <1>2, <2>1 DEF Arm, Cores
  <2> QED
    BY <1>2, <2>2, <2>3, ZeroedIsSound DEF CanArm
<1> QED
  BY <1>1, <1>2

\* CLEAR either changes nothing or leaves a latched fault for DISARMED, and
\* never touches the ZERO seen.
LEMMA ClearFaultFacts ==
  ASSUME NEW c \in Cores, Quiet(c)
  PROVE  LET n == ClearFault(c)
         IN  /\ n \in Cores /\ Quiet(n) /\ (Bounded(c) => Bounded(n))
             /\ \/ n = c
                \/ c.state # "ARMED" /\ n.state # "ARMED"
             /\ n.zero_seen = c.zero_seen
<1> DEFINE z == ZeroControl(c)
           n == ClearFault(c)
<1>1. CASE ~CanClearFault(c)
  BY <1>1 DEF ClearFault
<1>2. CASE CanClearFault(c)
  <2>1. /\ z \in Cores /\ z.zero_seen = c.zero_seen
        /\ z.target = AllZero /\ z.output = AllZero
        /\ z.integral = AllZero /\ z.stall = AllZero
    BY ZeroControlFacts
  <2>2. n \in Cores
    BY <1>2, <2>1 DEF ClearFault, Cores, States, StopReasons
  <2>3. /\ n.target = AllZero /\ n.output = AllZero
        /\ n.integral = AllZero /\ n.stall = AllZero
        /\ n.state = "DISARMED" /\ n.zero_seen = c.zero_seen
    BY <1>2, <2>1 DEF ClearFault, Cores
  <2> QED
    BY <1>2, <2>2, <2>3, ZeroedIsSound DEF CanClearFault
<1> QED
  BY <1>1, <1>2

\* New gains are taken only outside ARMED, and take the ZERO seen back.
LEMMA UpdateGainsFacts ==
  ASSUME NEW c \in Cores, Quiet(c), NEW kp \in Nat, NEW ki \in Nat
  PROVE  LET n == UpdateGains(c, kp, ki)
         IN  /\ n \in Cores /\ Quiet(n) /\ (Bounded(c) => Bounded(n))
             /\ \/ n = c
                \/ /\ c.state # "ARMED" /\ n.state # "ARMED"
                   /\ ~n.zero_seen
<1> DEFINE z == ZeroControl(c)
           n == UpdateGains(c, kp, ki)
<1>1. CASE ~CanUpdateGains(c)
  BY <1>1 DEF UpdateGains
<1>2. CASE CanUpdateGains(c)
  <2>1. /\ z \in Cores /\ z.state = c.state
        /\ z.target = AllZero /\ z.output = AllZero
        /\ z.integral = AllZero /\ z.stall = AllZero
    BY ZeroControlFacts
  <2>2. n \in Cores
    BY <1>2, <2>1 DEF UpdateGains, Cores, StopReasons
  <2>3. /\ n.target = AllZero /\ n.output = AllZero
        /\ n.integral = AllZero /\ n.stall = AllZero
        /\ n.state = c.state /\ ~n.zero_seen
    BY <1>2, <2>1 DEF UpdateGains, Cores
  <2> QED
    BY <1>2, <2>2, <2>3, ZeroedIsSound DEF CanUpdateGains
<1> QED
  BY <1>1, <1>2

\* Targets other than INT_MIN that pass the check are within the limit.
LEMMA OverLimitBound ==
  ASSUME NEW t \in Int, NEW absWraps \in BOOLEAN,
         t # IntMin, ~OverLimit(t, absWraps)
  PROVE  Magnitude(t) <= MaxTarget
  BY CoreAssumption DEF OverLimit, Magnitude

\* Targets taken while ARMED stay ARMED and restart the timeout; the vectors
\* are as they were or zero.
LEMMA AcceptTargetsFacts ==
  ASSUME NEW c \in Cores, c.state = "ARMED", NEW now \in Clock,
         NEW targets \in [Wheels -> Int]
  PROVE  LET n == AcceptTargets(c, targets, now)
         IN  /\ n \in Cores /\ n.state = "ARMED" /\ n.last_command = now
             /\ Bounded(c) /\ (\A w \in Wheels : Magnitude(targets[w]) <= MaxTarget)
                  => Bounded(n)
<1> DEFINE z == ZeroControl(c)
           n == AcceptTargets(c, targets, now)
<1>1. CASE targets = AllZero
  <2>1. /\ z \in Cores /\ z.state = c.state
        /\ z.target = AllZero /\ z.output = AllZero
        /\ z.integral = AllZero /\ z.stall = AllZero
    BY ZeroControlFacts
  <2>2. n \in Cores
    BY <1>1, <2>1 DEF AcceptTargets, Cores, StopReasons
  <2>3. /\ n.target = AllZero /\ n.output = AllZero
        /\ n.integral = AllZero /\ n.stall = AllZero
        /\ n.state = "ARMED" /\ n.last_command = now
    BY <1>1, <2>1 DEF AcceptTargets, Cores
  <2> QED
    BY <2>2, <2>3, ZeroedIsSound
<1>2. CASE targets # AllZero
  <2>1. n = [c EXCEPT !.target = targets, !.last_command = now,
                      !.stop_reason = "NONE"]
    BY <1>2 DEF AcceptTargets
  <2>2. n \in Cores
    BY <2>1 DEF Cores, StopReasons
  <2>3. /\ n.target = targets /\ n.output = c.output
        /\ n.integral = c.integral /\ n.stall = c.stall
        /\ n.state = "ARMED" /\ n.last_command = now
    BY <2>1 DEF Cores
  <2> QED
    BY <2>2, <2>3 DEF Bounded
<1> QED
  BY <1>1, <1>2

\* Submitting targets: ignored outside ARMED, taken, or a latched fault.
LEMMA SubmitFacts ==
  ASSUME NEW c \in Cores, Quiet(c), NEW now \in Clock,
         NEW targets \in [Wheels -> Int], NEW absWraps \in BOOLEAN
  PROVE  LET n == Submit(c, targets, now, absWraps)
         IN  /\ n \in Cores /\ Quiet(n)
             /\ Bounded(c) /\ (\A w \in Wheels : targets[w] # IntMin) => Bounded(n)
             /\ Accepts(c, targets, absWraps)
                  => n.state = "ARMED" /\ c.state = "ARMED" /\ n.last_command = now
             /\ ~Accepts(c, targets, absWraps)
                  => n.state # "ARMED" /\ (n = c \/ ~n.zero_seen)
<1> DEFINE n == Submit(c, targets, now, absWraps)
<1>1. CASE c.state # "ARMED"
  BY <1>1 DEF Submit, Accepts
<1>2. CASE Accepts(c, targets, absWraps)
  <2>1. c.state = "ARMED" /\ n = AcceptTargets(c, targets, now)
    BY <1>2 DEF Submit, Accepts
  <2>2. (\A w \in Wheels : targets[w] # IntMin)
          => \A w \in Wheels : Magnitude(targets[w]) <= MaxTarget
    BY <1>2, OverLimitBound DEF Accepts
  <2>3. /\ n \in Cores /\ n.state = "ARMED" /\ n.last_command = now
        /\ Bounded(c) /\ (\A w \in Wheels : Magnitude(targets[w]) <= MaxTarget)
             => Bounded(n)
    BY <2>1, AcceptTargetsFacts
  <2> QED
    BY <1>2, <2>1, <2>2, <2>3 DEF Quiet
<1>3. CASE c.state = "ARMED" /\ ~Accepts(c, targets, absWraps)
  <2>1. n = Stop(c, "INVALID_TARGET")
    BY <1>3 DEF Submit
  <2>2. "INVALID_TARGET" \in StopReasons /\ "INVALID_TARGET" \in FaultReasons
    BY DEF StopReasons, FaultReasons
  <2>3. /\ n \in Cores /\ Quiet(n) /\ Bounded(n)
        /\ n.state # "ARMED" /\ ~n.zero_seen
    BY <2>1, <2>2, StopFacts
  <2> QED
    BY <1>3, <2>3
<1> QED
  BY <1>1, <1>2, <1>3

\* The vectors that one step of the controller computes are typed and within
\* the limits, whatever the encoders report.
LEMMA ControllerFacts ==
  ASSUME NEW c \in Cores, NEW delta \in [Wheels -> Int]
  PROVE  /\ NewStall(c, delta) \in [Wheels -> Nat]
         /\ NewIntegral(c, delta) \in [Wheels -> Int]
         /\ NewOutput(c, delta) \in [Wheels -> Int]
         /\ \A w \in Wheels :
              /\ Magnitude(NewIntegral(c, delta)[w]) <= IntegralLimit
              /\ Magnitude(NewOutput(c, delta)[w]) <= MaxOutput
              /\ c.target[w] = 0 => NewOutput(c, delta)[w] = 0
<1>1. /\ c.target \in [Wheels -> Int] /\ c.integral \in [Wheels -> Int]
      /\ c.stall \in [Wheels -> Nat]
  BY DEF Cores
<1>2. NewStall(c, delta) \in [Wheels -> Nat]
  BY <1>1 DEF NewStall
<1>3. IntegralLimit \in Nat /\ MaxOutput \in Nat /\ Magnitude(0) = 0
  BY CoreAssumption DEF Magnitude
<1>4. ASSUME NEW w \in Wheels
      PROVE  /\ NewIntegral(c, delta)[w] \in Int
             /\ Magnitude(NewIntegral(c, delta)[w]) <= IntegralLimit
  <2>1. c.integral[w] + c.target[w] - delta[w] \in Int
    BY <1>1
  <2>2. LET x == Clamp(c.integral[w] + c.target[w] - delta[w], IntegralLimit)
        IN  x \in Int /\ Magnitude(x) <= IntegralLimit
    BY <2>1, <1>3, ClampBound
  <2> QED
    BY <2>2, <1>3 DEF NewIntegral
<1>5. NewIntegral(c, delta) \in [Wheels -> Int]
  BY <1>4 DEF NewIntegral
<1>6. ASSUME NEW w \in Wheels
      PROVE  /\ NewOutput(c, delta)[w] \in Int
             /\ Magnitude(NewOutput(c, delta)[w]) <= MaxOutput
             /\ c.target[w] = 0 => NewOutput(c, delta)[w] = 0
  <2>1. c.target[w] - delta[w] \in Int
    BY <1>1
  <2>2. LET x == PiOutput(c, c.target[w] - delta[w], NewIntegral(c, delta)[w])
        IN  x \in Int /\ Magnitude(x) <= MaxOutput
    BY <2>1, <1>4, PiOutputBound
  <2> QED
    BY <2>2, <1>3 DEF NewOutput
<1>7. NewOutput(c, delta) \in [Wheels -> Int]
  BY <1>6 DEF NewOutput
<1> QED
  BY <1>2, <1>4, <1>5, <1>6, <1>7

\* One step of the controller: outside ARMED it changes nothing that matters;
\* in ARMED it stops, or goes on with a command that is not too old.
LEMMA StepFacts ==
  ASSUME NEW c \in Cores, Quiet(c), NEW now \in Clock,
         NEW delta \in [Wheels -> Int]
  PROVE  LET n == Step(c, delta, now)
         IN  /\ n \in Cores /\ Quiet(n) /\ (Bounded(c) => Bounded(n))
             /\ n.state = "ARMED" =>
                  /\ c.state = "ARMED" /\ n.zero_seen = c.zero_seen
                  /\ n.last_command = c.last_command
                  /\ ~TimedOut(c, now)
             /\ n.zero_seen => c.zero_seen
             /\ c.state # "ARMED" => n.state = c.state /\ n.zero_seen = c.zero_seen
<1> DEFINE n == Step(c, delta, now)
<1>1. CASE c.state # "ARMED"
  <2>1. n = [c EXCEPT !.output = AllZero]
    BY <1>1 DEF Step
  <2>2. n \in Cores
    BY <2>1, AllZeroFacts DEF Cores
  <2>3. /\ n.target = c.target /\ n.output = AllZero
        /\ n.integral = c.integral /\ n.stall = c.stall
        /\ n.state = c.state /\ n.zero_seen = c.zero_seen
    BY <2>1 DEF Cores
  <2> QED
    BY <1>1, <2>2, <2>3, ZeroedIsSound DEF Quiet
<1>2. CASE c.state = "ARMED" /\ TimedOut(c, now)
  <2>1. n = Stop(c, "TIMEOUT") /\ "TIMEOUT" \in StopReasons
    BY <1>2 DEF Step, StopReasons
  <2> QED
    BY <1>2, <2>1, StopFacts
<1>3. CASE c.state = "ARMED" /\ ~TimedOut(c, now) /\ Stalled(c, delta)
  <2>1. n = Stop(c, "ENCODER_STALL") /\ "ENCODER_STALL" \in StopReasons
    BY <1>3 DEF Step, StopReasons, FaultReasons
  <2> QED
    BY <1>3, <2>1, StopFacts
<1>4. CASE c.state = "ARMED" /\ ~TimedOut(c, now) /\ ~Stalled(c, delta)
  <2>1. n = [c EXCEPT !.stall = NewStall(c, delta),
                      !.integral = NewIntegral(c, delta),
                      !.output = NewOutput(c, delta)]
    BY <1>4 DEF Step
  <2>2. n \in Cores
    <3>1. /\ NewStall(c, delta) \in [Wheels -> Nat]
          /\ NewIntegral(c, delta) \in [Wheels -> Int]
          /\ NewOutput(c, delta) \in [Wheels -> Int]
      BY ControllerFacts
    <3> QED
      BY <2>1, <3>1 DEF Cores
  <2>3. /\ n.target = c.target /\ n.output = NewOutput(c, delta)
        /\ n.integral = NewIntegral(c, delta) /\ n.stall = NewStall(c, delta)
        /\ n.state = "ARMED" /\ n.zero_seen = c.zero_seen
        /\ n.last_command = c.last_command
    BY <1>4, <2>1 DEF Cores
  <2>4. NewStall(c, delta) \in [Wheels -> Nat] /\ StallSteps \in Nat
    BY ControllerFacts, CoreAssumption
  <2>5. ASSUME NEW w \in Wheels PROVE NewStall(c, delta)[w] < StallSteps
    <3>1. NewStall(c, delta)[w] \in Nat /\ ~(NewStall(c, delta)[w] >= StallSteps)
      BY <1>4, <2>4 DEF Stalled
    <3> QED
      BY <3>1, <2>4
  <2>6. Bounded(c) => Bounded(n)
    BY <2>3, <2>5, ControllerFacts DEF Bounded
  <2> QED
    BY <1>4, <2>2, <2>3, <2>6 DEF Quiet
<1> QED
  BY <1>1, <1>2, <1>3, <1>4

-----------------------------------------------------------------------------
(* The controller knows no preferred direction. *)

Opposite(v) == [w \in Wheels |-> -v[w]]

\* The chassis that does the same the other way round.
Mirrored(c) ==
  [c EXCEPT !.target = Opposite(c.target), !.output = Opposite(c.output),
            !.integral = Opposite(c.integral)]

\* Opposite errors and integrals give opposite outputs.
LEMMA PiOutputOdd ==
  ASSUME NEW c \in Cores, NEW e \in Int, NEW i \in Int
  PROVE  PiOutput(c, -e, -i) = -PiOutput(c, e, i)
<1> DEFINE x == c.kp * e + c.ki * i
<1>1. c.kp \in Nat /\ c.ki \in Nat
  BY DEF Cores
<1>2. x \in Int /\ c.kp * (-e) + c.ki * (-i) = -x
  BY <1>1
<1> HIDE DEF x
<1>3. RoundScaled(x) \in Int /\ RoundScaled(-x) = -RoundScaled(x)
  BY <1>2, RoundScaledType, RoundOdd, CoreAssumption DEF RoundScaled
<1>4. Clamp(RoundScaled(-x), MaxOutput) = -Clamp(RoundScaled(x), MaxOutput)
  BY <1>3, ClampFacts, CoreAssumption
<1> QED
  BY <1>2, <1>4 DEF x, PiOutput

\* The parts of a step, mirrored.
LEMMA MirroredParts ==
  ASSUME NEW c \in Cores, NEW delta \in [Wheels -> Int]
  PROVE  LET m == Mirrored(c)
             n == Opposite(delta)
         IN  /\ NewStall(m, n) = NewStall(c, delta)
             /\ NewIntegral(m, n) = Opposite(NewIntegral(c, delta))
             /\ NewOutput(m, n) = Opposite(NewOutput(c, delta))
<1> DEFINE m == Mirrored(c)
           n == Opposite(delta)
<1>1. /\ m.stall = c.stall /\ m.kp = c.kp /\ m.ki = c.ki
      /\ m.target = Opposite(c.target) /\ m.integral = Opposite(c.integral)
  BY DEF Mirrored, Cores
<1>2. \A w \in Wheels : /\ m.target[w] = -c.target[w] /\ c.target[w] \in Int
                        /\ m.integral[w] = -c.integral[w] /\ c.integral[w] \in Int
                        /\ n[w] = -delta[w] /\ delta[w] \in Int
  BY <1>1 DEF Opposite, Cores
<1> HIDE DEF m, n
<1>3. NewStall(m, n) = NewStall(c, delta)
  BY <1>1, <1>2 DEF NewStall
<1>4. \A w \in Wheels :
        /\ NewIntegral(m, n)[w] = -NewIntegral(c, delta)[w]
        /\ NewIntegral(c, delta)[w] \in Int
  <2> SUFFICES ASSUME NEW w \in Wheels
               PROVE  /\ NewIntegral(m, n)[w] = -NewIntegral(c, delta)[w]
                      /\ NewIntegral(c, delta)[w] \in Int
    OBVIOUS
  <2>1. CASE c.target[w] = 0
    BY <1>2, <2>1 DEF NewIntegral
  <2>2. CASE c.target[w] # 0
    <3> DEFINE s == c.integral[w] + c.target[w] - delta[w]
    <3>1. /\ s \in Int /\ m.integral[w] + m.target[w] - n[w] = -s
          /\ m.target[w] # 0
      BY <1>2, <2>2
    <3>2. /\ NewIntegral(c, delta)[w] = Clamp(s, IntegralLimit)
          /\ NewIntegral(m, n)[w] = Clamp(-s, IntegralLimit)
      BY <2>2, <3>1 DEF NewIntegral
    <3> HIDE DEF s
    <3> QED
      BY <3>1, <3>2, ClampFacts, ClampBound, CoreAssumption
  <2> QED
    BY <2>1, <2>2
<1>5. NewIntegral(m, n) = Opposite(NewIntegral(c, delta))
  BY <1>4 DEF NewIntegral, Opposite
<1>6. ASSUME NEW w \in Wheels
      PROVE  NewOutput(m, n)[w] = -NewOutput(c, delta)[w]
  <2>1. CASE c.target[w] = 0
    BY <1>2, <2>1 DEF NewOutput
  <2>2. CASE c.target[w] # 0
    <3> DEFINE e == c.target[w] - delta[w]
               i == NewIntegral(c, delta)[w]
    <3>1. /\ e \in Int /\ i \in Int /\ m.target[w] - n[w] = -e
          /\ NewIntegral(m, n)[w] = -i /\ m.target[w] # 0
      BY <1>2, <1>4, <2>2
    <3>2. /\ NewOutput(c, delta)[w] = PiOutput(c, e, i)
          /\ NewOutput(m, n)[w] = PiOutput(m, -e, -i)
      BY <2>2, <3>1 DEF NewOutput
    <3> HIDE DEF e, i
    <3>3. PiOutput(m, -e, -i) = PiOutput(c, -e, -i)
      BY <1>1 DEF PiOutput
    <3> QED
      BY <3>1, <3>2, <3>3, PiOutputOdd
  <2> QED
    BY <2>1, <2>2
<1>7. NewOutput(m, n) = Opposite(NewOutput(c, delta))
  BY <1>6 DEF NewOutput, Opposite
<1> QED
  BY <1>3, <1>5, <1>7 DEF m, n

\* A chassis that turns or drives the other way is controlled the same way: the
\* step of the mirrored chassis is the mirrored step, its stops included.
THEOREM ControllerIsSymmetric ==
  ASSUME NEW c \in Cores, NEW delta \in [Wheels -> Int], NEW now \in Clock
  PROVE  Step(Mirrored(c), Opposite(delta), now) = Mirrored(Step(c, delta, now))
<1> DEFINE m == Mirrored(c)
           n == Opposite(delta)
<1>1. /\ m.state = c.state /\ m.last_command = c.last_command
      /\ m.zero_seen = c.zero_seen
  BY DEF Mirrored, Cores
<1>2. Opposite(AllZero) = AllZero
  <2>1. \A k \in Int : k + k = 0 => -k = k
    OBVIOUS
  <2>2. \A w \in Wheels : AllZero[w] \in Int /\ AllZero[w] + AllZero[w] = 0
    BY DEF AllZero
  <2>3. \A w \in Wheels : -AllZero[w] = AllZero[w]
    BY <2>1, <2>2
  <2> QED
    BY <2>3 DEF Opposite, AllZero
<1>3. /\ NewStall(m, n) = NewStall(c, delta)
      /\ NewIntegral(m, n) = Opposite(NewIntegral(c, delta))
      /\ NewOutput(m, n) = Opposite(NewOutput(c, delta))
  BY MirroredParts
<1>4. \A reason : Stop(m, reason) = Mirrored(Stop(c, reason))
  <2>1. ZeroControl(m) = ZeroControl(c)
    BY DEF ZeroControl, Mirrored, Cores
  <2>2. \A reason : Stop(m, reason) = Stop(c, reason)
    BY <1>1, <2>1 DEF Stop
  <2>3. ASSUME NEW reason
        PROVE  Mirrored(Stop(c, reason)) = Stop(c, reason)
    <3> DEFINE s == Stop(c, reason)
    <3>1. s.target = AllZero /\ s.output = AllZero /\ s.integral = AllZero
      BY DEF Stop, ZeroControl, Cores
    <3>2. s = [s EXCEPT !.target = s.target, !.output = s.output,
                        !.integral = s.integral]
      BY DEF Stop, ZeroControl, Cores
    <3> HIDE DEF s
    <3> QED
      BY <1>2, <3>1, <3>2 DEF s, Mirrored
  <2> QED
    BY <2>2, <2>3
<1>5. TimedOut(m, now) <=> TimedOut(c, now)
  BY <1>1 DEF TimedOut
<1>6. Stalled(m, n) <=> Stalled(c, delta)
  BY <1>3 DEF Stalled
<1>7. CASE c.state # "ARMED"
  BY <1>1, <1>2, <1>7 DEF Step, Mirrored, Cores
<1>8. CASE c.state = "ARMED" /\ (TimedOut(c, now) \/ Stalled(c, delta))
  BY <1>1, <1>4, <1>5, <1>6, <1>8 DEF Step
<1>9. CASE c.state = "ARMED" /\ ~TimedOut(c, now) /\ ~Stalled(c, delta)
  <2>1. Step(m, n, now) =
          [m EXCEPT !.stall = NewStall(c, delta),
                    !.integral = Opposite(NewIntegral(c, delta)),
                    !.output = Opposite(NewOutput(c, delta))]
    BY <1>1, <1>3, <1>5, <1>6, <1>9 DEF Step
  <2>2. Step(c, delta, now) =
          [c EXCEPT !.stall = NewStall(c, delta),
                    !.integral = NewIntegral(c, delta),
                    !.output = NewOutput(c, delta)]
    BY <1>9 DEF Step
  <2> QED
    BY <2>1, <2>2 DEF Mirrored, Cores
<1> QED
  BY <1>7, <1>8, <1>9
=============================================================================
