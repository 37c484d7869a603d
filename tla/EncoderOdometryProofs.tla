------------------------- MODULE EncoderOdometryProofs -------------------------
(***************************************************************************)
(* Proofs about the encoder odometry, for any number of wheels and any     *)
(* counter range that is more than twice what a wheel moves between two    *)
(* reads.                                                                  *)
(***************************************************************************)
EXTENDS EncoderOdometry, TLAPS

-----------------------------------------------------------------------------
(* The counters. *)

\* A counter is where it was read plus what the wheel has moved since, or has
\* restarted once on the way; then it was read near the limit it restarted at.
Linked(c, l, u) ==
  \/ c = l + u
  \/ c = l + u - Limit /\ l >= Limit - MaxMove
  \/ c = l + u + Limit /\ l <= MaxMove - Limit

\* robot_chassis_safe_count_delta gives back the movement, its sign included.
LEMMA DeltaExact ==
  ASSUME NEW c \in Counts, NEW l \in Counts, NEW u \in -MaxMove .. MaxMove,
         Linked(c, l, u)
  PROVE  SafeDelta(c, l) = u
  BY OdometryAssumption DEF Counts, Linked, SafeDelta, Nearer, Magnitude

\* One more pulse keeps the link: there is no room for a second restart.
LEMMA PulseKeepsLink ==
  ASSUME NEW c \in Counts, NEW l \in Counts, NEW u \in -MaxMove .. MaxMove,
         NEW s \in {-1, 1}, Linked(c, l, u), u + s \in -MaxMove .. MaxMove
  PROVE  Advance(c, s) \in Counts /\ Linked(Advance(c, s), l, u + s)
  BY OdometryAssumption DEF Counts, Linked, Advance, Magnitude

\* A counter that has just been read is linked to what was read.
LEMMA ReadLinks ==
  ASSUME NEW c \in Counts
  PROVE  Linked(c, c, 0)
  BY DEF Counts, Linked

-----------------------------------------------------------------------------
(* The inductive invariant. *)

\* While the task reads, a wheel has a delta, of one read, or none yet.
DeltaOK ==
  phase = "read" =>
    \A w \in Wheels : /\ delta[w] \in -MaxMove .. MaxMove
                      /\ w >= next => delta[w] = 0

\* What the odometry of a wheel will be short of once this period is over.
Short(w) ==
  travelled[w] - odom[w] - (IF phase = "read" THEN delta[w] ELSE 0)

ShortOK ==
  /\ failures = 0 => \A w \in Wheels : Short(w) = 0
  /\ Short(WheelCount - 1) = 0
  /\ \A w \in Wheels : Magnitude(Short(w)) <= failures * MaxMove

IndInv ==
  /\ TypeOK /\ DeltaOK /\ ShortOK
  /\ \A w \in Wheels : Linked(counter[w], last[w], unread[w])

\* The last wheel is a wheel, and zero is a count and a movement.
LEMMA Basics ==
  /\ WheelCount \in Nat /\ WheelCount - 1 \in Wheels
  /\ \A w \in Wheels : w \in Nat /\ w < WheelCount
  /\ MaxMove \in Nat /\ MaxFailures \in Nat
  /\ 0 \in Counts /\ 0 \in -MaxMove .. MaxMove
  BY OdometryAssumption DEF Wheels, Counts

\* The task starts with cleared counters and nothing travelled.
LEMMA InitEstablishes == Init => IndInv
<1> SUFFICES ASSUME Init PROVE IndInv
  OBVIOUS
<1>1. \A w \in Wheels : AllZero[w] = 0
  BY DEF AllZero
<1>2. AllZero \in [Wheels -> Counts] /\ AllZero \in [Wheels -> Int]
      /\ AllZero \in [Wheels -> -MaxMove .. MaxMove]
  BY Basics DEF AllZero
<1>3. TypeOK
  BY <1>2, Basics DEF Init, TypeOK
<1>4. \A w \in Wheels : Short(w) = 0
  BY <1>1 DEF Init, Short
<1>5. ShortOK
  BY <1>4, Basics DEF Init, ShortOK, Magnitude
<1>6. \A w \in Wheels : Linked(counter[w], last[w], unread[w])
  BY <1>1, Basics, ReadLinks DEF Init
<1> QED
  BY <1>3, <1>5, <1>6 DEF Init, IndInv, DeltaOK

-----------------------------------------------------------------------------
(* Consecution. *)

\* A pulse keeps the wheel's counter linked, and touches nothing else.
LEMMA PulseKeeps ==
  ASSUME IndInv, NEW w \in Wheels, Pulse(w)
  PROVE  IndInv'
<1>1. PICK s \in {-1, 1} :
        /\ Magnitude(unread[w] + s) <= MaxMove
        /\ counter' = [counter EXCEPT ![w] = Advance(@, s)]
        /\ unread' = [unread EXCEPT ![w] = @ + s]
  BY DEF Pulse
<1>2. UNCHANGED <<last, delta, next, phase, odom, failures, travelled>>
  BY DEF Pulse, task
<1>3. TypeOK /\ Linked(counter[w], last[w], unread[w])
  BY DEF IndInv
<1>4. unread[w] + s \in -MaxMove .. MaxMove
  BY <1>1, <1>3, Basics DEF TypeOK, Magnitude
<1>5. /\ Advance(counter[w], s) \in Counts
      /\ Linked(Advance(counter[w], s), last[w], unread[w] + s)
  BY <1>3, <1>4, PulseKeepsLink DEF TypeOK
<1>6. TypeOK'
  BY <1>1, <1>2, <1>3, <1>4, <1>5 DEF TypeOK
<1>7. \A v \in Wheels : Linked(counter[v], last[v], unread[v])'
  BY <1>1, <1>2, <1>3, <1>5 DEF IndInv, TypeOK
<1>8. DeltaOK' /\ ShortOK'
  BY <1>2 DEF IndInv, DeltaOK, ShortOK, Short
<1> QED
  BY <1>6, <1>7, <1>8 DEF IndInv

\* A read finds the wheel's exact movement, and starts its link afresh.
LEMMA ReadKeeps ==
  ASSUME IndInv, Read
  PROVE  IndInv'
<1> DEFINE w == next
<1>1. TypeOK /\ DeltaOK /\ ShortOK
  BY DEF IndInv
<1>2. w \in Wheels /\ phase = "read" /\ next' = next + 1
  BY <1>1, Basics DEF Read, TypeOK, Wheels
<1>3. SafeDelta(counter[w], last[w]) = unread[w]
  BY <1>1, <1>2, DeltaExact DEF IndInv, TypeOK
<1>4. /\ delta' = [delta EXCEPT ![w] = unread[w]]
      /\ last' = [last EXCEPT ![w] = counter[w]]
      /\ travelled' = [travelled EXCEPT ![w] = @ + unread[w]]
      /\ unread' = [unread EXCEPT ![w] = 0]
      /\ UNCHANGED <<counter, phase, odom, failures>>
  BY <1>3 DEF Read, Remember
<1>5. TypeOK'
  BY <1>1, <1>2, <1>4, Basics DEF TypeOK, Wheels
<1>6. \A v \in Wheels : Linked(counter[v], last[v], unread[v])'
  BY <1>1, <1>2, <1>4, ReadLinks DEF IndInv, TypeOK
<1>7. DeltaOK'
  BY <1>1, <1>2, <1>4, Basics DEF TypeOK, DeltaOK
<1>8. delta[w] = 0
  BY <1>1, <1>2, Basics DEF DeltaOK
<1>9. \A v \in Wheels : Short(v)' = Short(v)
  BY <1>1, <1>2, <1>4, <1>8, Basics DEF TypeOK, Short
<1>10. ShortOK'
  BY <1>1, <1>4, <1>9, Basics DEF ShortOK
<1> QED
  BY <1>5, <1>6, <1>7, <1>10 DEF IndInv

\* A failed read gives up the deltas it has, none of them of the last wheel.
LEMMA ReadFailsKeeps ==
  ASSUME IndInv, ReadFails
  PROVE  IndInv'
<1>1. TypeOK /\ DeltaOK /\ ShortOK
  BY DEF IndInv
<1>2. /\ phase = "read" /\ phase' = "sleep"
      /\ next < WheelCount
      /\ failures < MaxFailures /\ failures' = failures + 1
      /\ UNCHANGED <<counter, last, delta, next, odom, unread, travelled>>
  BY DEF ReadFails
<1>3. TypeOK'
  BY <1>1, <1>2, Basics DEF TypeOK
<1>4. \A w \in Wheels : /\ Short(w) \in Int /\ delta[w] \in -MaxMove .. MaxMove
                        /\ Short(w)' = Short(w) + delta[w]
  BY <1>1, <1>2 DEF TypeOK, DeltaOK, Short
<1>5. delta[WheelCount - 1] = 0
  BY <1>1, <1>2, Basics DEF TypeOK, DeltaOK
<1>6. ShortOK'
  <2>1. failures' # 0
    BY <1>1, <1>2, Basics DEF TypeOK
  <2>2. Short(WheelCount - 1)' = 0
    BY <1>1, <1>2, <1>4, <1>5, Basics DEF ShortOK
  <2>3. failures' * MaxMove = failures * MaxMove + MaxMove
        /\ failures * MaxMove \in Nat
    BY <1>1, <1>2, Basics DEF TypeOK
  <2>4. \A w \in Wheels : Magnitude(Short(w)') <= failures' * MaxMove
    BY <1>1, <1>4, <2>3, Basics DEF ShortOK, Magnitude
  <2> QED
    BY <1>2, <2>1, <2>2, <2>4 DEF ShortOK
<1> QED
  BY <1>2, <1>3, <1>6 DEF IndInv, DeltaOK

\* The other steps of the task: the deltas go into the odometry, or both and
\* the movement start again from zero.
LEMMA TaskKeeps ==
  ASSUME IndInv, Wake \/ OdomZero \/ ConsoleDone \/ Update
  PROVE  IndInv'
<1>1. TypeOK /\ DeltaOK /\ ShortOK
  BY DEF IndInv
<1>2. UNCHANGED <<counter, last, unread>>
  BY DEF Wake, OdomZero, ConsoleDone, Update
<1>3. AllZero \in [Wheels -> Int] /\ \A w \in Wheels : AllZero[w] = 0
  BY DEF AllZero
<1>4. TypeOK'
  <2>1. CASE Update
    <3>1. odom' \in [Wheels -> Int]
      BY <1>1, <2>1 DEF Update, Accumulate, TypeOK
    <3> QED
      BY <1>1, <1>2, <2>1, <3>1 DEF Update, TypeOK
  <2>2. CASE Wake \/ OdomZero \/ ConsoleDone
    BY <1>1, <1>2, <1>3, <2>2, Basics DEF Wake, OdomZero, ConsoleDone, TypeOK
  <2> QED
    BY <2>1, <2>2
<1>5. DeltaOK'
  BY <1>3, Basics DEF Wake, OdomZero, ConsoleDone, Update, DeltaOK
<1>6. ShortOK'
  <2>1. CASE OdomZero
    <3>1. \A w \in Wheels : Short(w)' = 0
      BY <1>3, <2>1 DEF OdomZero, Short
    <3>2. failures' = 0
      BY <2>1 DEF OdomZero
    <3> QED
      BY <3>1, <3>2, Basics DEF ShortOK, Magnitude
  <2>2. CASE Wake \/ ConsoleDone \/ Update
    <3>1. \A w \in Wheels : Short(w)' = Short(w)
      BY <1>1, <1>3, <2>2
      DEF Wake, ConsoleDone, Update, Accumulate, TypeOK, Short
    <3>2. failures' = failures
      BY <2>2 DEF Wake, ConsoleDone, Update
    <3> QED
      BY <1>1, <3>1, <3>2, Basics DEF ShortOK
  <2> QED
    BY <2>1, <2>2
<1> QED
  BY <1>2, <1>4, <1>5, <1>6 DEF IndInv

\* Every step keeps the invariant.
LEMMA NextKeeps == IndInv /\ [Next]_vars => IndInv'
<1> SUFFICES ASSUME IndInv, [Next]_vars PROVE IndInv'
  OBVIOUS
<1>1. CASE \E w \in Wheels : Pulse(w)
  BY <1>1, PulseKeeps
<1>2. CASE TaskNext
  BY <1>2, ReadKeeps, ReadFailsKeeps, TaskKeeps DEF TaskNext
<1>3. CASE UNCHANGED vars
  BY <1>3 DEF vars, task, IndInv, TypeOK, DeltaOK, ShortOK, Short
<1> QED
  BY <1>1, <1>2, <1>3 DEF Next

-----------------------------------------------------------------------------
(* Theorems. *)

\* The inductive invariant of the odometry.
THEOREM OdometryInvariance == Spec => []IndInv
  BY InitEstablishes, NextKeeps, PTL DEF Spec

\* The odometry is the exact movement of every wheel when no read has failed,
\* and of the wheel read last in any case, across any number of restarts of the
\* counters.
THEOREM OdometryExact == Spec => []OdomExact
<1>1. IndInv => OdomExact
  <2> SUFFICES ASSUME IndInv, phase # "read", NEW w \in Wheels,
                      failures = 0 \/ w = WheelCount - 1
               PROVE  odom[w] = travelled[w]
    BY DEF OdomExact
  <2>1. odom[w] \in Int /\ travelled[w] \in Int /\ Short(w) = 0
    BY Basics DEF IndInv, TypeOK, ShortOK
  <2> QED
    BY <2>1 DEF Short
<1> QED
  BY <1>1, OdometryInvariance, PTL

\* Whatever reads fail, no wheel is off by more than the movement of one period
\* for each failure.
THEOREM FailuresCostLittle == Spec => []DriftBounded
<1>1. IndInv => DriftBounded
  <2> SUFFICES ASSUME IndInv, phase # "read", NEW w \in Wheels
               PROVE  Magnitude(travelled[w] - odom[w]) <= failures * MaxMove
    BY DEF DriftBounded
  <2>1. /\ odom[w] \in Int /\ travelled[w] \in Int
        /\ Short(w) = travelled[w] - odom[w]
    BY DEF IndInv, TypeOK, Short
  <2> QED
    BY <2>1, Basics DEF IndInv, ShortOK
<1> QED
  BY <1>1, OdometryInvariance, PTL
=============================================================================
