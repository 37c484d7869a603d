------------------------- MODULE OdomPublisherProofs -------------------------
(***************************************************************************)
(* Proofs about OdomPublisher, for every value of its constants.           *)
(*                                                                         *)
(* Stamps go back in two places: when a period that began before an        *)
(* ODOMZERO ends, and when a message is stamped again after a failure.     *)
(* The first is bounded because a period is, which is why the invariant    *)
(* compares everything that was ever visible with the start of the current *)
(* period; the second by the delay between two readings of the clock.      *)
(***************************************************************************)
EXTENDS OdomPublisher, TLAPS

\* A pose is stamped no later than its counts were read, in the same period.
Sound(pose) ==
  /\ pose.sampledAt <= pose.counted /\ pose.counted <= clock
  /\ pose.counted - pose.sampledAt <= MaxPeriod

InPeriod ==
  /\ wokeAt <= clock /\ clock - wokeAt <= MaxPeriod
  /\ phase = "integrate" =>
       wokeAt <= readAt /\ readAt <= clock /\ odom.counted <= readAt

\* A stamp that was visible, against those that are and will be.
Past(at) ==
  /\ at <= clock
  /\ at <= wokeAt + MaxPeriod
  /\ at <= odom.sampledAt + MaxPeriod

InHand ==
  step # "idle" => Sound(snapshot) /\ Past(snapshot.sampledAt)

Aged ==
  step \in {"aged", "publish"} =>
    /\ snapshot.sampledAt <= now /\ now <= clock
    /\ step = "aged" => clock - now <= MaxStall

Stamped ==
  step = "publish" =>
    /\ snapshot.sampledAt <= stamp - offset
    /\ stamp - offset <= snapshot.sampledAt + MaxStall
    /\ stamp > published.stamp

\* What has left, against what may leave next.
Sent ==
  /\ Past(delivered - MaxStall)
  /\ step # "idle" => delivered - MaxStall <= snapshot.sampledAt + MaxPeriod

\* What the books hold, against what is in hand and what comes next.
Booked ==
  /\ published.counted <= odom.counted
  /\ step # "idle" =>
       /\ published.sampledAt < snapshot.sampledAt
       /\ published.counted <= snapshot.counted
       /\ snapshot.counted <= odom.counted

IInv ==
  /\ TypeOK
  /\ InPeriod /\ Sound(odom) /\ InHand /\ Aged /\ Stamped /\ Sent /\ Booked

-----------------------------------------------------------------------------
LEMMA PoseFields ==
  ASSUME TypeOK
  PROVE  /\ odom.sampledAt \in Nat /\ odom.counted \in Nat
         /\ snapshot.sampledAt \in Nat /\ snapshot.counted \in Nat
         /\ published.sampledAt \in Nat /\ published.stamp \in Nat
         /\ published.counted \in Nat
         /\ offset \in Int
BY OdomAssumption DEF TypeOK, Poses

LEMMA PoseIsPose ==
  ASSUME NEW a \in Nat, NEW c \in Nat
  PROVE  [sampledAt |-> a, counted |-> c] \in Poses
BY DEF Poses

\* Every variable keeps its type.
LEMMA TypeInit == Init => TypeOK
<1> SUFFICES ASSUME Init PROVE TypeOK
  OBVIOUS
<1>1. NoPose \in Poses
  BY DEF NoPose, Poses
<1>2. NothingPublished \in [sampledAt : Nat, stamp : Nat, counted : Nat]
  BY DEF NothingPublished
<1>3. live \in BOOLEAN /\ synced \in BOOLEAN
  BY DEF Init
<1> QED
  BY <1>1, <1>2, <1>3 DEF Init, TypeOK

LEMMA TypeStep ==
  ASSUME IInv, [Next]_vars
  PROVE  TypeOK'
<1> USE DEF IInv
<1>0. NoPose \in Poses
  BY DEF NoPose, Poses
<1>1. CASE Tick
  BY <1>1 DEF Tick, TypeOK, control, publisher, books, session, Valid
<1>2. CASE ControlNext
  <2>1. odom' \in Poses
    BY <1>2, PoseIsPose DEF ControlNext, Wake, OdomZero, ReadCounts, ReadFails, Integrate,
       SetOdom, TypeOK
  <2> QED
    BY <1>2, <2>1 DEF ControlNext, Wake, OdomZero, ReadCounts, ReadFails, Integrate,
       TypeOK, publisher, books, session, Valid
<1>3. CASE Copy
  <2>1. Valid(snapshot')
    BY <1>3 DEF Copy, Usable, Valid
  <2> QED
    BY <1>3, <2>1 DEF Copy, TypeOK, control, books, session
<1>4. CASE ReadClock
  BY <1>4 DEF ReadClock, TypeOK, control, books, session, Valid
<1>5. CASE ReadEpoch
  <2>1. CASE step' = "publish"
    <3>1. /\ step = "aged"
          /\ stamp' = StampOfSnapshot(clock + offset)
          /\ stamp' > published.stamp
          /\ UNCHANGED <<snapshot, now>>
      BY <1>5, <2>1 DEF ReadEpoch, Return
    <3>2. StampOfSnapshot(clock + offset) \in Int
      BY PoseFields DEF TypeOK, StampOfSnapshot, Age
    <3>3. stamp' \in Nat
      BY <3>1, <3>2, PoseFields
    <3> QED
      BY <1>5, <2>1, <3>1, <3>3 DEF ReadEpoch, TypeOK, control, books, session, Valid
  <2>2. CASE step' # "publish"
    BY <1>0, <1>5, <2>2 DEF ReadEpoch, Return, TypeOK, control, books, session
  <2> QED
    BY <2>1, <2>2
<1>6. CASE Publish
  <2>1. published' \in [sampledAt : Nat, stamp : Nat, counted : Nat]
    BY <1>6, PoseFields DEF Publish, TypeOK
  <2>2. delivered' \in Int
    BY <1>6, PoseFields DEF Publish, TypeOK
  <2> QED
    BY <1>0, <1>6, <2>1, <2>2 DEF Publish, Return, TypeOK, control, session
<1>7. CASE PublishFails
  <2>1. delivered' \in Int
    BY <1>7, PoseFields DEF PublishFails, TypeOK
  <2> QED
    BY <1>0, <1>7, <2>1 DEF PublishFails, Return, TypeOK, control, session
<1>8. CASE SessionNext
  BY <1>8 DEF SessionNext, BeginSession, EndSession, Synchronise, TypeOK,
              control, publisher, books, Valid
<1>9. CASE UNCHANGED vars
  BY <1>9 DEF vars, TypeOK, control, publisher, books, session, Valid
<1> QED
  BY <1>1, <1>2, <1>3, <1>4, <1>5, <1>6, <1>7, <1>8, <1>9 DEF Next, PublisherNext

-----------------------------------------------------------------------------
(* What the steps do to the clock and to the pose. *)

LEMMA ClockMoves ==
  ASSUME [Next]_vars
  PROVE  clock' \in {clock, clock + 1}
BY DEF Next, ControlNext, PublisherNext, SessionNext, Tick, Wake, OdomZero, ReadCounts,
   ReadFails, Integrate, Copy, ReadClock, ReadEpoch, Publish, PublishFails,
   BeginSession, EndSession, Synchronise, vars

\* A new pose is the one that ODOMZERO or the end of a period makes.
LEMMA PoseMoves ==
  ASSUME [Next]_vars, odom' # odom
  PROVE  /\ OdomZero \/ Integrate
         /\ UNCHANGED <<clock, wokeAt, readAt, publisher, books, session>>
BY DEF Next, ControlNext, PublisherNext, SessionNext, Tick, Wake, OdomZero, ReadCounts,
   ReadFails, Integrate, Copy, ReadClock, ReadEpoch, Publish, PublishFails,
   BeginSession, EndSession, Synchronise, vars, control

LEMMA NewPose ==
  ASSUME IInv, OdomZero \/ Integrate
  PROVE  /\ odom'.sampledAt \in {clock, wokeAt}
         /\ odom'.counted \in Nat
         /\ odom.counted <= odom'.counted
         /\ odom'.sampledAt <= odom'.counted /\ odom'.counted <= clock
         /\ odom'.counted - odom'.sampledAt <= MaxPeriod
<1> USE DEF IInv, TypeOK
<1>1. CASE OdomZero
  <2>1. odom'.sampledAt = clock /\ odom'.counted = clock
    BY <1>1 DEF OdomZero, SetOdom
  <2> QED
    BY <2>1, PoseFields, OdomAssumption DEF Sound
<1>2. CASE Integrate
  <2>1. odom'.sampledAt = wokeAt /\ odom'.counted = readAt /\ phase = "integrate"
    BY <1>2 DEF Integrate, SetOdom
  <2> QED
    BY <2>1, PoseFields, OdomAssumption DEF InPeriod
<1> QED
  BY <1>1, <1>2

LEMMA InPeriodStep ==
  ASSUME IInv, [Next]_vars
  PROVE  InPeriod'
<1> USE DEF IInv, InPeriod, TypeOK
<1>1. CASE Tick
  BY <1>1, PoseFields DEF Tick, control
<1>2. CASE Wake
  BY <1>2, OdomAssumption DEF Wake
<1>3. CASE OdomZero \/ Integrate \/ ReadFails
  BY <1>3 DEF OdomZero, Integrate, ReadFails
<1>4. CASE ReadCounts
  BY <1>4, PoseFields DEF ReadCounts, Sound
<1>5. CASE UNCHANGED <<clock, control>>
  BY <1>5 DEF control
<1> QED
  BY <1>1, <1>2, <1>3, <1>4, <1>5 DEF Next, ControlNext, PublisherNext, SessionNext,
     Copy, ReadClock, ReadEpoch, Publish, PublishFails,
     BeginSession, EndSession, Synchronise, vars

LEMMA SoundStep ==
  ASSUME IInv, [Next]_vars
  PROVE  Sound(odom)'
<1> USE DEF IInv
<1>1. CASE odom' = odom
  BY <1>1, ClockMoves, PoseFields DEF Sound, TypeOK
<1>2. CASE odom' # odom
  BY <1>2, PoseMoves, NewPose DEF Sound
<1> QED
  BY <1>1, <1>2

\* What was visible before a step was visible before the next.
LEMMA PastStays ==
  ASSUME IInv, [Next]_vars, NEW at \in Int, Past(at)
  PROVE  /\ at <= clock'
         /\ at <= wokeAt' + MaxPeriod
         /\ at <= odom'.sampledAt + MaxPeriod
<1> USE DEF IInv, TypeOK, Past
<1>1. clock \in Nat /\ clock' \in {clock, clock + 1} /\ wokeAt \in Nat /\ MaxPeriod \in Nat
  BY ClockMoves, OdomAssumption
<1>2. wokeAt' = wokeAt \/ (wokeAt' = clock)
  BY DEF Next, ControlNext, PublisherNext, SessionNext, Tick, Wake, OdomZero, ReadCounts,
     ReadFails, Integrate, Copy, ReadClock, ReadEpoch, Publish, PublishFails,
     BeginSession, EndSession, Synchronise, vars, control
<1>3. CASE odom' = odom
  BY <1>1, <1>2, <1>3, PoseFields
<1>4. CASE odom' # odom
  <2>1. odom'.sampledAt \in {clock, wokeAt}
    BY <1>4, PoseMoves, NewPose
  <2> QED
    BY <1>1, <1>2, <2>1
<1> QED
  BY <1>3, <1>4

LEMMA InHandStep ==
  ASSUME IInv, [Next]_vars
  PROVE  InHand'
<1> USE DEF IInv
<1>1. CASE Copy
  <2>1. UNCHANGED <<clock, wokeAt, odom>> /\ snapshot' = odom
    BY <1>1 DEF Copy, control
  <2>2. Past(odom.sampledAt)
    BY PoseFields, OdomAssumption DEF Past, Sound, InPeriod, TypeOK
  <2> QED
    BY <2>1, <2>2 DEF InHand, Sound, Past
<1>2. CASE step' = "idle"
  BY <1>2 DEF InHand
<1>3. CASE UNCHANGED snapshot /\ step # "idle"
  <2>1. /\ snapshot.sampledAt <= clock'
        /\ snapshot.sampledAt <= wokeAt' + MaxPeriod
        /\ snapshot.sampledAt <= odom'.sampledAt + MaxPeriod
    BY <1>3, PastStays, PoseFields DEF InHand
  <2>2. snapshot.counted <= clock'
    BY <1>3, ClockMoves, PoseFields DEF InHand, Sound, TypeOK
  <2> QED
    BY <1>3, <2>1, <2>2 DEF InHand, Sound, Past
<1> QED
  BY <1>1, <1>2, <1>3 DEF Next, ControlNext, PublisherNext, SessionNext, Tick, Wake,
     OdomZero, ReadCounts, ReadFails, Integrate, ReadClock, ReadEpoch, Publish,
     PublishFails, Return, BeginSession, EndSession, Synchronise, vars, publisher

LEMMA AgedStep ==
  ASSUME IInv, [Next]_vars
  PROVE  Aged'
<1> USE DEF IInv, Aged, TypeOK
<1>1. CASE Tick
  BY <1>1, PoseFields DEF Tick, publisher
<1>2. CASE ReadClock
  BY <1>2, OdomAssumption DEF ReadClock, InHand, Past
<1>3. CASE Copy \/ ReadEpoch \/ Publish \/ PublishFails
  BY <1>3 DEF Copy, ReadEpoch, Publish, PublishFails, Return
<1>4. CASE UNCHANGED <<clock, publisher>>
  BY <1>4 DEF publisher
<1> QED
  BY <1>1, <1>2, <1>3, <1>4 DEF Next, ControlNext, PublisherNext, SessionNext, Wake,
     OdomZero, ReadCounts, ReadFails, Integrate, BeginSession, EndSession, Synchronise,
     vars

LEMMA StampedStep ==
  ASSUME IInv, [Next]_vars
  PROVE  Stamped'
<1> USE DEF IInv
<1>1. CASE ReadEpoch /\ step' = "publish"
  <2>1. /\ step = "aged"
        /\ stamp' = StampOfSnapshot(clock + offset)
        /\ stamp' > published.stamp
        /\ UNCHANGED <<snapshot, published, offset>>
    BY <1>1 DEF ReadEpoch, Return, books, session
  <2>2. /\ snapshot.sampledAt <= now /\ now <= clock /\ clock - now <= MaxStall
        /\ now \in Nat /\ clock \in Nat
    BY <2>1 DEF Aged, TypeOK
  <2>3. stamp' = (clock + offset) - (now - snapshot.sampledAt)
    BY <2>1, <2>2, PoseFields DEF StampOfSnapshot, Age
  <2> QED
    BY <2>1, <2>2, <2>3, PoseFields, OdomAssumption DEF Stamped
<1>2. CASE step' # "publish"
  BY <1>2 DEF Stamped
<1>3. CASE UNCHANGED <<publisher, published, offset>>
  BY <1>3 DEF Stamped, publisher
<1> QED
  BY <1>1, <1>2, <1>3 DEF Next, ControlNext, PublisherNext, SessionNext, Tick, Wake,
     OdomZero, ReadCounts, ReadFails, Integrate, Copy, ReadClock, Publish, PublishFails,
     Return, BeginSession, EndSession, Synchronise, vars, publisher, books, session

\* What leaves is close to what is in hand.
LEMMA Leaves ==
  ASSUME IInv, Publish \/ PublishFails
  PROVE  /\ step = "publish" /\ step' = "idle"
         /\ UNCHANGED <<clock, wokeAt, odom>>
         /\ delivered' = delivered \/ delivered' = stamp - offset
         /\ (stamp - offset) - MaxStall <= snapshot.sampledAt
         /\ delivered - (MaxPeriod + MaxStall) <= stamp - offset
<1> USE DEF IInv
<1>1. /\ step = "publish" /\ step' = "idle"
      /\ UNCHANGED <<clock, wokeAt, odom>>
      /\ delivered' = delivered \/ delivered' = stamp - offset
  BY DEF Publish, PublishFails, Return, control
<1>2. /\ snapshot.sampledAt <= stamp - offset
      /\ stamp - offset <= snapshot.sampledAt + MaxStall
      /\ delivered - MaxStall <= snapshot.sampledAt + MaxPeriod
  BY <1>1 DEF Stamped, Sent
<1> QED
  BY <1>1, <1>2, PoseFields, OdomAssumption DEF TypeOK

LEMMA SentStep ==
  ASSUME IInv, [Next]_vars
  PROVE  Sent'
<1> USE DEF IInv
<1>1. CASE Publish \/ PublishFails
  <2>1. Past(snapshot.sampledAt)
    BY <1>1, Leaves DEF InHand
  <2>2. Past(stamp - offset - MaxStall) /\ Past(delivered - MaxStall)
    BY <1>1, <2>1, Leaves, PoseFields, OdomAssumption DEF Past, Sent, TypeOK
  <2>3. Past(delivered' - MaxStall)
    BY <1>1, <2>2, Leaves
  <2> QED
    BY <1>1, <2>3, Leaves DEF Sent, Past
<1>2. CASE UNCHANGED delivered
  <2>1. delivered - MaxStall \in Int /\ Past(delivered - MaxStall)
    BY OdomAssumption DEF TypeOK, Sent
  <2>2. /\ delivered - MaxStall <= clock'
        /\ delivered - MaxStall <= wokeAt' + MaxPeriod
        /\ delivered - MaxStall <= odom'.sampledAt + MaxPeriod
    BY <2>1, PastStays
  <2>3. step' # "idle" => delivered - MaxStall <= snapshot'.sampledAt + MaxPeriod
    <3>1. CASE Copy
      BY <2>1, <3>1 DEF Copy, Past
    <3>2. CASE step' = "idle" \/ (UNCHANGED snapshot /\ step # "idle")
      BY <3>2 DEF Sent
    <3> QED
      BY <3>1, <3>2 DEF Next, ControlNext, PublisherNext, SessionNext, Tick, Wake,
         OdomZero, ReadCounts, ReadFails, Integrate, ReadClock, ReadEpoch, Publish,
         PublishFails, Return, BeginSession, EndSession, Synchronise, vars, publisher
  <2> QED
    BY <1>2, <2>2, <2>3 DEF Sent, Past
<1> QED
  BY <1>1, <1>2 DEF Next, ControlNext, PublisherNext, SessionNext, Tick, Wake, OdomZero,
     ReadCounts, ReadFails, Integrate, Copy, ReadClock, ReadEpoch, BeginSession,
     EndSession, Synchronise, vars, books

LEMMA BookedStep ==
  ASSUME IInv, [Next]_vars
  PROVE  Booked'
<1> USE DEF IInv, Booked
<1>1. CASE odom' # odom
  BY <1>1, PoseMoves, NewPose, PoseFields DEF publisher, books, TypeOK
<1>2. CASE Publish
  <2>1. published'.counted = snapshot.counted /\ step = "publish"
    BY <1>2 DEF Publish
  <2> QED
    BY <1>2, <2>1 DEF Publish, Return, control
<1>3. CASE Copy
  BY <1>3, PoseFields DEF Copy, Usable, control, books
<1>4. CASE /\ UNCHANGED <<odom, published>>
           /\ step' = "idle" \/ (UNCHANGED snapshot /\ step # "idle")
  BY <1>4
<1> QED
  BY <1>1, <1>2, <1>3, <1>4 DEF Next, ControlNext, PublisherNext, SessionNext, Tick, Wake,
     OdomZero, ReadCounts, ReadFails, Integrate, ReadClock, ReadEpoch,
     PublishFails, Return, BeginSession, EndSession, Synchronise, vars, control,
     publisher, books

-----------------------------------------------------------------------------
\* The inductive invariant holds in every reachable state.
THEOREM OdomInvariance == Spec => []IInv
<1>1. Init => IInv
  <2> SUFFICES ASSUME Init PROVE IInv
    OBVIOUS
  <2>1. InPeriod /\ Sound(odom) /\ InHand /\ Aged /\ Stamped /\ Booked
    BY OdomAssumption DEF Init, InPeriod, Sound, InHand, Aged, Stamped, Booked, NoPose,
       NothingPublished
  <2>2. Sent
    BY OdomAssumption DEF Init, Sent, Past, NoPose
  <2> QED
    BY TypeInit, <2>1, <2>2 DEF IInv
<1>2. IInv /\ [Next]_vars => IInv'
  BY TypeStep, InPeriodStep, SoundStep, InHandStep, AgedStep, StampedStep, SentStep,
     BookedStep DEF IInv
<1> QED
  BY <1>1, <1>2, PTL DEF Spec

\* Every variable keeps its type, and a pose that was never stamped is never
\* in the publisher's hands.
THEOREM OdomTypeCorrect == Spec => []TypeOK
BY OdomInvariance, PTL DEF IInv

\* The stamp of a message names the moment its counts were read.
THEOREM OdomStampsAreHonest == Spec => []StampIsHonest
<1>1. IInv => StampIsHonest
  <2> SUFFICES ASSUME IInv, step = "publish"
               PROVE  /\ (stamp - offset) - snapshot.counted <= MaxStall
                      /\ snapshot.counted - (stamp - offset) <= MaxPeriod
    BY DEF StampIsHonest
  <2>1. /\ snapshot.sampledAt <= stamp - offset
        /\ stamp - offset <= snapshot.sampledAt + MaxStall
        /\ snapshot.sampledAt <= snapshot.counted
        /\ snapshot.counted - snapshot.sampledAt <= MaxPeriod
    BY DEF IInv, Stamped, InHand, Sound
  <2> QED
    BY <2>1, PoseFields, OdomAssumption DEF IInv, TypeOK
<1> QED
  BY <1>1, OdomInvariance, PTL

\* No recorded message goes back in counts, sample time or stamp.
THEOREM OdomRecordsOnlyGrow == Spec => OnlyNewer
<1>1. IInv /\ [Next]_vars =>
        [published' # published =>
           /\ published'.counted >= published.counted
           /\ published'.sampledAt > published.sampledAt
           /\ published'.stamp > published.stamp]_vars
  <2> SUFFICES ASSUME IInv, [Next]_vars, published' # published
               PROVE  /\ published'.counted >= published.counted
                      /\ published'.sampledAt > published.sampledAt
                      /\ published'.stamp > published.stamp
    OBVIOUS
  <2>1. Publish
    BY DEF Next, ControlNext, PublisherNext, SessionNext, Tick, Wake, OdomZero, ReadCounts,
       ReadFails, Integrate, Copy, ReadClock, ReadEpoch, PublishFails,
       BeginSession, EndSession, Synchronise, vars, books
  <2>2. /\ published'.sampledAt = snapshot.sampledAt
        /\ published'.counted = snapshot.counted
        /\ published'.stamp = stamp
        /\ step = "publish"
    BY <2>1 DEF Publish
  <2>3. /\ published.counted <= snapshot.counted
        /\ published.sampledAt < snapshot.sampledAt
        /\ stamp > published.stamp
    BY <2>2 DEF IInv, Booked, Stamped
  <2> QED
    BY <2>2, <2>3, PoseFields DEF IInv, TypeOK
<1> QED
  BY <1>1, OdomInvariance, PTL DEF Spec, OnlyNewer

\* A recorded message is one that Telemetry allows.
LEMMA PublishIsSend ==
  ASSUME IInv, Publish
  PROVE  Subscriber!Send
<1>1. /\ published'.sampledAt = snapshot.sampledAt
      /\ published'.counted = snapshot.counted
      /\ published'.stamp = stamp
      /\ step = "publish" /\ UNCHANGED <<clock, offset>>
  BY DEF Publish, session
<1>2. /\ snapshot.sampledAt \in Nat /\ snapshot.counted \in Nat
      /\ published.sampledAt \in Nat /\ published.counted \in Nat
      /\ published.stamp \in Nat /\ stamp \in Nat /\ offset \in Int /\ clock \in Nat
  BY PoseFields DEF IInv, TypeOK
<1>3. /\ published.counted <= snapshot.counted /\ snapshot.counted <= clock
      /\ published.sampledAt < snapshot.sampledAt
      /\ stamp > published.stamp
  BY <1>1 DEF IInv, Booked, InHand, Sound, Stamped
<1>4. /\ (stamp - offset) - snapshot.counted <= MaxStall
      /\ snapshot.counted - (stamp - offset) <= MaxPeriod
  <2>1. /\ snapshot.sampledAt <= stamp - offset
        /\ stamp - offset <= snapshot.sampledAt + MaxStall
        /\ snapshot.sampledAt <= snapshot.counted
        /\ snapshot.counted - snapshot.sampledAt <= MaxPeriod
    BY <1>1 DEF IInv, Stamped, InHand, Sound
  <2> QED
    BY <1>2, <2>1, OdomAssumption
<1> QED
  BY <1>1, <1>2, <1>3, <1>4 DEF Subscriber!Send, Subscriber!Claimed

\* The subscriber gets later poses only, under increasing and honest stamps,
\* whatever ODOMZERO and the epoch do.
THEOREM OdomImplementsTelemetry == Spec => TelemetrySpec
<1>1. Init => Subscriber!Init
  BY DEF Init, NothingPublished, Subscriber!Init
<1>2. IInv /\ [Next]_vars => [Subscriber!Next]_Subscriber!telemetryVars
  <2> SUFFICES ASSUME IInv, [Next]_vars
               PROVE  [Subscriber!Next]_Subscriber!telemetryVars
    OBVIOUS
  <2>1. CASE Publish
    BY <2>1, PublishIsSend DEF Subscriber!Next
  <2>2. CASE Tick
    BY <2>2 DEF Tick, books, session, Subscriber!Pass, Subscriber!Next
  <2>3. CASE Synchronise
    <3>1. offset' \in Int /\ UNCHANGED <<clock, published>>
      BY <2>3, PoseFields, OdomAssumption DEF Synchronise, books, IInv
    <3> QED
      BY <3>1 DEF Subscriber!Resync, Subscriber!Next
  <2>4. CASE UNCHANGED <<clock, published, offset>>
    BY <2>4 DEF Subscriber!telemetryVars
  <2> QED
    BY <2>1, <2>2, <2>3, <2>4
    DEF Next, ControlNext, PublisherNext, SessionNext, Wake, OdomZero, ReadCounts,
        ReadFails, Integrate, Copy, ReadClock, ReadEpoch, PublishFails, BeginSession,
        EndSession, vars, books, session
<1> QED
  BY <1>1, <1>2, OdomInvariance, PTL DEF Spec, TelemetrySpec, Subscriber!Spec

\* What leaves the robot is out of order by a bounded amount only.
THEOREM WireOrder == Spec => InOrderOnTheWire
<1>1. IInv /\ [Next]_vars => [delivered' >= delivered - (MaxPeriod + MaxStall)]_vars
  <2> SUFFICES ASSUME IInv, [Next]_vars
               PROVE  delivered' >= delivered - (MaxPeriod + MaxStall)
    OBVIOUS
  <2>1. delivered \in Int /\ stamp \in Nat /\ offset \in Int
    BY PoseFields DEF IInv, TypeOK
  <2>2. CASE Publish \/ PublishFails
    BY <2>1, <2>2, Leaves, OdomAssumption
  <2>3. CASE UNCHANGED delivered
    BY <2>1, <2>3, OdomAssumption
  <2> QED
    BY <2>2, <2>3 DEF Next, ControlNext, PublisherNext, SessionNext, Tick, Wake, OdomZero,
       ReadCounts, ReadFails, Integrate, Copy, ReadClock, ReadEpoch,
       BeginSession, EndSession, Synchronise, vars, books
<1> QED
  BY <1>1, OdomInvariance, PTL DEF Spec, InOrderOnTheWire
=============================================================================
