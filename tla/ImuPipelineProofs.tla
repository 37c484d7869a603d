-------------------------- MODULE ImuPipelineProofs --------------------------
(***************************************************************************)
(* Proofs about ImuPipeline, for every value of its constants.             *)
(*                                                                         *)
(* Each property compares times that different actors read at different    *)
(* moments.  The inductive invariant says at every point between two reads *)
(* how far apart they can be, and that of any two samples in flight the    *)
(* one with the smaller serial is the older one.                           *)
(***************************************************************************)
EXTENDS ImuPipeline, TLAPS

Some(s) == s # NoSample

\* The stamp of a sample and the time its values were taken.
Close(stamped, values) ==
  stamped - values <= ConversionPeriod /\ values - stamped <= MaxRead

Registers == converted <= clock /\ clock - converted <= ConversionPeriod

Reading ==
  /\ task = "read" => sampledAt <= clock /\ clock - sampledAt <= MaxRead
  /\ task = "submit" => sampledAt <= clock /\ Close(sampledAt, taken)

Queued == latest.sampledAt <= clock /\ Close(latest.sampledAt, latest.taken)

InHand ==
  step # "idle" => sample.sampledAt <= clock /\ Close(sample.sampledAt, sample.taken)

Judged ==
  step \in {"classified", "publish"} =>
    /\ Some(sample)
    /\ sample.sampledAt <= now /\ now <= clock
    /\ now - sample.sampledAt <= StaleTimeout
    /\ clock - now <= MaxStall
    /\ ~SameAsPublished

Stamped ==
  step = "publish" =>
    /\ sample.sampledAt <= stamp - offset
    /\ stamp - offset <= sample.sampledAt + MaxStall
    /\ stamp > published.stamp

\* The first argument is no later than the second, and the same sample has
\* the same number.
NotAfter(a, b) ==
  a.serial <= b.serial /\ (a.serial = b.serial => a.sequence = b.sequence)

Ordered ==
  /\ NotAfter(published, latest)
  /\ latest.sequence = sequence
  /\ step # "idle" => NotAfter(published, sample) /\ NotAfter(sample, latest)

IInv ==
  /\ TypeOK
  /\ Registers /\ Reading /\ Queued /\ InHand
  /\ Judged /\ Stamped /\ Ordered

-----------------------------------------------------------------------------
\* The successor of a number is a number other than zero.
LEMMA SuccessorIsNumber ==
  ASSUME NEW n \in Sequences
  PROVE  Successor(n) \in Sequences \ {0}
BY PipelineAssumption DEF Sequences, Successor

\* The fields of what the queue or the callback holds.
LEMMA SampleFields ==
  ASSUME NEW s \in Samples \cup {NoSample}
  PROVE  /\ s.sampledAt \in Nat /\ s.taken \in Nat /\ s.serial \in Nat
         /\ s.sequence \in Sequences
         /\ Some(s) <=> s.serial # 0
         /\ Some(s) <=> s.sequence # 0
         /\ Some(s) => s \in Samples
BY PipelineAssumption DEF Samples, NoSample, Sequences, Some

\* The fields of the books.
LEMMA PublishedFields ==
  ASSUME NEW p \in Published \cup {NothingPublished}
  PROVE  /\ p.stamp \in Nat /\ p.serial \in Nat /\ p.sequence \in Sequences
         /\ p.taken \in Nat
BY PipelineAssumption DEF Published, NothingPublished, Sequences

-----------------------------------------------------------------------------
\* Every variable keeps its type.
LEMMA TypeInit == Init => TypeOK
<1>1. 0 \in Sequences
  BY PipelineAssumption DEF Sequences
<1>2. "argument_invalid" \in States
  BY DEF States
<1>3. Init => ready \in BOOLEAN /\ gap \in BOOLEAN /\ live \in BOOLEAN /\ synced \in BOOLEAN
  BY DEF Init
<1>4. Init => /\ clock \in Nat /\ converted \in Nat /\ sampledAt \in Nat /\ taken \in Nat
              /\ now \in Nat /\ stamp \in Nat
  BY DEF Init
<1> QED
  BY <1>1, <1>2, <1>3, <1>4, Zenon DEF Init, TypeOK

LEMMA TypeStep ==
  ASSUME IInv, [Next]_vars
  PROVE  TypeOK'
<1> USE DEF IInv
<1>1. CASE Tick
  BY <1>1 DEF Tick, TypeOK, sensor, producer, callback, record, session
<1>2. CASE Convert
  BY <1>2 DEF Convert, TypeOK, sensor, producer, callback, record, session
<1>3. CASE DataReady
  BY <1>3 DEF DataReady, TypeOK, sensor, producer, callback, record, session
<1>4. CASE TakeStamp
  BY <1>4 DEF TakeStamp, TypeOK, sensor, producer, callback, record, session
<1>5. CASE ReadData
  BY <1>5 DEF ReadData, TypeOK, sensor, producer, callback, record, session
<1>6. CASE Submit
  <2>1. Successor(sequence) \in Sequences \ {0}
    BY SuccessorIsNumber DEF TypeOK
  <2>2. latest.serial + 1 \in Nat \ {0}
    BY SampleFields DEF TypeOK
  <2>3. latest' \in Samples
    BY <1>6, <2>1, <2>2 DEF Submit, Samples, TypeOK
  <2> QED
    BY <1>6, <2>1, <2>3 DEF Submit, TypeOK, sensor, callback, record, session
<1>7. CASE Peek
  BY <1>7 DEF Peek, TypeOK, sensor, producer, record, session
<1>8. CASE Examine
  <2>1. state' \in States
    BY <1>8 DEF Examine, Classify, States
  <2> QED
    BY <1>8, <2>1 DEF Examine, Return, TypeOK, sensor, producer, record, session
<1>9. CASE TakeEpoch
  <2>1. CASE step' = "publish"
    <3>1. /\ stamp' = StampOfSample(clock + offset)
          /\ StampOfSample(clock + offset) > published.stamp
          /\ UNCHANGED <<sample, now>>
      BY <1>9, <2>1 DEF TakeEpoch, Return
    <3>2. StampOfSample(clock + offset) \in Int /\ published.stamp \in Nat
      BY SampleFields, PublishedFields, PipelineAssumption DEF TypeOK, StampOfSample
    <3>3. stamp' \in Nat
      BY <3>1, <3>2
    <3> QED
      BY <1>9, <2>1, <3>1, <3>3 DEF TakeEpoch, TypeOK, sensor, producer, record, session
  <2>2. CASE step' # "publish"
    BY <1>9, <2>2 DEF TakeEpoch, Return, TypeOK, sensor, producer, record, session
  <2> QED
    BY <2>1, <2>2
<1>10. CASE Publish
  <2>1. Some(sample) /\ stamp > published.stamp
    BY <1>10 DEF Publish, Judged, Stamped
  <2>2. /\ sample.sequence \in Sequences \ {0} /\ sample.serial \in Nat \ {0}
        /\ sample.taken \in Nat
    BY <2>1, SampleFields DEF TypeOK
  <2>3. stamp \in Nat \ {0}
    BY <2>1, PublishedFields DEF TypeOK
  <2>4. published' \in Published
    BY <1>10, <2>2, <2>3 DEF Publish, Published
  <2>5. gap' \in BOOLEAN
    BY <1>10 DEF Publish
  <2> QED
    BY <1>10, <2>4, <2>5 DEF Publish, Return, TypeOK, sensor, producer, session
<1>11. CASE PublishFails
  BY <1>11 DEF PublishFails, Return, TypeOK, sensor, producer, record, session
<1>12. CASE SessionNext
  BY <1>12 DEF SessionNext, BeginSession, EndSession, Synchronise, TypeOK, States,
               sensor, producer, callback, record
<1>13. CASE UNCHANGED vars
  BY <1>13 DEF vars, TypeOK, sensor, producer, callback, record, session
<1> QED
  BY <1>1, <1>2, <1>3, <1>4, <1>5, <1>6, <1>7, <1>8, <1>9, <1>10, <1>11, <1>12,
     <1>13 DEF Next, ProducerNext, CallbackNext

-----------------------------------------------------------------------------
(* The parts of the invariant that the steps preserve one by one. *)

LEMMA RegistersStep ==
  ASSUME IInv, [Next]_vars
  PROVE  Registers'
<1> USE DEF IInv, Registers, TypeOK
<1>1. CASE Tick
  BY <1>1 DEF Tick, sensor
<1>2. CASE Convert
  BY <1>2, PipelineAssumption DEF Convert
<1>3. CASE UNCHANGED <<clock, converted>>
  BY <1>3
<1> QED
  BY <1>1, <1>2, <1>3 DEF Next, ProducerNext, CallbackNext, SessionNext, DataReady,
     TakeStamp, ReadData, Submit, Peek, Examine, TakeEpoch, Publish, PublishFails,
     BeginSession, EndSession, Synchronise, vars, sensor

LEMMA ReadingStep ==
  ASSUME IInv, [Next]_vars
  PROVE  Reading'
<1> USE DEF IInv, Reading, TypeOK, Close
<1>1. CASE Tick
  BY <1>1 DEF Tick, producer
<1>2. CASE TakeStamp
  BY <1>2, PipelineAssumption DEF TakeStamp
<1>3. CASE ReadData
  BY <1>3, PipelineAssumption DEF ReadData, Registers
<1>4. CASE DataReady \/ Submit
  BY <1>4 DEF DataReady, Submit
<1>5. CASE UNCHANGED <<clock, task, sampledAt, taken>>
  BY <1>5
<1> QED
  BY <1>1, <1>2, <1>3, <1>4, <1>5 DEF Next, ProducerNext, CallbackNext, SessionNext,
     Convert, Peek, Examine, TakeEpoch, Publish, PublishFails,
     BeginSession, EndSession, Synchronise, vars, producer

LEMMA QueuedStep ==
  ASSUME IInv, [Next]_vars
  PROVE  Queued'
<1> USE DEF IInv, Queued, TypeOK, Close
<1>1. latest.sampledAt \in Nat /\ latest.taken \in Nat
  BY SampleFields
<1>2. CASE Submit
  BY <1>2 DEF Submit, Reading
<1>3. CASE UNCHANGED latest /\ clock' \in {clock, clock + 1}
  BY <1>1, <1>3
<1> QED
  BY <1>2, <1>3 DEF Next, ProducerNext, CallbackNext, SessionNext, Tick,
     Convert, DataReady, TakeStamp, ReadData, Peek, Examine, TakeEpoch, Publish,
     PublishFails, BeginSession, EndSession, Synchronise, vars, producer

LEMMA InHandStep ==
  ASSUME IInv, [Next]_vars
  PROVE  InHand'
<1> USE DEF IInv, InHand, TypeOK, Close
<1>1. sample.sampledAt \in Nat /\ sample.taken \in Nat
  BY SampleFields
<1>2. CASE Peek
  BY <1>2 DEF Peek, Queued
<1>3. CASE Examine \/ TakeEpoch \/ Publish \/ PublishFails
  BY <1>3 DEF Examine, TakeEpoch, Publish, PublishFails, Return
<1>4. CASE UNCHANGED <<step, sample>> /\ clock' \in {clock, clock + 1}
  BY <1>1, <1>4
<1> QED
  BY <1>2, <1>3, <1>4 DEF Next, ProducerNext, CallbackNext, SessionNext, Tick,
     Convert, DataReady, TakeStamp, ReadData, Submit,
     BeginSession, EndSession, Synchronise, vars, callback

LEMMA JudgedStep ==
  ASSUME IInv, [Next]_vars
  PROVE  Judged'
<1> USE DEF IInv, Judged, TypeOK, SameAsPublished
<1>1. sample.sampledAt \in Nat
  BY SampleFields
<1>2. CASE Tick
  BY <1>1, <1>2 DEF Tick, callback, record
<1>3. CASE Examine
  <2>1. CASE state' = "fresh" /\ ~SameAsPublished /\ synced
    <3>1. /\ Some(sample) /\ clock >= sample.sampledAt
          /\ clock - sample.sampledAt <= StaleTimeout
      BY <1>1, <1>3, <2>1, PipelineAssumption DEF Examine, Classify, TooOld, Some
    <3> QED
      BY <1>3, <2>1, <3>1, PipelineAssumption DEF Examine, record, Some
  <2>2. CASE ~(state' = "fresh" /\ ~SameAsPublished /\ synced)
    BY <1>3, <2>2 DEF Examine, Return
  <2> QED
    BY <2>1, <2>2
<1>4. CASE TakeEpoch
  BY <1>4 DEF TakeEpoch, Return, record, Some
<1>5. CASE Peek \/ Publish \/ PublishFails
  BY <1>5 DEF Peek, Publish, PublishFails, Return
<1>6. CASE UNCHANGED <<clock, step, sample, now, published>>
  BY <1>6 DEF Some
<1> QED
  BY <1>2, <1>3, <1>4, <1>5, <1>6 DEF Next, ProducerNext, CallbackNext, SessionNext,
     Convert, DataReady, TakeStamp, ReadData, Submit,
     BeginSession, EndSession, Synchronise, vars, callback, record

LEMMA StampedStep ==
  ASSUME IInv, [Next]_vars
  PROVE  Stamped'
<1> USE DEF IInv, Stamped
<1>1. CASE TakeEpoch
  <2>1. CASE step' = "publish"
    <3>0. /\ step = "classified"
          /\ stamp' = StampOfSample(clock + offset)
          /\ stamp' > published.stamp
          /\ UNCHANGED <<sample, published, offset>>
      BY <1>1, <2>1 DEF TakeEpoch, Return, record, session
    <3>1. stamp' = (clock + offset) - (now - sample.sampledAt)
      BY <3>0 DEF StampOfSample
    <3>2. /\ sample.sampledAt \in Nat /\ now \in Nat /\ clock \in Nat /\ offset \in Int
          /\ sample.sampledAt <= now /\ now <= clock /\ clock - now <= MaxStall
      BY <3>0, SampleFields, PipelineAssumption DEF TypeOK, Judged
    <3> QED
      BY <3>0, <3>1, <3>2, PipelineAssumption
  <2>2. CASE step' # "publish"
    BY <2>2
  <2> QED
    BY <2>1, <2>2
<1>2. CASE step' # "publish"
  BY <1>2
<1>3. CASE UNCHANGED <<step, sample, stamp, published, offset>>
  BY <1>3
<1> QED
  BY <1>1, <1>2, <1>3 DEF Next, ProducerNext, CallbackNext, SessionNext, Tick, Convert,
     DataReady, TakeStamp, ReadData, Submit, Peek, Examine, Publish, PublishFails,
     Return, BeginSession, EndSession, Synchronise, vars, callback, record, session

LEMMA OrderedStep ==
  ASSUME IInv, [Next]_vars
  PROVE  Ordered'
<1> USE DEF IInv, Ordered, NotAfter
<1>1. latest.serial \in Nat /\ sample.serial \in Nat /\ published.serial \in Nat
  BY SampleFields, PublishedFields DEF TypeOK
<1>2. CASE Submit
  <2>1. latest'.serial = latest.serial + 1 /\ latest'.sequence = sequence'
    BY <1>2 DEF Submit
  <2> QED
    BY <1>1, <1>2, <2>1 DEF Submit, callback, record
<1>3. CASE Peek
  BY <1>1, <1>3 DEF Peek, producer, record
<1>4. CASE Examine \/ TakeEpoch \/ PublishFails
  BY <1>4 DEF Examine, TakeEpoch, PublishFails, Return, producer, record
<1>5. CASE Publish
  <2>1. published'.serial = sample.serial /\ published'.sequence = sample.sequence
    BY <1>5 DEF Publish
  <2> QED
    BY <1>5, <2>1 DEF Publish, Return, producer
<1>6. CASE UNCHANGED <<latest, sequence, step, sample, published>>
  BY <1>6
<1> QED
  BY <1>2, <1>3, <1>4, <1>5, <1>6 DEF Next, ProducerNext, CallbackNext, SessionNext,
     Tick, Convert, DataReady, TakeStamp, ReadData,
     BeginSession, EndSession, Synchronise, vars, producer, callback, record

-----------------------------------------------------------------------------
\* The inductive invariant holds in every reachable state.
THEOREM PipelineInvariance == Spec => []IInv
<1>1. Init => IInv
  <2>1. Init => Registers /\ Reading /\ Queued /\ InHand /\ Judged /\ Stamped
    BY PipelineAssumption DEF Init, Registers, Reading, Queued, InHand, Judged, Stamped,
       Close, NoSample
  <2>2. Init => Ordered
    BY DEF Init, Ordered, NotAfter, NoSample, NothingPublished
  <2> QED
    BY TypeInit, <2>1, <2>2 DEF IInv
<1>2. IInv /\ [Next]_vars => IInv'
  BY TypeStep, RegistersStep, ReadingStep, QueuedStep, InHandStep, JudgedStep,
     StampedStep, OrderedStep DEF IInv
<1> QED
  BY <1>1, <1>2, PTL DEF Spec

\* Every variable of the pipeline keeps its type: no sample in the queue ever
\* has the number zero.
THEOREM PipelineTypeCorrect == Spec => []TypeOK
BY PipelineInvariance, PTL DEF IInv

\* The stamp of a message names the moment its values were taken, for any
\* epoch, timeout and delays.
THEOREM StampsAreHonest == Spec => []StampIsHonest
<1>1. IInv => StampIsHonest
  <2> SUFFICES ASSUME IInv, step = "publish"
               PROVE  /\ (stamp - offset) - sample.taken <= ConversionPeriod + MaxStall
                      /\ sample.taken - (stamp - offset) <= MaxRead
    BY DEF StampIsHonest
  <2>1. /\ sample.sampledAt \in Nat /\ sample.taken \in Nat
        /\ stamp \in Nat /\ offset \in Int
    BY SampleFields, PipelineAssumption DEF IInv, TypeOK
  <2>2. /\ sample.sampledAt <= stamp - offset
        /\ stamp - offset <= sample.sampledAt + MaxStall
        /\ sample.sampledAt - sample.taken <= ConversionPeriod
        /\ sample.taken - sample.sampledAt <= MaxRead
    BY DEF IInv, Stamped, InHand, Close
  <2> QED
    BY <2>1, <2>2, PipelineAssumption
<1> QED
  BY <1>1, PipelineInvariance, PTL

\* No message carries values older than the stale timeout and the delays.
THEOREM PublishedIsFresh == Spec => []FreshWhenPublished
<1>1. IInv => FreshWhenPublished
  <2> SUFFICES ASSUME IInv, step = "publish"
               PROVE  clock - sample.taken <= StaleTimeout + ConversionPeriod + MaxStall
    BY DEF FreshWhenPublished
  <2>1. /\ sample.sampledAt \in Nat /\ sample.taken \in Nat
        /\ clock \in Nat /\ now \in Nat
    BY SampleFields DEF IInv, TypeOK
  <2>2. /\ clock - now <= MaxStall
        /\ now - sample.sampledAt <= StaleTimeout
        /\ sample.sampledAt - sample.taken <= ConversionPeriod
    BY DEF IInv, Judged, InHand, Close
  <2> QED
    BY <2>1, <2>2, PipelineAssumption
<1> QED
  BY <1>1, PipelineInvariance, PTL

\* Each recorded message is of a later sample and has a later stamp, whatever
\* fails, is retried or is synchronised in between.
THEOREM RecordsOnlyGrow == Spec => OnlyNewer
<1>1. IInv /\ [Next]_vars =>
        [published' # published =>
           /\ published'.serial > published.serial
           /\ published'.stamp > published.stamp]_vars
  <2> SUFFICES ASSUME IInv, [Next]_vars, published' # published
               PROVE  /\ published'.serial > published.serial
                      /\ published'.stamp > published.stamp
    OBVIOUS
  <2>1. Publish
    BY DEF Next, ProducerNext, CallbackNext, SessionNext, Tick, Convert, DataReady,
       TakeStamp, ReadData, Submit, Peek, Examine, TakeEpoch, PublishFails,
       BeginSession, EndSession, Synchronise, vars, record
  <2>2. published'.serial = sample.serial /\ published'.stamp = stamp
    BY <2>1 DEF Publish
  <2>3. sample.serial \in Nat /\ published.serial \in Nat
    BY SampleFields, PublishedFields DEF IInv, TypeOK
  <2>4. /\ stamp > published.stamp
        /\ sample.sequence # published.sequence
        /\ published.serial <= sample.serial
        /\ published.serial = sample.serial => published.sequence = sample.sequence
    BY <2>1 DEF Publish, IInv, Stamped, Judged, SameAsPublished, Ordered, NotAfter
  <2> QED
    BY <2>2, <2>3, <2>4
<1> QED
  BY <1>1, PipelineInvariance, PTL DEF Spec, OnlyNewer

-----------------------------------------------------------------------------
(* The promise of Telemetry. *)

\* Values are passed on in the order they were taken in; the same conversion may
\* be read twice.
TakenInOrder ==
  /\ published.taken <= latest.taken /\ latest.taken <= converted
  /\ task = "submit" => latest.taken <= taken /\ taken <= converted
  /\ step # "idle" =>
       published.taken <= sample.taken /\ sample.taken <= latest.taken

\* Each actor passes on what it got from the one before.
LEMMA TakenStep ==
  ASSUME IInv, TakenInOrder, [Next]_vars
  PROVE  TakenInOrder'
<1> USE DEF TakenInOrder
<1>1. /\ latest.taken \in Nat /\ sample.taken \in Nat /\ published.taken \in Nat
      /\ converted \in Nat /\ clock \in Nat /\ taken \in Nat /\ converted <= clock
  BY SampleFields, PublishedFields DEF IInv, TypeOK, Registers
<1>2. CASE Convert
  BY <1>1, <1>2 DEF Convert, producer, callback, record
<1>3. CASE ReadData
  BY <1>1, <1>3 DEF ReadData, sensor, callback, record
<1>4. CASE Submit
  <2>1. latest'.taken = taken
    BY <1>4 DEF Submit
  <2> QED
    BY <1>1, <1>4, <2>1 DEF Submit, sensor, callback, record
<1>5. CASE Peek
  BY <1>1, <1>5 DEF Peek, sensor, producer, record
<1>6. CASE Publish
  <2>1. published'.taken = sample.taken
    BY <1>6 DEF Publish
  <2> QED
    BY <1>1, <1>6, <2>1 DEF Publish, Return, sensor, producer
<1>7. CASE /\ UNCHANGED <<converted, taken, latest, published>>
           /\ task' = task \/ task' # "submit"
           /\ step' = "idle" \/ (UNCHANGED sample /\ step # "idle")
  BY <1>7
<1> QED
  BY <1>2, <1>3, <1>4, <1>5, <1>6, <1>7
  DEF Next, ProducerNext, CallbackNext, SessionNext, Tick, DataReady, TakeStamp,
      Examine, TakeEpoch, PublishFails, Return, BeginSession, EndSession,
      Synchronise, vars, sensor, producer, callback, record

\* A recorded message is one that Telemetry allows.
LEMMA PublishIsSend ==
  ASSUME IInv, TakenInOrder, Publish
  PROVE  Subscriber!Send
<1>1. /\ published'.serial = sample.serial /\ published'.taken = sample.taken
      /\ published'.stamp = stamp
      /\ step = "publish" /\ UNCHANGED <<clock, offset>>
  BY DEF Publish, session
<1>2. /\ sample.serial \in Nat /\ sample.taken \in Nat /\ sample.sampledAt \in Nat
      /\ published.serial \in Nat /\ published.stamp \in Nat /\ latest.taken \in Nat
      /\ stamp \in Nat /\ offset \in Int /\ clock \in Nat /\ converted \in Nat
  BY SampleFields, PublishedFields, PipelineAssumption DEF IInv, TypeOK
<1>3. published.serial < sample.serial
  BY <1>1, <1>2 DEF IInv, Judged, SameAsPublished, Ordered, NotAfter
<1>4. /\ published.taken <= sample.taken
      /\ sample.taken <= clock
  BY <1>1, <1>2 DEF TakenInOrder, IInv, Registers
<1>5. /\ (stamp - offset) - sample.taken <= ConversionPeriod + MaxStall
      /\ sample.taken - (stamp - offset) <= MaxRead
  <2>1. /\ sample.sampledAt <= stamp - offset
        /\ stamp - offset <= sample.sampledAt + MaxStall
        /\ sample.sampledAt - sample.taken <= ConversionPeriod
        /\ sample.taken - sample.sampledAt <= MaxRead
    BY <1>1 DEF IInv, Stamped, InHand, Close
  <2> QED
    BY <1>2, <2>1, PipelineAssumption
<1>6. stamp > published.stamp
  BY <1>1 DEF IInv, Stamped
<1> QED
  BY <1>1, <1>3, <1>4, <1>5, <1>6 DEF Subscriber!Send, Subscriber!Claimed

\* The subscriber gets later samples only, under increasing and honest stamps,
\* for any width of the numbers and any epochs.
THEOREM PipelineImplementsTelemetry == Spec => TelemetrySpec
<1>1. Init => TakenInOrder /\ Subscriber!Init
  BY DEF Init, TakenInOrder, NoSample, NothingPublished, Subscriber!Init
<1>2. IInv /\ TakenInOrder /\ [Next]_vars
        => [Subscriber!Next]_Subscriber!telemetryVars
  <2> SUFFICES ASSUME IInv, TakenInOrder, [Next]_vars
               PROVE  [Subscriber!Next]_Subscriber!telemetryVars
    OBVIOUS
  <2>1. CASE Publish
    BY <2>1, PublishIsSend DEF Subscriber!Next
  <2>2. CASE Tick
    BY <2>2 DEF Tick, record, session, Subscriber!Pass, Subscriber!Next
  <2>3. CASE Synchronise
    <3>1. offset \in Int
      BY PipelineAssumption DEF IInv, TypeOK
    <3>2. offset' \in Int /\ UNCHANGED <<clock, published>>
      BY <2>3, <3>1, PipelineAssumption DEF Synchronise, record
    <3> QED
      BY <3>2 DEF Subscriber!Resync, Subscriber!Next
  <2>4. CASE UNCHANGED <<clock, published, offset>>
    BY <2>4 DEF Subscriber!telemetryVars
  <2> QED
    BY <2>1, <2>2, <2>3, <2>4
    DEF Next, ProducerNext, CallbackNext, SessionNext, Convert, DataReady, TakeStamp,
        ReadData, Submit, Peek, Examine, TakeEpoch, PublishFails, BeginSession,
        EndSession, vars, record, session
<1>3. IInv /\ TakenInOrder /\ [Next]_vars => TakenInOrder'
  BY TakenStep
<1> QED
  BY <1>1, <1>2, <1>3, PipelineInvariance, PTL
  DEF Spec, TelemetrySpec, Subscriber!Spec

-----------------------------------------------------------------------------
(* Numbers and serials.  The numbers go round without zero, so that a      *)
(* serial is the number and as many full rounds as there were wraps.       *)

Round == SequenceMod - 1

Wrapped(s) == \E k \in Nat : s.serial = k * Round + s.sequence

AllWrapped == Wrapped(latest) /\ Wrapped(sample) /\ Wrapped(published)

\* Rounds are the multiples of a number that is at least two.
LEMMA RoundFacts ==
  /\ Round \in Nat /\ Round >= 2
  /\ \A k \in Nat : k * Round \in Nat /\ (k + 1) * Round = k * Round + Round
  /\ \A j, k \in Nat : k > j => k * Round >= (j + 1) * Round
<1>1. Round \in Nat /\ Round >= 2
  BY PipelineAssumption DEF Round
<1>2. ASSUME NEW k \in Nat
      PROVE  k * Round \in Nat /\ (k + 1) * Round = k * Round + Round
  <2> DEFINE R == Round
  <2>1. R \in Nat
    BY <1>1
  <2> HIDE DEF R
  <2>2. k * R \in Nat /\ (k + 1) * R = k * R + R
    BY <2>1
  <2> QED
    BY <2>2 DEF R
<1>3. ASSUME NEW j \in Nat, NEW k \in Nat, k > j
      PROVE  k * Round >= (j + 1) * Round
  <2> DEFINE R == Round
             d == k - (j + 1)
  <2>1. R \in Nat
    BY <1>1
  <2>2. d \in Nat /\ k = j + 1 + d
    BY <1>3
  <2> HIDE DEF R, d
  <2>3. k * R = (j + 1) * R + d * R /\ d * R \in Nat /\ (j + 1) * R \in Nat
    BY <2>1, <2>2
  <2>4. k * R >= (j + 1) * R
    BY <2>3
  <2> QED
    BY <2>4 DEF R
<1> QED
  BY <1>1, <1>2, <1>3

\* The next number belongs to the next serial.
LEMMA NextNumberWraps ==
  ASSUME NEW k \in Nat, NEW n \in Sequences
  PROVE  \E m \in Nat : k * Round + n + 1 = m * Round + Successor(n)
<1>1. k * Round \in Nat /\ (k + 1) * Round = k * Round + Round /\ n \in Nat
  BY RoundFacts, PipelineAssumption DEF Sequences
<1>2. CASE n + 1 = SequenceMod
  <2>1. k * Round + n + 1 = (k + 1) * Round + Successor(n)
    BY <1>1, <1>2, PipelineAssumption DEF Successor, Round
  <2> QED
    BY <2>1
<1>3. CASE n + 1 # SequenceMod
  BY <1>1, <1>3 DEF Successor
<1> QED
  BY <1>2, <1>3

\* Of two serials less than a round apart, the later one has the expected
\* number exactly if it is the next one.
LEMMA ExpectedIsNext ==
  ASSUME NEW a \in Sequences \ {0}, NEW b \in Sequences \ {0},
         NEW j \in Nat, NEW k \in Nat,
         NEW s \in Nat, NEW t \in Nat,
         s = j * Round + a, t = k * Round + b,
         s < t, t - s < Round
  PROVE  b = Expected(a) <=> t = s + 1
<1>1. /\ a \in 1 .. Round /\ b \in 1 .. Round
      /\ Expected(a) = IF a = Round THEN 1 ELSE a + 1
  BY PipelineAssumption DEF Sequences, Round, Expected
<1>2. /\ Round \in Nat /\ j * Round \in Nat /\ k * Round \in Nat
      /\ (j + 1) * Round = j * Round + Round
      /\ (j + 1 + 1) * Round = j * Round + Round + Round
  BY RoundFacts
<1>3. CASE k = j
  BY <1>1, <1>2, <1>3
<1>4. CASE k = j + 1
  BY <1>1, <1>2, <1>4
<1>5. CASE k > j + 1
  <2>1. k * Round >= (j + 1 + 1) * Round
    BY <1>5, RoundFacts
  <2> QED
    BY <1>1, <1>2, <2>1
<1>6. CASE k < j
  <2>1. j * Round >= (k + 1) * Round /\ (k + 1) * Round = k * Round + Round
    BY <1>6, RoundFacts
  <2> QED
    BY <1>1, <1>2, <2>1
<1> QED
  BY <1>3, <1>4, <1>5, <1>6

\* Initially nothing has been counted.
LEMMA WrappedInit == Init => AllWrapped
<1>1. 0 = 0 * Round + 0
  BY RoundFacts
<1> QED
  BY <1>1 DEF Init, AllWrapped, Wrapped, NoSample, NothingPublished

\* A submission takes the next number; every other step passes samples on.
LEMMA WrappedStep ==
  ASSUME IInv, AllWrapped, [Next]_vars
  PROVE  AllWrapped'
<1>1. 0 = 0 * Round + 0
  BY RoundFacts
<1>2. CASE Submit
  <2>1. PICK k \in Nat : latest.serial = k * Round + latest.sequence
    BY DEF AllWrapped, Wrapped
  <2>2. latest.sequence = sequence /\ sequence \in Sequences
    BY DEF IInv, Ordered, TypeOK
  <2>3. latest'.serial = latest.serial + 1 /\ latest'.sequence = Successor(sequence)
    BY <1>2 DEF Submit
  <2>4. PICK m \in Nat : k * Round + sequence + 1 = m * Round + Successor(sequence)
    BY <2>2, NextNumberWraps
  <2>5. Wrapped(latest)'
    BY <2>1, <2>2, <2>3, <2>4 DEF Wrapped, Round
  <2> QED
    BY <1>2, <2>5 DEF Submit, AllWrapped, Wrapped, Round, callback, record
<1>3. CASE Peek
  BY <1>3 DEF Peek, AllWrapped, Wrapped, Round, producer, record
<1>4. CASE Examine \/ TakeEpoch \/ PublishFails
  <2>1. UNCHANGED <<latest, published>> /\ sample' \in {sample, NoSample}
    BY <1>4 DEF Examine, TakeEpoch, PublishFails, Return, producer, record
  <2> QED
    BY <1>1, <2>1 DEF AllWrapped, Wrapped, Round, NoSample
<1>5. CASE Publish
  <2>1. /\ published'.serial = sample.serial /\ published'.sequence = sample.sequence
        /\ sample' = NoSample /\ latest' = latest
    BY <1>5 DEF Publish, Return, producer
  <2> QED
    BY <1>1, <2>1 DEF AllWrapped, Wrapped, Round, NoSample
<1>6. CASE UNCHANGED <<latest, sample, published>>
  BY <1>6 DEF AllWrapped, Wrapped, Round
<1> QED
  BY <1>2, <1>3, <1>4, <1>5, <1>6 DEF Next, ProducerNext, CallbackNext, SessionNext,
     Tick, Convert, DataReady, TakeStamp, ReadData,
     BeginSession, EndSession, Synchronise, vars, producer, callback, record

\* A coalescing event is counted exactly when samples were skipped, for any
\* width of the numbers and any number of wraps between two publications, as
\* long as less than a round was skipped.
THEOREM GapsAreCounted == Spec => GapsAreSeen
<1>1. IInv /\ AllWrapped /\ [Next]_vars =>
        [published' # published /\ published.serial > 0
           /\ published'.serial - published.serial < SequenceMod - 1
         => gap' = (published'.serial # published.serial + 1)]_vars
  <2> SUFFICES ASSUME IInv, AllWrapped, [Next]_vars, published' # published,
                      published.serial > 0,
                      published'.serial - published.serial < SequenceMod - 1
               PROVE  gap' = (published'.serial # published.serial + 1)
    OBVIOUS
  <2>1. Publish
    BY DEF Next, ProducerNext, CallbackNext, SessionNext, Tick, Convert, DataReady,
       TakeStamp, ReadData, Submit, Peek, Examine, TakeEpoch, PublishFails,
       BeginSession, EndSession, Synchronise, vars, record
  <2>2. /\ published'.serial = sample.serial /\ published # NothingPublished
        /\ gap' = (sample.sequence # Expected(published.sequence))
    <3>1. published'.serial = sample.serial
      BY <2>1 DEF Publish
    <3>2. published # NothingPublished
      BY DEF NothingPublished
    <3>3. gap' = (/\ published # NothingPublished
                  /\ sample.sequence # Expected(published.sequence))
      BY <2>1, Zenon DEF Publish
    <3>4. gap' = (sample.sequence # Expected(published.sequence))
      BY <3>2, <3>3, Zenon
    <3> QED
      BY <3>1, <3>2, <3>4
  <2>3. /\ sample.serial \in Nat /\ published.serial \in Nat
        /\ Some(sample) /\ sample.sequence \in Sequences \ {0}
        /\ published.sequence \in Sequences \ {0}
    BY <2>1, <2>2, SampleFields, PublishedFields
    DEF Publish, IInv, TypeOK, Judged, Published, Samples
  <2>4. /\ sample.sequence # published.sequence
        /\ published.serial <= sample.serial
        /\ published.serial = sample.serial => published.sequence = sample.sequence
    BY <2>1 DEF Publish, IInv, Judged, SameAsPublished, Ordered, NotAfter
  <2>5. PICK j \in Nat : published.serial = j * Round + published.sequence
    BY DEF AllWrapped, Wrapped
  <2>6. PICK k \in Nat : sample.serial = k * Round + sample.sequence
    BY DEF AllWrapped, Wrapped
  <2>7. published.serial < sample.serial /\ sample.serial - published.serial < Round
    BY <2>2, <2>3, <2>4 DEF Round
  <2>8. sample.sequence = Expected(published.sequence)
          <=> sample.serial = published.serial + 1
    BY <2>3, <2>5, <2>6, <2>7, ExpectedIsNext
  <2> QED
    BY <2>2, <2>8
<1>2. IInv /\ AllWrapped /\ [Next]_vars => AllWrapped'
  BY WrappedStep
<1> QED
  BY <1>1, <1>2, WrappedInit, PipelineInvariance, PTL DEF Spec, GapsAreSeen
=============================================================================
