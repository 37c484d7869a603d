--------------------------- MODULE RobotDriveProofs ---------------------------
(***************************************************************************)
(* Proofs about the dry-run drive backend, for any number of callers that  *)
(* interleave in any way, any timeout and any period.                      *)
(***************************************************************************)
EXTENDS RobotDrive, TLAPS

-----------------------------------------------------------------------------
(* The inductive invariant. *)

\* Every time that was ever taken is in the past: a call takes it from the
\* clock, and it is only passed on from there.
Past ==
  /\ \A c \in Callers : call[c] # NoCall => call[c].received <= clock
  /\ event # NoEvent => event.received <= clock
  /\ active.received <= clock

\* The snapshot is at most one period old.
Paced == snapshot.evaluated <= clock /\ clock <= snapshot.evaluated + MaxPeriod

\* What the snapshot shows was within its timeout when it was evaluated.
ShownFresh ==
  ~snapshot.stopped =>
    /\ snapshot.received <= snapshot.evaluated
    /\ snapshot.evaluated <= snapshot.received + Timeout

\* The active command is an event that activates.
HeldOK == hasActive => active \in Events /\ Activates(active.request)

IndInv ==
  /\ TypeOK /\ Past /\ Paced /\ ShownFresh /\ HeldOK
  /\ NoFutureCommand /\ MotionHasNumber /\ OnlyCommandsMove

-----------------------------------------------------------------------------
(* Numbers and verdicts. *)

\* A number taken from the counter is never zero.
LEMMA SuccessorFacts ==
  ASSUME NEW n \in Sequences
  PROVE  Successor(n) \in Sequences \ {0}
  BY DriveAssumption DEF Successor, Sequences

\* A verdict is a reason; NONE means fresh and not overflowing, and CORE_ERROR
\* for an event of the past means overflowing.
LEMMA VerdictFacts ==
  ASSUME NEW e \in Events, NEW t \in Nat
  PROVE  /\ Verdict(e, t) \in Reasons
         /\ Verdict(e, t) = "NONE" =>
              /\ e.received <= t /\ t <= e.received + Timeout
              /\ e.request # "overflowing"
         /\ Verdict(e, t) = "CORE_ERROR" /\ e.received <= t
              => e.request = "overflowing"
<1>1. e.received \in Nat /\ Timeout \in Nat
  BY DriveAssumption DEF Events
<1> QED
  BY <1>1 DEF Verdict, Reasons

\* What a request makes the task hold.
LEMMA ReasonOfFacts ==
  ASSUME NEW e \in Events
  PROVE  /\ Activates(e.request) \in BOOLEAN
         /\ ReasonOf(e.request) \in Reasons /\ ReasonOf(e.request) # "CORE_ERROR"
  BY DEF Activates, ReasonOf, Reasons, Stops, Commands, Requests, Events

\* The placeholders are told apart from the records they stand in for.
LEMMA Placeholders ==
  /\ NoCall \notin Calls /\ NoEvent \notin Events
  /\ ZeroEvent.received = 0 /\ ZeroEvent.request = "command"
  BY DEF NoCall, Calls, NoEvent, Events, ZeroEvent, Requests, Commands, Stops

-----------------------------------------------------------------------------
(* Initiation and consecution. *)

\* robot_drive_start leaves a state of the invariant.
LEMMA InitEstablishes == Init => IndInv
<1> SUFFICES ASSUME Init PROVE IndInv
  OBVIOUS
<1>1. 0 \in Sequences /\ MaxCalls \in Nat /\ MaxPeriod \in Nat
  BY DriveAssumption DEF Sequences
<1>2. TypeOK
  <2>1. call \in [Callers -> Calls \cup {NoCall}]
    BY DEF Init
  <2>2. snapshot \in Snapshots
    BY <1>1 DEF Init, Snapshots, Reasons
  <2>3. clock \in Nat /\ nextSequence \in Sequences /\ calls \in 0 .. MaxCalls
    BY <1>1 DEF Init
  <2>4. /\ event \in Events \cup {NoEvent} /\ task \in {"receive", "evaluate"}
        /\ active \in Events \cup {ZeroEvent}
        /\ hasActive \in BOOLEAN /\ stopReason \in Reasons
    BY DEF Init, Reasons
  <2> QED
    BY <2>1, <2>2, <2>3, <2>4 DEF TypeOK
<1>3. Past
  <2>1. clock = 0 /\ event = NoEvent /\ active.received = 0
    BY Placeholders DEF Init
  <2>2. \A c \in Callers : call[c] = NoCall
    BY DEF Init
  <2> QED
    BY <2>1, <2>2 DEF Past
<1>4. Paced
  <2>1. clock = 0 /\ snapshot.evaluated = 0
    BY DEF Init
  <2> QED
    BY <1>1, <2>1 DEF Paced
<1>5. snapshot.stopped = TRUE /\ hasActive = FALSE /\ stopReason = "STARTUP"
  BY DEF Init
<1>6. ShownFresh /\ MotionHasNumber /\ OnlyCommandsMove
  BY <1>5 DEF ShownFresh, MotionHasNumber, OnlyCommandsMove
<1>7. HeldOK /\ NoFutureCommand
  BY <1>5 DEF HeldOK, NoFutureCommand
<1> QED
  BY <1>2, <1>3, <1>4, <1>6, <1>7 DEF IndInv

\* A caller's step leaves the task and the snapshot alone; what it passes on
\* has its type and a time of the past.
LEMMA CallerKeeps ==
  ASSUME IndInv, NEW c \in Callers, CallerNext(c)
  PROVE  IndInv'
<1>1. UNCHANGED <<clock, task, held, snapshot>>
  BY DEF CallerNext, Begin, TakeTime, TakeNumber, Overwrite
<1>2. TypeOK /\ Past /\ clock \in Nat
  BY DEF IndInv, TypeOK
<1>3. /\ nextSequence' \in Sequences /\ calls' \in 0 .. MaxCalls
      /\ call' \in [Callers -> Calls \cup {NoCall}]
      /\ event' \in Events \cup {NoEvent}
      /\ \A d \in Callers : call'[d] # NoCall => call'[d].received <= clock
      /\ event' # NoEvent => event'.received <= clock
  <2>1. CASE Begin(c)
    <3>1. PICK request \in Requests :
            call' = [call EXCEPT ![c] = NewCall(request)]
      BY <2>1 DEF Begin
    <3>2. NewCall(request) \in Calls /\ NewCall(request).received = NotYet
      BY DriveAssumption DEF NewCall, Calls, Sequences
    <3>3. NotYet <= clock
      BY <1>2 DEF NotYet
    <3>4. calls' \in 0 .. MaxCalls /\ UNCHANGED <<nextSequence, event>>
      BY <1>2, <2>1, DriveAssumption DEF Begin, TypeOK
    <3> QED
      BY <1>2, <3>1, <3>2, <3>3, <3>4 DEF TypeOK, Past
  <2>2. CASE TakeTime(c)
    <3>1. call[c] \in Calls
      BY <1>2, <2>2 DEF TakeTime, TypeOK
    <3>2. call' = [call EXCEPT ![c].received = clock]
      BY <2>2 DEF TakeTime
    <3>3. [call[c] EXCEPT !.received = clock] \in Calls
      BY <1>2, <3>1 DEF Calls
    <3>4. call' = [call EXCEPT ![c] = [call[c] EXCEPT !.received = clock]]
      BY <1>2, <3>2 DEF TypeOK
    <3>5. [call[c] EXCEPT !.received = clock].received <= clock
      BY <1>2, <3>1 DEF Calls
    <3> QED
      BY <1>2, <2>2, <3>3, <3>4, <3>5 DEF TakeTime, TypeOK, Past
  <2>3. CASE TakeNumber(c)
    <3>1. call[c] \in Calls
      BY <1>2, <2>3 DEF TakeNumber, TypeOK
    <3>2. nextSequence' \in Sequences \ {0}
      BY <1>2, <2>3, SuccessorFacts DEF TakeNumber, TypeOK
    <3>3. call' = [call EXCEPT ![c] = [call[c] EXCEPT !.sequence = nextSequence']]
      BY <1>2, <2>3 DEF TakeNumber, TypeOK
    <3>4. /\ [call[c] EXCEPT !.sequence = nextSequence'] \in Calls
          /\ [call[c] EXCEPT !.sequence = nextSequence'].received = call[c].received
      BY <3>1, <3>2 DEF Calls
    <3>5. call[c].received <= clock
      BY <1>2, <2>3 DEF TakeNumber, Past
    <3> QED
      BY <1>2, <2>3, <3>2, <3>3, <3>4, <3>5 DEF TakeNumber, TypeOK, Past
  <2>4. CASE Overwrite(c)
    <3>1. call[c] \in Calls /\ NotYet \notin {call[c].received, call[c].sequence}
      BY <1>2, <2>4 DEF Overwrite, TypeOK
    <3>2. call[c] \in Events /\ call[c].received <= clock /\ call[c] # NoCall
      BY <1>2, <2>4, <3>1 DEF Overwrite, Past, Calls, Events
    <3>3. event' = call[c]
      BY <2>4 DEF Overwrite, Put
    <3>4. /\ NewCall("EXTERNAL_REQUEST") \in Calls
          /\ NewCall("EXTERNAL_REQUEST").received = NotYet
      BY DriveAssumption DEF NewCall, Calls, Requests, Stops, Sequences
    <3>5. NotYet <= clock
      BY <1>2 DEF NotYet
    <3>6. \/ call' = [call EXCEPT ![c] = NoCall]
          \/ call' = [call EXCEPT ![c] = NewCall("EXTERNAL_REQUEST")]
      BY <2>4 DEF Overwrite
    <3>7. /\ call' \in [Callers -> Calls \cup {NoCall}]
          /\ \A d \in Callers : call'[d] # NoCall => call'[d].received <= clock
      BY <1>2, <3>4, <3>5, <3>6 DEF TypeOK, Past
    <3> QED
      BY <1>2, <2>4, <3>2, <3>3, <3>7 DEF Overwrite, TypeOK
  <2> QED
    BY <2>1, <2>2, <2>3, <2>4 DEF CallerNext
<1>4. TypeOK'
  BY <1>1, <1>2, <1>3 DEF TypeOK, held
<1>5. Past'
  BY <1>1, <1>2, <1>3 DEF Past, held
<1> QED
  BY <1>1, <1>4, <1>5
  DEF held, IndInv, Paced, ShownFresh, HeldOK, NoFutureCommand,
      MotionHasNumber, OnlyCommandsMove

\* Taking an event passes its time on and keeps the snapshot.
LEMMA ReceiveKeeps ==
  ASSUME IndInv, Receive
  PROVE  IndInv'
<1>1. TypeOK /\ Past
  BY DEF IndInv
<1>2. /\ UNCHANGED <<clock, nextSequence, call, calls, snapshot>>
      /\ task' = "evaluate"
  BY DEF Receive
<1>3. CASE event = NoEvent
  <2>1. UNCHANGED <<event, held>>
    BY <1>3 DEF Receive
  <2> QED
    BY <1>2, <2>1
    DEF held, IndInv, TypeOK, Past, Paced, ShownFresh, HeldOK,
        NoFutureCommand, MotionHasNumber, OnlyCommandsMove
<1>4. CASE event # NoEvent
  <2>1. /\ event' = NoEvent /\ active' = event
        /\ hasActive' = Activates(event.request)
        /\ stopReason' = ReasonOf(event.request)
    BY <1>4 DEF Receive
  <2>2. event \in Events /\ event.received <= clock
    BY <1>1, <1>4 DEF TypeOK, Past
  <2>3. /\ hasActive' \in BOOLEAN
        /\ stopReason' \in Reasons /\ stopReason' # "CORE_ERROR"
    BY <2>1, <2>2, ReasonOfFacts
  <2>4. TypeOK'
    BY <1>1, <1>2, <2>1, <2>2, <2>3 DEF TypeOK
  <2>5. Past'
    BY <1>1, <1>2, <2>1, <2>2 DEF Past
  <2>6. HeldOK' /\ NoFutureCommand' /\ OnlyCommandsMove'
    BY <1>2, <2>1, <2>2, <2>3 DEF HeldOK, NoFutureCommand, OnlyCommandsMove
  <2> QED
    BY <1>2, <2>4, <2>5, <2>6
    DEF IndInv, Paced, ShownFresh, MotionHasNumber
<1> QED
  BY <1>3, <1>4

\* An evaluation shows what the verdict allows, with the time it was made at.
LEMMA EvaluateKeeps ==
  ASSUME IndInv, Evaluate
  PROVE  IndInv'
<1>1. TypeOK /\ Past /\ HeldOK /\ NoFutureCommand
  BY DEF IndInv
<1>2. /\ UNCHANGED <<clock, nextSequence, call, calls, event, active>>
      /\ task' = "receive"
      /\ stopReason' = IF hasActive THEN Verdict(active, clock) ELSE stopReason
      /\ hasActive' = (hasActive /\ stopReason' = "NONE")
      /\ snapshot' = [received |-> active.received, evaluated |-> clock,
                      sequence |-> active.sequence, reason |-> stopReason',
                      stopped |-> ~hasActive']
  BY DEF Evaluate, EvaluationTime
<1>3. /\ clock \in Nat /\ MaxPeriod \in Nat
      /\ active.received \in Nat /\ active.received <= clock
      /\ active.sequence \in Sequences
  BY <1>1, DriveAssumption DEF TypeOK, Past, Events, ZeroEvent, Sequences
<1>4. CASE hasActive
  <2>1. active \in Events /\ Activates(active.request)
    BY <1>1, <1>4 DEF HeldOK
  <2>2. /\ stopReason' \in Reasons
        /\ stopReason' = "NONE" =>
             /\ clock <= active.received + Timeout
             /\ active.request # "overflowing"
        /\ stopReason' = "CORE_ERROR" => active.request = "overflowing"
    BY <1>2, <1>3, <1>4, <2>1, VerdictFacts
  <2>3. hasActive' => active.request = "command" /\ active.sequence # 0
    BY <1>2, <2>1, <2>2 DEF Activates, Events
  <2>4. snapshot' \in Snapshots /\ hasActive' \in BOOLEAN
    BY <1>2, <1>3, <2>2 DEF Snapshots
  <2>5. TypeOK'
    BY <1>1, <1>2, <2>2, <2>4 DEF TypeOK
  <2>6. Past' /\ Paced'
    BY <1>1, <1>2, <1>3 DEF Past, Paced
  <2>7. ShownFresh' /\ HeldOK' /\ NoFutureCommand' /\ MotionHasNumber'
          /\ OnlyCommandsMove'
    BY <1>2, <1>3, <2>1, <2>2, <2>3
    DEF ShownFresh, HeldOK, NoFutureCommand, MotionHasNumber, OnlyCommandsMove
  <2> QED
    BY <2>5, <2>6, <2>7 DEF IndInv
<1>5. CASE ~hasActive
  <2>1. ~hasActive' /\ stopReason' = stopReason /\ snapshot'.stopped
    BY <1>2, <1>5
  <2>2. snapshot' \in Snapshots
    BY <1>1, <1>2, <1>3, <2>1 DEF Snapshots, TypeOK
  <2>3. TypeOK'
    BY <1>1, <1>2, <2>1, <2>2 DEF TypeOK
  <2>4. Past' /\ Paced'
    BY <1>1, <1>2, <1>3 DEF Past, Paced
  <2>5. ShownFresh' /\ HeldOK' /\ NoFutureCommand' /\ MotionHasNumber'
          /\ OnlyCommandsMove'
    BY <1>1, <1>2, <2>1
    DEF ShownFresh, HeldOK, NoFutureCommand, MotionHasNumber, OnlyCommandsMove
  <2> QED
    BY <2>3, <2>4, <2>5 DEF IndInv
<1> QED
  BY <1>1, <1>4, <1>5 DEF TypeOK

\* The clock only makes times older, by no more than the period allows.
LEMMA TickKeeps ==
  ASSUME IndInv, Tick
  PROVE  IndInv'
<1>1. TypeOK /\ Past /\ Paced
  BY DEF IndInv
<1>2. /\ clock' = clock + 1 /\ clock < snapshot.evaluated + MaxPeriod
      /\ UNCHANGED <<nextSequence, call, calls, event, task, held, snapshot>>
  BY DEF Tick
<1>3. clock \in Nat /\ snapshot.evaluated \in Nat /\ MaxPeriod \in Nat
  BY <1>1, DriveAssumption DEF TypeOK, Snapshots
<1>4. TypeOK'
  BY <1>1, <1>2, <1>3 DEF TypeOK, held
<1>5. Paced'
  BY <1>1, <1>2, <1>3 DEF Paced
<1>6. Past'
  <2>1. ASSUME NEW c \in Callers, call[c] # NoCall
        PROVE  call[c].received <= clock + 1
    <3>1. call[c].received \in Int /\ call[c].received <= clock
      BY <1>1, <2>1 DEF TypeOK, Past, Calls, NotYet
    <3> QED
      BY <1>3, <3>1
  <2>2. event # NoEvent => event.received <= clock + 1
    <3>1. event # NoEvent => event.received \in Nat /\ event.received <= clock
      BY <1>1 DEF TypeOK, Past, Events
    <3> QED
      BY <1>3, <3>1
  <2>3. active.received <= clock + 1
    <3>1. active.received \in Nat /\ active.received <= clock
      BY <1>1 DEF TypeOK, Past, Events, ZeroEvent
    <3> QED
      BY <1>3, <3>1
  <2> QED
    BY <1>2, <2>1, <2>2, <2>3 DEF Past, held
<1> QED
  BY <1>2, <1>4, <1>5, <1>6
  DEF held, IndInv, ShownFresh, HeldOK, NoFutureCommand, MotionHasNumber,
      OnlyCommandsMove

\* Every step keeps the invariant.
LEMMA NextKeeps == IndInv /\ [Next]_vars => IndInv'
<1> SUFFICES ASSUME IndInv, [Next]_vars PROVE IndInv'
  OBVIOUS
<1>1. CASE Next
  BY <1>1, CallerKeeps, ReceiveKeeps, EvaluateKeeps, TickKeeps DEF Next, TaskNext
<1>2. CASE UNCHANGED vars
  BY <1>2
  DEF vars, held, IndInv, TypeOK, Past, Paced, ShownFresh, HeldOK,
      NoFutureCommand, MotionHasNumber, OnlyCommandsMove
<1> QED
  BY <1>1, <1>2

-----------------------------------------------------------------------------
(* Theorems. *)

\* The inductive invariant of the drive backend.
THEOREM DriveInvariance == Spec => []IndInv
  BY InitEstablishes, NextKeeps, PTL DEF Spec

\* Every variable keeps its type; an event never carries the number zero.
THEOREM DriveTypeCorrect == Spec => []TypeOK
<1>1. IndInv => TypeOK
  BY DEF IndInv
<1> QED
  BY <1>1, DriveInvariance, PTL

\* Motion in a snapshot is within the timeout when evaluated and at most one
\* period older when read, for any number of interleaved callers.
THEOREM MotionStaysFresh == Spec => []MotionIsFresh
<1>1. IndInv => MotionIsFresh
  <2> SUFFICES ASSUME IndInv, ~snapshot.stopped
               PROVE  /\ snapshot.received <= snapshot.evaluated
                      /\ snapshot.evaluated <= snapshot.received + Timeout
                      /\ clock <= snapshot.received + Timeout + MaxPeriod
    BY DEF MotionIsFresh
  <2>1. /\ snapshot.received \in Nat /\ snapshot.evaluated \in Nat
        /\ clock \in Nat /\ Timeout \in Nat /\ MaxPeriod \in Nat
    BY DriveAssumption DEF IndInv, TypeOK, Snapshots
  <2> QED
    BY <2>1 DEF IndInv, ShownFresh, Paced
<1> QED
  BY <1>1, DriveInvariance, PTL

\* The task never meets a command from its future.
THEOREM NoCommandFromTheFuture == Spec => []NoFutureCommand
<1>1. IndInv => NoFutureCommand
  BY DEF IndInv
<1> QED
  BY <1>1, DriveInvariance, PTL

\* Motion has a number, and comes from a finite command.
THEOREM MotionHasACommand == Spec => [](MotionHasNumber /\ OnlyCommandsMove)
<1>1. IndInv => MotionHasNumber /\ OnlyCommandsMove
  BY DEF IndInv
<1> QED
  BY <1>1, DriveInvariance, PTL

-----------------------------------------------------------------------------
(* The promise of DeadMan. *)

\* The task holds a command, whose verdict says whether it drives.
LEMMA VerdictDrives ==
  ASSUME IndInv, hasActive
  PROVE  /\ active # NoEvent
         /\ Verdict(active, clock) = "NONE" <=> Switch!Drives
<1>1. active \in Events /\ Activates(active.request) /\ active.received <= clock
  BY DEF IndInv, HeldOK, Past
<1>2. /\ active # NoEvent
      /\ active.request = "command" <=> active.request # "overflowing"
  BY <1>1, Placeholders DEF Activates
<1>3. active.received \in Nat /\ clock \in Nat /\ Timeout \in Nat
  BY <1>1, DriveAssumption DEF Events, IndInv, TypeOK
<1> QED
  BY <1>1, <1>2, <1>3 DEF Verdict, Switch!Drives

\* A caller's step sends an event of the past, or nothing.
LEMMA CallerSends ==
  ASSUME IndInv, NEW c \in Callers, CallerNext(c)
  PROVE  [Switch!Next]_Switch!switchVars
<1>1. UNCHANGED <<clock, held, snapshot>>
  BY DEF CallerNext, Begin, TakeTime, TakeNumber, Overwrite
<1>2. CASE Begin(c) \/ TakeTime(c) \/ TakeNumber(c)
  BY <1>1, <1>2
  DEF Begin, TakeTime, TakeNumber, held, ShownMotion, Switch!switchVars
<1>3. CASE Overwrite(c)
  <2>1. event' = call[c] /\ call[c] # NoCall /\ call[c].received <= clock
    BY <1>3 DEF Overwrite, Put, IndInv, Past
  <2> QED
    BY <1>1, <2>1
    DEF held, ShownMotion, NoCall, NoEvent, Switch!Send, Switch!Next
<1> QED
  BY <1>2, <1>3 DEF CallerNext

\* An evaluation shows the command that drives, or stops.
LEMMA EvaluateShows ==
  ASSUME IndInv, Evaluate
  PROVE  Switch!Next
<1>1. /\ UNCHANGED <<clock, event, active>>
      /\ stopReason' = IF hasActive THEN Verdict(active, clock) ELSE stopReason
      /\ hasActive' = (hasActive /\ stopReason' = "NONE")
      /\ snapshot' = [received |-> active.received, evaluated |-> clock,
                      sequence |-> active.sequence, reason |-> stopReason',
                      stopped |-> ~hasActive']
  BY DEF Evaluate, EvaluationTime
<1>2. CASE hasActive /\ Verdict(active, clock) = "NONE"
  <2>1. hasActive' /\ ~snapshot'.stopped
    BY <1>1, <1>2
  <2>2. ShownMotion' = [received |-> active.received, sequence |-> active.sequence]
    BY <1>1, <2>1 DEF ShownMotion
  <2> QED
    BY <1>1, <1>2, <2>1, <2>2, VerdictDrives DEF Switch!Show, Switch!Next
<1>3. CASE ~(hasActive /\ Verdict(active, clock) = "NONE")
  <2>1. ~hasActive' /\ snapshot'.stopped
    BY <1>1, <1>3
  <2>2. ~Switch!Drives
    BY <1>3, VerdictDrives DEF Switch!Drives
  <2> QED
    BY <1>1, <2>1, <2>2 DEF ShownMotion, Switch!Stop, Switch!Next
<1> QED
  BY <1>2, <1>3

\* The clock passes only as long as what is shown may be shown.
LEMMA TickPasses ==
  ASSUME IndInv, Tick
  PROVE  Switch!Next
<1>1. /\ clock' = clock + 1 /\ clock < snapshot.evaluated + MaxPeriod
      /\ UNCHANGED <<event, active, hasActive, snapshot>>
  BY DEF Tick, held
<1>2. ASSUME ShownMotion # NoEvent
      PROVE  clock' <= ShownMotion.received + Timeout + MaxPeriod
  <2>1. /\ ShownMotion.received = snapshot.received
        /\ snapshot.evaluated <= snapshot.received + Timeout
    BY <1>2 DEF ShownMotion, IndInv, ShownFresh
  <2>2. /\ snapshot.received \in Nat /\ snapshot.evaluated \in Nat
        /\ clock \in Nat /\ Timeout \in Nat /\ MaxPeriod \in Nat
    BY DriveAssumption DEF IndInv, TypeOK, Snapshots
  <2> QED
    BY <1>1, <2>1, <2>2
<1>3. UNCHANGED ShownMotion
  BY <1>1 DEF ShownMotion
<1> QED
  BY <1>1, <1>2, <1>3 DEF Switch!Pass, Switch!Next

\* Whatever the callers do, the backend is a dead man's switch: each event is
\* taken once, a stop lasts until another command is sent, motion is that of the
\* command taken last and ends with its time.
THEOREM DriveImplementsDeadMan == Spec => DeadManSpec
<1>1. Init => Switch!Init
  BY DEF Init, ShownMotion, Switch!Init
<1>2. IndInv /\ [Next]_vars => [Switch!Next]_Switch!switchVars
  <2> SUFFICES ASSUME IndInv, [Next]_vars
               PROVE  [Switch!Next]_Switch!switchVars
    OBVIOUS
  <2>1. CASE \E c \in Callers : CallerNext(c)
    BY <2>1, CallerSends
  <2>2. CASE Receive
    <3>1. UNCHANGED <<clock, snapshot>>
      BY <2>2 DEF Receive
    <3>2. CASE event = NoEvent
      BY <2>2, <3>1, <3>2 DEF Receive, held, ShownMotion, Switch!switchVars
    <3>3. CASE event # NoEvent
      BY <2>2, <3>1, <3>3
      DEF Receive, Activates, ShownMotion, Switch!Take, Switch!Next
    <3> QED
      BY <3>2, <3>3
  <2>3. CASE Evaluate
    BY <2>3, EvaluateShows
  <2>4. CASE Tick
    BY <2>4, TickPasses
  <2>5. CASE UNCHANGED vars
    BY <2>5 DEF vars, held, ShownMotion, Switch!switchVars
  <2> QED
    BY <2>1, <2>2, <2>3, <2>4, <2>5 DEF Next, TaskNext
<1> QED
  BY <1>1, <1>2, DriveInvariance, PTL DEF Spec, DeadManSpec, Switch!Spec

-----------------------------------------------------------------------------
(* Silence ends the motion within a bounded time. *)

\* No call, event, held command or snapshot stems from after the last call.
OfTheCalls ==
  /\ \A c \in Callers :
       call[c] # NoCall => clock <= LastCall /\ call[c].received <= LastCall
  /\ event # NoEvent => event.received <= LastCall
  /\ active.received <= LastCall
  /\ snapshot.received <= LastCall

\* A call takes its time before the last call has ended.
LEMMA CallerKeepsOrigin ==
  ASSUME IndInv, OfTheCalls, NEW c \in Callers, CallerNext(c)
  PROVE  OfTheCalls'
<1>1. call \in [Callers -> Calls \cup {NoCall}] /\ clock \in Nat /\ LastCall \in Nat
  BY DriveAssumption DEF IndInv, TypeOK
<1>2. UNCHANGED <<clock, active, snapshot>>
  BY DEF CallerNext, Begin, TakeTime, TakeNumber, Overwrite, held
<1>3. clock <= LastCall
  BY DEF CallerNext, Begin, TakeTime, TakeNumber, Overwrite, OfTheCalls
<1>4. ASSUME NEW request PROVE NewCall(request).received <= LastCall
  BY <1>1 DEF NewCall, NotYet
<1>5. CASE Begin(c)
  BY <1>1, <1>2, <1>3, <1>4, <1>5 DEF Begin, OfTheCalls
<1>6. CASE TakeTime(c)
  <2>1. call[c] \in Calls /\ UNCHANGED event
    BY <1>1, <1>6 DEF TakeTime
  <2>2. call' = [call EXCEPT ![c] = [call[c] EXCEPT !.received = clock]]
    BY <1>1, <1>6 DEF TakeTime
  <2>3. [call[c] EXCEPT !.received = clock].received = clock
    BY <2>1 DEF Calls
  <2> QED
    BY <1>1, <1>2, <1>3, <2>1, <2>2, <2>3 DEF OfTheCalls
<1>7. CASE TakeNumber(c)
  <2>1. call[c] \in Calls /\ call[c] # NoCall /\ UNCHANGED event
    BY <1>1, <1>7 DEF TakeNumber
  <2>2. call' = [call EXCEPT ![c] = [call[c] EXCEPT !.sequence = nextSequence']]
    BY <1>1, <1>7 DEF TakeNumber
  <2>3. [call[c] EXCEPT !.sequence = nextSequence'].received = call[c].received
    BY <2>1 DEF Calls
  <2> QED
    BY <1>1, <1>2, <2>1, <2>2, <2>3 DEF OfTheCalls
<1>8. CASE Overwrite(c)
  <2>1. event' = call[c] /\ call[c].received <= LastCall
    BY <1>8 DEF Overwrite, Put, OfTheCalls
  <2> QED
    BY <1>1, <1>2, <1>3, <1>4, <1>8, <2>1 DEF Overwrite, OfTheCalls
<1> QED
  BY <1>5, <1>6, <1>7, <1>8 DEF CallerNext

\* The task passes times on, and the clock waits for the calls under way.
LEMMA NextKeepsOrigin == IndInv /\ OfTheCalls /\ [Next]_vars => OfTheCalls'
<1> SUFFICES ASSUME IndInv, OfTheCalls, [Next]_vars
             PROVE  OfTheCalls'
  OBVIOUS
<1>1. CASE \E c \in Callers : CallerNext(c)
  BY <1>1, CallerKeepsOrigin
<1>2. CASE Receive
  BY <1>2 DEF Receive, held, OfTheCalls
<1>3. CASE Evaluate
  BY <1>3 DEF Evaluate, OfTheCalls
<1>4. CASE Tick
  <2>1. clock \in Nat /\ LastCall \in Nat
    BY DriveAssumption DEF IndInv, TypeOK
  <2>2. /\ clock' = clock + 1 /\ UNCHANGED <<call, event, active, snapshot>>
        /\ clock < LastCall \/ \A c \in Callers : call[c] = NoCall
    BY <1>4 DEF Tick, held
  <2> QED
    BY <2>1, <2>2 DEF OfTheCalls
<1>5. CASE UNCHANGED vars
  BY <1>5 DEF vars, held, OfTheCalls
<1> QED
  BY <1>1, <1>2, <1>3, <1>4, <1>5 DEF Next, TaskNext

\* Whatever was sent, motion has ended a timeout and a period after the last
\* call: the safety half of SilenceStops, with its bound.
THEOREM SilenceEndsMotion ==
  Spec => [](clock > LastCall + Timeout + MaxPeriod => snapshot.stopped)
<1>1. Init => OfTheCalls
  BY DriveAssumption DEF Init, OfTheCalls, ZeroEvent
<1>2. IndInv /\ OfTheCalls
        => (clock > LastCall + Timeout + MaxPeriod => snapshot.stopped)
  <2> SUFFICES ASSUME IndInv, OfTheCalls, ~snapshot.stopped
               PROVE  clock <= LastCall + Timeout + MaxPeriod
    BY DriveAssumption DEF IndInv, TypeOK
  <2>1. /\ snapshot.evaluated <= snapshot.received + Timeout
        /\ clock <= snapshot.evaluated + MaxPeriod
        /\ snapshot.received <= LastCall
    BY DEF IndInv, ShownFresh, Paced, OfTheCalls
  <2>2. /\ snapshot.received \in Nat /\ snapshot.evaluated \in Nat /\ clock \in Nat
        /\ LastCall \in Nat /\ Timeout \in Nat /\ MaxPeriod \in Nat
    BY DriveAssumption DEF IndInv, TypeOK, Snapshots
  <2> QED
    BY <2>1, <2>2
<1> QED
  BY <1>1, <1>2, NextKeepsOrigin, DriveInvariance, PTL DEF Spec

-----------------------------------------------------------------------------
(* With one caller nothing overtakes: the newest number is in exactly the *)
(* place it has reached on its way from the call to the snapshot.         *)

\* Caller c is in a call that has taken its number.
Numbered(c) == call[c] # NoCall /\ call[c].sequence # NotYet

\* Where the newest number is while c is the only caller: in the call, else in
\* the queue, else with the task, and in the snapshot once that is evaluated.
NewestIsAt(c) ==
  /\ Numbered(c) => call[c].sequence = nextSequence
  /\ ~Numbered(c) /\ event # NoEvent => event.sequence = nextSequence
  /\ ~Numbered(c) /\ event = NoEvent =>
       /\ active.sequence = nextSequence
       /\ task = "receive" => snapshot.sequence = nextSequence

\* At the start every number is the zero of the all-zero event.
LEMMA InitNewest ==
  ASSUME NEW c \in Callers, Init
  PROVE  NewestIsAt(c)
  BY DEF Init, NewestIsAt, Numbered, ZeroEvent

\* A step of the only caller moves the newest number on, or makes a newer one.
LEMMA CallerKeepsNewest ==
  ASSUME NEW c \in Callers, IndInv, NewestIsAt(c), CallerNext(c)
  PROVE  NewestIsAt(c)'
<1>1. call \in [Callers -> Calls \cup {NoCall}]
  BY DEF IndInv, TypeOK
<1>2. UNCHANGED <<active, task, snapshot>>
  BY DEF CallerNext, Begin, TakeTime, TakeNumber, Overwrite, held
<1>3. ASSUME NEW request PROVE NewCall(request).sequence = NotYet
  BY DEF NewCall
<1>4. CASE Begin(c)
  <2>1. PICK request \in Requests : call' = [call EXCEPT ![c] = NewCall(request)]
    BY <1>4 DEF Begin
  <2>2. call'[c].sequence = NotYet
    BY <1>1, <1>3, <2>1
  <2>3. ~Numbered(c) /\ UNCHANGED <<nextSequence, event>>
    BY <1>4 DEF Begin, Numbered
  <2> QED
    BY <1>2, <2>2, <2>3 DEF NewestIsAt, Numbered
<1>5. CASE TakeTime(c)
  <2>1. call[c] \in Calls
    BY <1>1, <1>5 DEF TakeTime
  <2>2. call'[c] = [call[c] EXCEPT !.received = clock]
    BY <1>1, <1>5 DEF TakeTime
  <2>3. call'[c].sequence = call[c].sequence /\ call'[c].request = call[c].request
    BY <2>1, <2>2 DEF Calls
  <2>4. call'[c] # NoCall
    <3>1. call[c].request # "none"
      BY <2>1 DEF Calls, Requests, Commands, Stops
    <3> QED
      BY <2>3, <3>1 DEF NoCall
  <2>5. call[c] # NoCall /\ UNCHANGED <<nextSequence, event>>
    BY <1>5 DEF TakeTime
  <2> QED
    BY <1>2, <2>3, <2>4, <2>5 DEF NewestIsAt, Numbered
<1>6. CASE TakeNumber(c)
  <2>1. call[c] \in Calls
    BY <1>1, <1>6 DEF TakeNumber
  <2>2. call'[c] = [call[c] EXCEPT !.sequence = nextSequence']
    BY <1>1, <1>6 DEF TakeNumber
  <2>3. call'[c].sequence = nextSequence' /\ call'[c].request = call[c].request
    BY <2>1, <2>2 DEF Calls
  <2>4. call'[c] # NoCall
    <3>1. call[c].request # "none"
      BY <2>1 DEF Calls, Requests, Commands, Stops
    <3> QED
      BY <2>3, <3>1 DEF NoCall
  <2>5. nextSequence' # NotYet
    <3>1. nextSequence' \in Sequences \ {0}
      BY <1>6, SuccessorFacts DEF TakeNumber, IndInv, TypeOK
    <3> QED
      BY <3>1, DriveAssumption DEF Sequences, NotYet
  <2> QED
    BY <2>3, <2>4, <2>5 DEF NewestIsAt, Numbered
<1>7. CASE Overwrite(c)
  <2>1. event' = call[c] /\ Numbered(c) /\ UNCHANGED nextSequence
    BY <1>7 DEF Overwrite, Put, Numbered
  <2>2. event' # NoEvent /\ event'.sequence = nextSequence'
    BY <2>1 DEF NewestIsAt, Numbered, NoEvent, NoCall
  <2>3. call'[c] = NoCall \/ call'[c].sequence = NotYet
    BY <1>1, <1>3, <1>7 DEF Overwrite
  <2> QED
    BY <2>2, <2>3 DEF NewestIsAt, Numbered
<1> QED
  BY <1>4, <1>5, <1>6, <1>7 DEF CallerNext

\* The task moves a number on from the queue to itself to the snapshot.
LEMMA TaskKeepsNewest ==
  ASSUME NEW c \in Callers, NewestIsAt(c), TaskNext
  PROVE  NewestIsAt(c)'
<1>1. UNCHANGED <<call, nextSequence>>
  BY DEF TaskNext, Receive, Evaluate
<1>2. Numbered(c)' <=> Numbered(c)
  BY <1>1 DEF Numbered
<1>3. CASE Receive
  <2>1. /\ task' = "evaluate" /\ event' = NoEvent
        /\ event = NoEvent => active' = active
        /\ event # NoEvent => active' = event
    BY <1>3 DEF Receive, held
  <2> QED
    BY <1>1, <1>2, <2>1 DEF NewestIsAt
<1>4. CASE Evaluate
  <2>1. UNCHANGED <<event, active>> /\ snapshot'.sequence = active.sequence
    BY <1>4 DEF Evaluate
  <2> QED
    BY <1>1, <1>2, <2>1 DEF NewestIsAt
<1> QED
  BY <1>3, <1>4 DEF TaskNext

\* The counter stands at zero until the first call has taken its number.
ZeroIsNone(c) ==
  /\ calls = 0 => nextSequence = 0 /\ call[c] = NoCall
  /\ calls # 0 /\ nextSequence = 0 => call[c] # NoCall /\ ~Numbered(c)

\* A number is never zero, so that only a call that has none yet can be under way
\* over a counter at zero.
LEMMA NextKeepsZero ==
  ASSUME NEW c \in Callers, Callers = {c}
  PROVE  IndInv /\ ZeroIsNone(c) /\ [Next]_vars => ZeroIsNone(c)'
<1> SUFFICES ASSUME IndInv, ZeroIsNone(c), [Next]_vars
             PROVE  ZeroIsNone(c)'
  OBVIOUS
<1>1. /\ call \in [Callers -> Calls \cup {NoCall}]
      /\ calls \in Nat /\ nextSequence \in Sequences
  BY DriveAssumption DEF IndInv, TypeOK
<1>2. \A request \in Requests : NewCall(request) # NoCall
  BY DEF NewCall, NoCall, Requests, Commands, Stops
<1>3. CASE Begin(c)
  <2>1. calls' = calls + 1 /\ calls' # 0
    BY <1>1, <1>3 DEF Begin
  <2>2. PICK request \in Requests : call' = [call EXCEPT ![c] = NewCall(request)]
    BY <1>3 DEF Begin
  <2>3. call'[c] # NoCall /\ call'[c].sequence = NotYet
    BY <1>1, <1>2, <2>2 DEF NewCall
  <2> QED
    BY <2>1, <2>3 DEF ZeroIsNone, Numbered
<1>4. CASE TakeTime(c)
  <2>1. call[c] \in Calls /\ call[c] # NoCall /\ UNCHANGED <<calls, nextSequence>>
    BY <1>1, <1>4 DEF TakeTime
  <2>2. call'[c] = [call[c] EXCEPT !.received = clock]
    BY <1>1, <1>4 DEF TakeTime
  <2>3. call'[c].sequence = call[c].sequence /\ call'[c].request = call[c].request
    BY <2>1, <2>2 DEF Calls
  <2>4. call[c].request # "none"
    BY <2>1 DEF Calls, Requests, Commands, Stops
  <2>5. call'[c] # NoCall
    BY <2>3, <2>4 DEF NoCall
  <2> QED
    BY <2>1, <2>3, <2>5 DEF ZeroIsNone, Numbered
<1>5. CASE TakeNumber(c)
  <2>1. nextSequence' # 0
    BY <1>1, <1>5, SuccessorFacts DEF TakeNumber
  <2>2. calls # 0 /\ UNCHANGED calls
    BY <1>5 DEF TakeNumber, ZeroIsNone
  <2> QED
    BY <2>1, <2>2 DEF ZeroIsNone
<1>6. CASE Overwrite(c)
  <2>1. call[c] # NoCall /\ Numbered(c) /\ UNCHANGED <<calls, nextSequence>>
    BY <1>6 DEF Overwrite, Numbered
  <2> QED
    BY <2>1 DEF ZeroIsNone
<1>7. CASE TaskNext \/ Tick \/ UNCHANGED vars
  <2>1. UNCHANGED <<call, calls, nextSequence>>
    BY <1>7 DEF TaskNext, Receive, Evaluate, Tick, vars
  <2> QED
    BY <2>1 DEF ZeroIsNone, Numbered
<1> QED
  BY <1>3, <1>4, <1>5, <1>6, <1>7 DEF Next, CallerNext

\* Every step keeps the newest number in its place when c is the only caller.
LEMMA NextKeepsNewest ==
  ASSUME NEW c \in Callers, Callers = {c}
  PROVE  IndInv /\ NewestIsAt(c) /\ [Next]_vars => NewestIsAt(c)'
<1> SUFFICES ASSUME IndInv, NewestIsAt(c), [Next]_vars
             PROVE  NewestIsAt(c)'
  OBVIOUS
<1>1. CASE \E d \in Callers : CallerNext(d)
  BY <1>1, CallerKeepsNewest
<1>2. CASE TaskNext
  BY <1>2, TaskKeepsNewest
<1>3. CASE Tick
  BY <1>3 DEF Tick, held, NewestIsAt, Numbered
<1>4. CASE UNCHANGED vars
  BY <1>4 DEF vars, held, NewestIsAt, Numbered
<1> QED
  BY <1>1, <1>2, <1>3, <1>4 DEF Next

\* With one caller, a snapshot read while no call is under way and nothing is
\* queued answers the newest call: no stop is lost behind an older command, and
\* next_sequence never gives a call the zero that stands for none.
THEOREM NewestCallIsAnswered ==
  ASSUME NEW c \in Callers, Callers = {c}
  PROVE  Spec => []NewestIsShown
<1>1. Init => NewestIsAt(c) /\ ZeroIsNone(c)
  BY InitNewest DEF Init, ZeroIsNone
<1>2. /\ IndInv /\ NewestIsAt(c) /\ [Next]_vars => NewestIsAt(c)'
      /\ IndInv /\ ZeroIsNone(c) /\ [Next]_vars => ZeroIsNone(c)'
  BY NextKeepsNewest, NextKeepsZero
<1>3. NewestIsAt(c) /\ ZeroIsNone(c) => NewestIsShown
  BY DEF NewestIsAt, ZeroIsNone, NewestIsShown, Numbered
<1> QED
  BY <1>1, <1>2, <1>3, DriveInvariance, PTL DEF Spec

\* Times are in order along the way from the only caller c to the snapshot.
InOrder(c) ==
  /\ snapshot.received <= active.received
  /\ event # NoEvent => active.received <= event.received
  /\ call[c] # NoCall /\ call[c].received # NotYet =>
       /\ active.received <= call[c].received
       /\ event # NoEvent => event.received <= call[c].received

\* A time is taken after those that are on their way.
LEMMA CallerKeepsOrder ==
  ASSUME NEW c \in Callers, IndInv, InOrder(c), CallerNext(c)
  PROVE  InOrder(c)'
<1>1. /\ call \in [Callers -> Calls \cup {NoCall}]
      /\ active.received <= clock
      /\ event # NoEvent => event.received <= clock
  BY DEF IndInv, TypeOK, Past
<1>2. UNCHANGED <<active, snapshot>>
  BY DEF CallerNext, Begin, TakeTime, TakeNumber, Overwrite, held
<1>3. ASSUME NEW request PROVE NewCall(request).received = NotYet
  BY DEF NewCall
<1>4. CASE Begin(c)
  BY <1>1, <1>2, <1>3, <1>4 DEF Begin, InOrder
<1>5. CASE TakeTime(c)
  <2>1. call[c] \in Calls /\ UNCHANGED event
    BY <1>1, <1>5 DEF TakeTime
  <2>2. call'[c].received = clock
    BY <1>1, <1>5, <2>1 DEF TakeTime, Calls
  <2> QED
    BY <1>1, <1>2, <2>1, <2>2 DEF InOrder
<1>6. CASE TakeNumber(c)
  <2>1. call[c] \in Calls /\ call[c] # NoCall /\ UNCHANGED event
    BY <1>1, <1>6 DEF TakeNumber
  <2>2. call'[c].received = call[c].received
    BY <1>1, <1>6, <2>1 DEF TakeNumber, Calls
  <2> QED
    BY <1>2, <2>1, <2>2 DEF InOrder
<1>7. CASE Overwrite(c)
  <2>1. event' = call[c] /\ call[c] # NoCall /\ call[c].received # NotYet
    BY <1>7 DEF Overwrite, Put
  <2>2. call'[c] = NoCall \/ call'[c].received = NotYet
    BY <1>1, <1>3, <1>7 DEF Overwrite
  <2> QED
    BY <1>2, <2>1, <2>2 DEF InOrder
<1> QED
  BY <1>4, <1>5, <1>6, <1>7 DEF CallerNext

\* With one caller what is shown is never older than what was shown before: no
\* motion comes back behind a newer command or stop.
THEOREM SnapshotsAreInOrder ==
  ASSUME NEW c \in Callers, Callers = {c}
  PROVE  Spec => [][snapshot'.received >= snapshot.received]_vars
<1>1. Init => InOrder(c)
  BY DEF Init, InOrder, ZeroEvent
<1>2. IndInv /\ InOrder(c) /\ [Next]_vars =>
        /\ InOrder(c)'
        /\ snapshot'.received >= snapshot.received
  <2> SUFFICES ASSUME IndInv, InOrder(c), [Next]_vars
               PROVE  InOrder(c)' /\ snapshot'.received >= snapshot.received
    OBVIOUS
  <2>1. /\ snapshot.received \in Nat /\ active.received \in Nat
        /\ event # NoEvent => event.received \in Nat
        /\ call[c] # NoCall => call[c].received \in Int
    BY DEF IndInv, TypeOK, Snapshots, Events, ZeroEvent, Calls, NotYet
  <2>2. CASE \E d \in Callers : CallerNext(d)
    <3>1. UNCHANGED snapshot
      BY <2>2 DEF CallerNext, Begin, TakeTime, TakeNumber, Overwrite, held
    <3> QED
      BY <2>1, <2>2, <3>1, CallerKeepsOrder
  <2>3. CASE Receive
    BY <2>1, <2>3 DEF Receive, held, InOrder
  <2>4. CASE Evaluate
    BY <2>1, <2>4 DEF Evaluate, InOrder
  <2>5. CASE Tick \/ UNCHANGED vars
    BY <2>1, <2>5 DEF Tick, vars, held, InOrder
  <2> QED
    BY <2>2, <2>3, <2>4, <2>5 DEF Next, TaskNext
<1> QED
  BY <1>1, <1>2, DriveInvariance, PTL DEF Spec
=============================================================================
