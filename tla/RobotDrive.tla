------------------------------ MODULE RobotDrive ------------------------------
(***************************************************************************)
(* The dry-run drive backend of robot_drive.c: callers put one event at a  *)
(* time in a length-one queue that the newest event overwrites, a periodic *)
(* task turns the event it took last into a snapshot, and readers see the  *)
(* newest whole snapshot.                                                  *)
(*                                                                         *)
(* A call takes its time and its sequence number, in an order the compiler *)
(* chooses, and then overwrites the queue; other callers, the task and the *)
(* clock go on in between.  The task takes an event in one step and reads  *)
(* the clock in the next.                                                  *)
(***************************************************************************)
EXTENDS Integers

CONSTANTS
  Callers,         \* the tasks that call; in the program the micro-ROS task
  Timeout,         \* CONFIG_ROBOT_DRIVE_COMMAND_TIMEOUT_MS, in clock units
  SequenceMod,     \* 2^32 in the code
  MaxPeriod,       \* assumption: longest time between two evaluations
  MaxCalls,        \* bound: the calls that begin
  LastCall,        \* bound: the time by which every call has ended
  MaxTime          \* bound: the end of time

ASSUME DriveAssumption ==
  /\ Timeout \in Nat \ {0}
  /\ SequenceMod \in Nat /\ SequenceMod > 2
  /\ MaxPeriod \in Nat \ {0}
  /\ MaxCalls \in Nat /\ LastCall \in Nat /\ MaxTime \in Nat

VARIABLES
  clock,         \* esp_timer_get_time
  nextSequence,  \* s_next_sequence
  call,          \* the call each caller is in
  calls,         \* how many calls have begun
  event,         \* s_event_queue, NoEvent when it is empty
  task,          \* where the drive task is: about to "receive" or "evaluate"
  active,        \* the event the task took last
  hasActive,     \* has_active_command
  stopReason,    \* stop_reason of the task
  snapshot       \* s_snapshot_queue

held == <<active, hasActive, stopReason>>
vars == <<clock, nextSequence, call, calls, event, task, held, snapshot>>

-----------------------------------------------------------------------------
(* An event is a request with a time and a sequence number.  Requests are  *)
(* told apart by what the task does with them: a command whose wheel       *)
(* targets are finite, one whose targets overflow a float, one that is not *)
(* finite itself, and the two stops the micro-ROS task asks for.           *)

Commands == {"command", "overflowing", "nonfinite"}
Stops == {"INVALID_COMMAND", "EXTERNAL_REQUEST"}
Requests == Commands \cup Stops

Reasons == {"NONE", "STARTUP", "COMMAND_TIMEOUT", "CORE_ERROR"} \cup Stops

\* Stands for a time or a number that the call has not taken yet.
NotYet == -1
Sequences == 0 .. SequenceMod - 1
Events == [request : Requests, received : Nat, sequence : Sequences \ {0}]
NoEvent == [request |-> "none"]
Calls ==
  [request : Requests, received : Nat \cup {NotYet},
   sequence : (Sequences \ {0}) \cup {NotYet}]
NoCall == [request |-> "none"]

\* What the task starts with: the all-zero event.
ZeroEvent == [request |-> "command", received |-> 0, sequence |-> 0]

Snapshots ==
  [received : Nat, evaluated : Nat, sequence : Sequences,
   reason : Reasons, stopped : BOOLEAN]

TypeOK ==
  /\ clock \in Nat
  /\ nextSequence \in Sequences
  /\ call \in [Callers -> Calls \cup {NoCall}]
  /\ calls \in 0 .. MaxCalls
  /\ event \in Events \cup {NoEvent}
  /\ task \in {"receive", "evaluate"}
  /\ active \in Events \cup {ZeroEvent}
  /\ hasActive \in BOOLEAN
  /\ stopReason \in Reasons
  /\ snapshot \in Snapshots

Init ==
  /\ clock = 0
  /\ nextSequence = 0
  /\ call = [c \in Callers |-> NoCall] /\ calls = 0
  /\ event = NoEvent
  /\ task = "receive"
  /\ active = ZeroEvent
  /\ hasActive = FALSE
  /\ stopReason = "STARTUP"
  /\ snapshot = [received |-> 0, evaluated |-> 0, sequence |-> 0,
                 reason |-> "STARTUP", stopped |-> TRUE]

-----------------------------------------------------------------------------
(* Callers: robot_drive_submit_cmd_vel and robot_drive_request_stop. *)

\* Mutant: the wrap goes through zero.
SuccessorThroughZero(n) == (n + 1) % SequenceMod

\* The increment skips zero when it wraps.
Successor(n) == IF n + 1 = SequenceMod THEN 1 ELSE n + 1

NewCall(request) ==
  [request |-> request, received |-> NotYet, sequence |-> NotYet]

Begin(c) ==
  /\ call[c] = NoCall /\ clock <= LastCall /\ calls < MaxCalls
  /\ calls' = calls + 1
  /\ \E request \in Requests : call' = [call EXCEPT ![c] = NewCall(request)]
  /\ UNCHANGED <<clock, nextSequence, event, task, held, snapshot>>

TakeTime(c) ==
  /\ call[c] # NoCall /\ call[c].received = NotYet
  /\ call' = [call EXCEPT ![c].received = clock]
  /\ UNCHANGED <<clock, nextSequence, calls, event, task, held, snapshot>>

TakeNumber(c) ==
  /\ call[c] # NoCall /\ call[c].sequence = NotYet
  /\ nextSequence' = Successor(nextSequence)
  /\ call' = [call EXCEPT ![c].sequence = nextSequence']
  /\ UNCHANGED <<clock, calls, event, task, held, snapshot>>

\* xQueueOverwrite.
Put(e) == event' = e

\* The overwrite ends the call.  For a command that is not finite submit
\* returns false, and the callback asks for a stop at once.
Overwrite(c) ==
  /\ call[c] # NoCall /\ NotYet \notin {call[c].received, call[c].sequence}
  /\ Put(call[c])
  /\ call' = [call EXCEPT ![c] = IF call[c].request = "nonfinite"
                                 THEN NewCall("EXTERNAL_REQUEST") ELSE NoCall]
  /\ UNCHANGED <<clock, nextSequence, calls, task, held, snapshot>>

-----------------------------------------------------------------------------
(* The drive task. *)

\* Mutant: an event that is no valid command leaves the command active.
ActivatesOrKeeps(request) == hasActive \/ request \in {"command", "overflowing"}

\* A command that is finite becomes the active command, any other event ends it.
Activates(request) == request \in {"command", "overflowing"}

ReasonOf(request) ==
  IF Activates(request) THEN "NONE"
  ELSE IF request \in Stops THEN request ELSE "INVALID_COMMAND"

Receive ==
  /\ task = "receive" /\ task' = "evaluate"
  /\ IF event = NoEvent THEN UNCHANGED <<event, held>>
     ELSE /\ event' = NoEvent
          /\ active' = event
          /\ hasActive' = Activates(event.request)
          /\ stopReason' = ReasonOf(event.request)
  /\ UNCHANGED <<clock, nextSequence, call, calls, snapshot>>

\* Mutant: the time of the evaluation before.
StaleTime == snapshot.evaluated

\* now_us, read after the event was taken.
EvaluationTime == clock

\* Mutant: a late command is reported, and driven once more.
VerdictOneLate(e, t) ==
  IF t - e.received < 0 THEN "CORE_ERROR"
  ELSE IF t - e.received > Timeout + 1 THEN "COMMAND_TIMEOUT"
  ELSE IF e.request = "overflowing" THEN "CORE_ERROR" ELSE "NONE"

\* Mutant: a command is driven until another one comes.
VerdictForEver(e, t) ==
  IF t - e.received < 0 \/ e.request = "overflowing" THEN "CORE_ERROR" ELSE "NONE"

\* Whether the active command may drive at time t, or why not.
Verdict(e, t) ==
  IF t - e.received < 0 THEN "CORE_ERROR"
  ELSE IF t - e.received > Timeout THEN "COMMAND_TIMEOUT"
  ELSE IF e.request = "overflowing" THEN "CORE_ERROR" ELSE "NONE"

Evaluate ==
  /\ task = "evaluate" /\ task' = "receive"
  /\ stopReason' = IF hasActive THEN Verdict(active, EvaluationTime) ELSE stopReason
  /\ hasActive' = (hasActive /\ stopReason' = "NONE")
  /\ snapshot' = [received |-> active.received, evaluated |-> EvaluationTime,
                  sequence |-> active.sequence, reason |-> stopReason',
                  stopped |-> ~hasActive']
  /\ UNCHANGED <<clock, nextSequence, call, calls, event, active>>

\* Time passes, but the task evaluates at least once in every MaxPeriod, and
\* no call is still under way after LastCall.
Tick ==
  /\ clock < MaxTime /\ clock < snapshot.evaluated + MaxPeriod
  /\ clock < LastCall \/ \A c \in Callers : call[c] = NoCall
  /\ clock' = clock + 1
  /\ UNCHANGED <<nextSequence, call, calls, event, task, held, snapshot>>

-----------------------------------------------------------------------------
CallerNext(c) == Begin(c) \/ TakeTime(c) \/ TakeNumber(c) \/ Overwrite(c)
TaskNext == Receive \/ Evaluate

Next == (\E c \in Callers : CallerNext(c)) \/ TaskNext \/ Tick

Spec == Init /\ [][Next]_vars

\* The drive task is periodic, and a call ends unless its task is starved.
FairSpec ==
  /\ Spec
  /\ WF_vars(TaskNext)
  /\ WF_vars(Tick)
  /\ \A c \in Callers : WF_vars(TakeTime(c) \/ TakeNumber(c) \/ Overwrite(c))

-----------------------------------------------------------------------------
(* Properties. *)

\* A reader that sees motion sees a command that was within its timeout when
\* it was evaluated, and that is at most one period older by now.
MotionIsFresh ==
  ~snapshot.stopped =>
    /\ snapshot.received <= snapshot.evaluated
    /\ snapshot.evaluated <= snapshot.received + Timeout
    /\ clock <= snapshot.received + Timeout + MaxPeriod

\* The task never sees a command from its own future: a CORE_ERROR means a
\* command that overflows, never a clock that was read too early.
NoFutureCommand ==
  stopReason = "CORE_ERROR" => active.request = "overflowing"

\* Motion always carries the number of a command; zero is kept for none.
MotionHasNumber == ~snapshot.stopped => snapshot.sequence # 0

\* What the task has just evaluated moves only if the newest event it took is
\* a finite command: a stop or a refused command ends the motion before it.
OnlyCommandsMove ==
  task = "receive" /\ ~snapshot.stopped => active.request = "command"

\* However many callers interleave, the backend keeps the promise of DeadMan: an
\* event is taken once, a stop holds until another command is sent, and motion
\* is shown for the command taken last and no longer than for its time.
ShownMotion ==
  IF snapshot.stopped THEN NoEvent
  ELSE [received |-> snapshot.received, sequence |-> snapshot.sequence]
Switch ==
  INSTANCE DeadMan WITH
    waiting <- event, held <- IF hasActive THEN active ELSE NoEvent,
    shown <- ShownMotion, Accepted <- {"command", "overflowing"},
    Drivable <- {"command"}, Delay <- MaxPeriod, None <- NoEvent
DeadManSpec == Switch!Spec

\* With one caller, whenever no call is under way and the queue is empty, the
\* snapshot answers the newest call; and by a number of zero it says that there
\* was none, although the numbers wrap.
NewestIsShown ==
  /\ \A c \in Callers : call[c] = NoCall
  /\ event = NoEvent /\ task = "receive"
  => /\ snapshot.sequence = nextSequence
     /\ snapshot.sequence = 0 <=> calls = 0

\* Silence ends in a stopped snapshot that stays.
SilenceStops == (clock > LastCall) ~> []snapshot.stopped
=============================================================================
