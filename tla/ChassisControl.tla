---------------------------- MODULE ChassisControl ----------------------------
(***************************************************************************)
(* The 10 ms chassis control task of robot_chassis_diag.c, the console and *)
(* the remote queue that feed it, and the micro-ROS task at the other end  *)
(* of that queue.                                                          *)
(*                                                                         *)
(* The control task reads the clock once per period (Wake), handles the    *)
(* console lines that have arrived, empties the remote queue one event at  *)
(* a time, reads the encoders, steps the core and sets the motors, and     *)
(* sleeps.  It owns core and the motors; only the queue is shared.  The    *)
(* micro-ROS task runs on either core of the chip, so each of its queue    *)
(* operations interleaves with every step of the control task.             *)
(***************************************************************************)
EXTENDS ChassisCore, Sequences, FiniteSets

CONSTANTS
  QueueLength,   \* REMOTE_QUEUE_LENGTH
  MaxPeriod,     \* bound: the longest time from one Wake to the next
  MaxLines,      \* bound: console lines in one read of at most 32 bytes
  MaxSends,      \* bound: queue sends the micro-ROS task makes in one period
  TwistTargets,  \* the target vectors a /cmd_vel converts to, overflowed or not
  RunTargets,    \* the targets a RUN line can carry
  GainChoices,   \* pairs kp, ki within the limits of the GAIN line
  InitialGains,  \* the pair the task starts with
  Deltas,        \* what a wheel can move in one period
  FailSets,      \* sets of wheels whose driver may fail in one call
  MayFallSilent  \* whether the operator and the Agent can be lost for good

ASSUME ControlAssumption ==
  /\ QueueLength \in Nat \ {0}
  /\ MaxPeriod \in Nat \ {0}
  /\ CommandTimeout + MaxPeriod < ClockMod
  /\ MaxLines \in Nat /\ MaxSends \in Nat
  /\ TwistTargets \subseteq [Wheels -> Int]
  /\ RunTargets \subseteq Int
  /\ GainChoices \subseteq Nat \X Nat
  /\ InitialGains \in Nat \X Nat
  /\ Deltas \subseteq Int
  /\ FailSets \subseteq SUBSET Wheels /\ {} \in FailSets
  /\ MayFallSilent \in BOOLEAN

VARIABLES
  core,      \* s_core
  now,       \* now_ms of the current period
  phase,     \* where the control task is: asleep, reading lines, draining
  lines,     \* console lines handled in this period
  motor,     \* what each motor driver was last told
  stuck,     \* history: wheels whose last driver call failed
  imuPause,  \* a pause request waits in the IMU task's length-one queue
  queue,     \* s_remote_queue
  ros,       \* "stop" between a refused callback and its stop request
  sends,     \* queue sends since the control task last woke
  silent     \* no line and no callback will ever come again

vars == <<core, now, phase, lines, motor, stuck, imuPause, queue, ros, sends,
          silent>>

control == <<core, now, phase, lines, motor, stuck>>
remote == <<queue, ros, sends, silent>>

EventTypes == {"ZERO", "ARM", "STOP", "TARGETS"}
Events == [type : EventTypes, targets : [Wheels -> Int]]
Event(type) == [type |-> type, targets |-> AllZero]

Modes == {"coast", "brake", "forward", "reverse"}

TypeOK ==
  /\ core \in Cores
  /\ now \in Clock
  /\ phase \in {"sleep", "uart", "drain"}
  /\ lines \in 0 .. MaxLines
  /\ motor \in [Wheels -> Modes]
  /\ stuck \subseteq Wheels
  /\ imuPause \in BOOLEAN
  /\ queue \in Seq(Events) /\ Len(queue) <= QueueLength
  /\ ros \in {"idle", "stop"}
  /\ sends \in 0 .. MaxSends
  /\ silent \in BOOLEAN

Init ==
  /\ core = InitialCore(InitialGains[1], InitialGains[2])
  /\ now = 0
  /\ phase = "sleep" /\ lines = 0
  /\ motor = [w \in Wheels |-> "coast"] /\ stuck = {}
  /\ imuPause = FALSE
  /\ queue = <<>> /\ ros = "idle" /\ sends = 0
  /\ silent = FALSE

-----------------------------------------------------------------------------
(* The motor drivers.  A call that fails is logged and leaves its wheel as *)
(* it was.                                                                 *)

Drive(wanted) ==
  \E F \in FailSets :
    /\ motor' = [w \in Wheels |-> IF w \in F THEN motor[w] ELSE wanted[w]]
    /\ stuck' = F

Coast == [w \in Wheels |-> "coast"]
Brake == [w \in Wheels |-> "brake"]

Outputs(c) ==
  [w \in Wheels |-> IF c.state # "ARMED" \/ c.target[w] = 0 \/ c.output[w] = 0
                    THEN "coast"
                    ELSE IF c.output[w] > 0 THEN "forward" ELSE "reverse"]

Powered == {w \in Wheels : motor[w] \in {"forward", "reverse"}}

-----------------------------------------------------------------------------
(* The control task. *)

\* The clock moves on by d since the last period, wrapping like a uint32_t.
Tick(t, d) == IF t + d < ClockMod THEN t + d ELSE t + d - ClockMod

Wake ==
  /\ phase = "sleep"
  /\ phase' = "uart"
  /\ \E d \in 1 .. MaxPeriod : now' = Tick(now, d)
  /\ lines' = 0 /\ sends' = 0
  /\ UNCHANGED <<core, motor, stuck, imuPause, queue, ros, silent>>

\* A console line, read from the characters waiting in the UART.
Line ==
  /\ phase = "uart" /\ lines < MaxLines /\ ~silent
  /\ lines' = lines + 1
  /\ UNCHANGED <<now, phase, queue, ros, sends, silent>>

\* ZERO and STOP are one command on the console.
UartZero ==
  /\ Line
  /\ core' = AcceptZero(core, now) /\ Drive(Coast)
  /\ UNCHANGED imuPause

UartArm ==
  /\ Line
  /\ \E batteryOk \in BOOLEAN : core' = IF batteryOk THEN Arm(core, now) ELSE core
  /\ UNCHANGED <<motor, stuck, imuPause>>

UartClear ==
  /\ Line
  /\ core' = ClearFault(core)
  /\ UNCHANGED <<motor, stuck, imuPause>>

\* The IMU backend refuses the request before it has started and when the
\* duration is out of range.
UartImuPause ==
  /\ Line
  /\ core.state = "DISARMED" /\ core.target = AllZero /\ core.output = AllZero
  /\ Drive(Coast)
  /\ imuPause' \in {imuPause, TRUE}
  /\ UNCHANGED core

UartGain ==
  /\ Line
  /\ \E gains \in GainChoices : core' = UpdateGains(core, gains[1], gains[2])
  /\ UNCHANGED <<motor, stuck, imuPause>>

\* RUN 0 sets all the wheels, RUN n one of them.
RunVector(chosen, t) == [w \in Wheels |-> IF w \in chosen THEN t ELSE 0]

\* Mutant: a rejected vector leaves the motors alone.
SubmitOnly(targets) ==
  /\ \E absWraps \in BOOLEAN : core' = Submit(core, targets, now, absWraps)
  /\ UNCHANGED <<motor, stuck>>

SubmitOrBrake(targets) ==
  \E absWraps \in BOOLEAN :
    /\ core' = Submit(core, targets, now, absWraps)
    /\ IF Accepts(core, targets, absWraps) THEN UNCHANGED <<motor, stuck>>
       ELSE Drive(Brake)

UartRun ==
  /\ Line
  /\ \E chosen \in {Wheels} \cup {{w} : w \in Wheels}, t \in RunTargets :
        SubmitOrBrake(RunVector(chosen, t))
  /\ UNCHANGED imuPause

\* A line that is no command, or longer than the buffer.
UartInvalid ==
  /\ Line
  /\ core' = Stop(core, "INVALID_TARGET") /\ Drive(Brake)
  /\ UNCHANGED imuPause

UartDone ==
  /\ phase = "uart" /\ phase' = "drain"
  /\ UNCHANGED <<core, now, lines, motor, stuck, imuPause, remote>>

HandleEvent(event) ==
  \/ /\ event.type = "ZERO"
     /\ core' = AcceptZero(core, now) /\ Drive(Coast)
  \/ /\ event.type = "ARM"
     /\ \E batteryOk \in BOOLEAN :
           core' = IF batteryOk THEN Arm(core, now) ELSE core
     /\ UNCHANGED <<motor, stuck>>
  \/ /\ event.type = "STOP"
     /\ core' = Stop(core, "EXPLICIT") /\ Drive(Brake)
  \/ /\ event.type = "TARGETS"
     /\ SubmitOrBrake(event.targets)

\* Mutant: one event per period, and xQueueReset for what else has come.
TakeOneOnly(q) == <<>>

\* xQueueReceive takes the event out before it is handled.
TakeFrom(q) == Tail(q)

Receive ==
  /\ phase = "drain" /\ queue # <<>>
  /\ queue' = TakeFrom(queue)
  /\ HandleEvent(Head(queue))
  /\ UNCHANGED <<now, phase, lines, imuPause, ros, sends, silent>>

\* The queue is empty and all the encoders answer.
Sample ==
  /\ phase = "drain" /\ queue = <<>> /\ phase' = "sleep"
  /\ \E delta \in [Wheels -> Deltas] : core' = Step(core, delta, now)
  /\ Drive(IF core'.state = "FAULT_LATCHED" /\ core'.stop_reason = "ENCODER_STALL"
           THEN Brake ELSE Outputs(core'))
  /\ UNCHANGED <<now, lines, imuPause, remote>>

\* An encoder does not answer.
SampleFail ==
  /\ phase = "drain" /\ queue = <<>> /\ phase' = "sleep"
  /\ core' = Stop(core, "ENCODER_STALL") /\ Drive(Brake)
  /\ UNCHANGED <<now, lines, imuPause, remote>>

-----------------------------------------------------------------------------
(* The micro-ROS task.  Its callbacks put events in the queue without      *)
(* waiting; when that fails they ask for a stop, through the same queue.   *)

HasRoom == Len(queue) < QueueLength

Send ==
  /\ ros = "idle" /\ sends < MaxSends
  /\ sends' = sends + 1
  /\ UNCHANGED <<control, imuPause, silent>>

TrySend(event) ==
  IF HasRoom THEN queue' = Append(queue, event) /\ UNCHANGED ros
  ELSE ros' = "stop" /\ UNCHANGED queue

CmdVel ==
  /\ Send /\ ~silent
  /\ \E t \in TwistTargets : TrySend([type |-> "TARGETS", targets |-> t])

\* /robot/command 0 and 1.
Command ==
  /\ Send /\ ~silent
  /\ \E type \in {"ZERO", "ARM"} : TrySend(Event(type))

\* A twist that is refused, another value of /robot/command, the loss of the
\* Agent and a failed start all ask for a stop.
RequestStop ==
  /\ Send
  /\ ros' = "stop" /\ UNCHANGED queue

\* The result of the stop request is ignored.
SendStop ==
  /\ ros = "stop" /\ ros' = "idle"
  /\ queue' = IF HasRoom THEN Append(queue, Event("STOP")) ELSE queue
  /\ UNCHANGED <<control, imuPause, sends, silent>>

FallSilent ==
  /\ MayFallSilent /\ ~silent /\ silent' = TRUE
  /\ UNCHANGED <<control, imuPause, queue, ros, sends>>

\* The IMU task takes the pause request.
ImuTakesPause ==
  /\ imuPause /\ imuPause' = FALSE
  /\ UNCHANGED <<control, remote>>

-----------------------------------------------------------------------------
ConsoleNext ==
  \/ UartZero \/ UartArm \/ UartClear \/ UartImuPause
  \/ UartGain \/ UartRun \/ UartInvalid

PeriodNext == Wake \/ UartDone \/ Receive \/ Sample \/ SampleFail

RemoteNext ==
  \/ CmdVel \/ Command \/ RequestStop \/ SendStop
  \/ FallSilent \/ ImuTakesPause

Next == PeriodNext \/ ConsoleNext \/ RemoteNext

Spec == Init /\ [][Next]_vars

\* The control task is periodic and has the highest priority of the program's
\* tasks.  The motor drivers do not refuse every call for ever.
DriversAnswer == (Sample \/ SampleFail) /\ stuck' = {}

FairSpec == Spec /\ WF_vars(PeriodNext) /\ SF_vars(DriversAnswer)

-----------------------------------------------------------------------------
(* Properties. *)

\* Wheels that are driven, a wheel whose last driver call failed excepted:
\* the task does not retry that call before the next period.
Moving == Powered \ stuck

\* Outside ARMED there is nothing left to act on: no target, no output and no
\* controller memory survives a stop, a timeout, a fault or a disarm.
QuietUnlessArmed ==
  core.state # "ARMED" =>
    /\ core.target = AllZero /\ core.output = AllZero
    /\ core.integral = AllZero /\ core.stall = AllZero

\* The limits the start-up banner announces hold for every wheel at every
\* step: targets, outputs, the integral, and the stall counter below its trip.
HardLimits ==
  \A w \in Wheels :
    /\ Magnitude(core.target[w]) <= MaxTarget
    /\ Magnitude(core.output[w]) <= MaxOutput
    /\ Magnitude(core.integral[w]) <= IntegralLimit
    /\ core.stall[w] < StallSteps

\* No wheel is driven unless the core is ARMED, at any point between two
\* calls; and while the control task sleeps, only a wheel with a target is
\* driven, in the direction of its output.
DrivenOnlyWhenArmed ==
  \A w \in Moving :
    /\ core.state = "ARMED"
    /\ phase = "sleep" =>
         /\ core.target[w] # 0
         /\ motor[w] = IF core.output[w] > 0 THEN "forward" ELSE "reverse"

\* The command an ARMED chassis acts on is no older than the timeout at the
\* end of a period, and at most one period older during it, across the wrap
\* of the clock.
FreshWhileArmed ==
  core.state = "ARMED" =>
    Age(now, core.last_command)
      <= CommandTimeout + (IF phase = "sleep" THEN 0 ELSE MaxPeriod)

\* The state of the permit that the core stands for.
Permit ==
  IF core.state = "ARMED" THEN "granted"
  ELSE IF core.zero_seen THEN "ready" ELSE "locked"

\* Whatever the console and the Agent send, in any order, motion goes through
\* the gate: after a fault, a timeout or new gains, no wheel moves before a
\* ZERO and an ARM.
Gate == INSTANCE MotionGate WITH permit <- Permit, moving <- Moving
GateSpec == Gate!Spec

\* Once the operator and the Agent have fallen silent, every wheel stops and
\* stays stopped, whatever the queue still held.
SilenceStops == silent ~> [](Powered = {})

StopQueued == \E i \in DOMAIN queue : queue[i].type = "STOP"

\* A stop request that is in the queue gets to the motors.
StopServed == StopQueued ~> (Moving = {})

\* While a stop request waits in the queue no wheel starts to be driven,
\* whatever the console accepts and whatever events are ahead of it; and it
\* leaves the queue in no other way than by stopping every wheel.
StopsGoFirst ==
  [][StopQueued => /\ Moving' \subseteq Moving
                   /\ ~StopQueued' => Moving' = {}]_vars

\* A latched fault is not left before a ZERO was seen, as the unit test of
\* robot_chassis_core_clear_fault expects.
FaultWaitsForZero ==
  [][core.state = "FAULT_LATCHED" /\ core'.state # "FAULT_LATCHED"
       => core.zero_seen]_vars

\* The target part of HardLimits, as the banner and the RUN help print it.
TargetLimit == \A w \in Wheels : Magnitude(core.target[w]) <= MaxTarget

\* After a callback of the micro-ROS task has asked for a stop, the newest
\* thing the control task will find is that stop, as in a latest snapshot.
NewestCommandKept ==
  [][ros = "stop" /\ ros' = "idle" =>
       queue' # <<>> /\ queue'[Len(queue')].type = "STOP"]_vars
=============================================================================
