------------------------- MODULE ChassisControlProofs -------------------------
(***************************************************************************)
(* Proofs about the chassis control task, for every number of wheels,      *)
(* every queue length, every set of commands and driver failures, and      *)
(* every clock that is longer than the timeout and one period together.    *)
(*                                                                         *)
(* A handler is what one console line or one remote event does to the core *)
(* and the motors.  Four of them are shared by the console and the queue,  *)
(* so each gets one lemma, and the invariants follow from what handlers    *)
(* have in common (HandlerOK).                                             *)
(*                                                                         *)
(* The last part is about the control task under a session that comes and  *)
(* goes (ChassisSystem), whose steps are steps of the control task.        *)
(***************************************************************************)
EXTENDS ChassisSystem, ChassisCoreProofs

-----------------------------------------------------------------------------
(* The clock. *)

\* A stamp taken now is zero old.
LEMMA AgeOfNow ==
  ASSUME NEW t \in Clock PROVE Age(t, t) = 0
  BY DEF Age, Clock

\* One more period makes a fresh stamp at most one period older, across the
\* wrap: the clock is too long for the age to come round to zero.
LEMMA TickAge ==
  ASSUME NEW t \in Clock, NEW last \in Clock, NEW d \in 1 .. MaxPeriod,
         Age(t, last) <= CommandTimeout
  PROVE  /\ Tick(t, d) \in Clock
         /\ Age(Tick(t, d), last) <= CommandTimeout + MaxPeriod
  BY CoreAssumption, ControlAssumption DEF Tick, Age, Clock

\* The clock stays a clock.
LEMMA TickType ==
  ASSUME NEW t \in Clock, NEW d \in 1 .. MaxPeriod
  PROVE  Tick(t, d) \in Clock
  BY CoreAssumption, ControlAssumption DEF Tick, Clock

-----------------------------------------------------------------------------
(* The motors. *)

MotorsOK == motor \in [Wheels -> Modes] /\ stuck \subseteq Wheels

\* A driver call sets every wheel but those it reports as failed.
LEMMA DriveFacts ==
  ASSUME MotorsOK, NEW wanted \in [Wheels -> Modes], Drive(wanted)
  PROVE  MotorsOK' /\ \A w \in Wheels \ stuck' : motor'[w] = wanted[w]
<1>1. PICK F \in FailSets :
        /\ motor' = [w \in Wheels |-> IF w \in F THEN motor[w] ELSE wanted[w]]
        /\ stuck' = F
  BY DEF Drive
<1>2. F \subseteq Wheels
  BY ControlAssumption
<1> QED
  BY <1>1, <1>2 DEF MotorsOK

\* A call that coasts or brakes every wheel leaves none moving.
LEMMA DriveStops ==
  ASSUME MotorsOK, Drive(Coast) \/ Drive(Brake)
  PROVE  MotorsOK' /\ Moving' = {}
<1>1. Coast \in [Wheels -> Modes] /\ Brake \in [Wheels -> Modes]
  BY DEF Coast, Brake, Modes
<1>2. MotorsOK' /\ \A w \in Wheels \ stuck' : motor'[w] \in {"coast", "brake"}
  BY <1>1, DriveFacts DEF Coast, Brake
<1> QED
  BY <1>2 DEF Moving, Powered

-----------------------------------------------------------------------------
(* Handlers. *)

\* No wheel moves outside ARMED.
StillUnlessArmed == Moving # {} => core.state = "ARMED"

Settled == core \in Cores /\ Quiet(core) /\ MotorsOK /\ StillUnlessArmed

GateStep == [Gate!Next]_<<Permit, Moving>>

\* What every handler preserves, and the step of the gate it is: an ARMED core
\* was ARMED and kept its stamp, or has the stamp of this period.
HandlerOK ==
  /\ Settled'
  /\ core'.state = "ARMED" =>
       \/ core'.last_command = now
       \/ core.state = "ARMED" /\ core'.last_command = core.last_command
  /\ GateStep

\* A core that is not ARMED and has no wheel moving permits no more than it
\* did before: a ZERO makes it ready, anything else locks it.
LEMMA StoppedIsGateStep ==
  ASSUME core'.state # "ARMED", Moving' = {}
  PROVE  GateStep
  BY DEF GateStep, Permit, Gate!Next, Gate!MakeReady, Gate!Trip

\* ZERO, from the console or the queue.
LEMMA ZeroHandler ==
  ASSUME Settled, now \in Clock, core' = AcceptZero(core, now), Drive(Coast)
  PROVE  HandlerOK
<1>1. MotorsOK' /\ Moving' = {}
  BY DriveStops DEF Settled
<1>2. core' \in Cores /\ Quiet(core') /\ core'.state # "ARMED"
  BY AcceptZeroFacts DEF Settled
<1>3. Settled'
  BY <1>1, <1>2 DEF Settled, StillUnlessArmed, Quiet
<1> QED
  BY <1>1, <1>2, <1>3, StoppedIsGateStep DEF HandlerOK

\* A stop for any reason that brakes: a remote STOP, an invalid line, an
\* encoder that does not answer.
LEMMA StopHandler ==
  ASSUME Settled, NEW reason \in StopReasons,
         core' = Stop(core, reason), Drive(Brake)
  PROVE  HandlerOK
<1>1. MotorsOK' /\ Moving' = {}
  BY DriveStops DEF Settled
<1>2. core' \in Cores /\ Quiet(core') /\ core'.state # "ARMED"
  BY StopFacts DEF Settled
<1>3. Settled'
  BY <1>1, <1>2 DEF Settled, StillUnlessArmed, Quiet
<1> QED
  BY <1>1, <1>2, <1>3, StoppedIsGateStep DEF HandlerOK

\* A handler that changes nothing at all.
LEMMA IdleHandler ==
  ASSUME Settled, UNCHANGED <<core, motor, stuck>>
  PROVE  HandlerOK
<1>1. Permit' = Permit /\ Moving' = Moving
  BY DEF Permit, Moving, Powered
<1>2. Settled'
  BY DEF Settled, StillUnlessArmed, Quiet, MotorsOK, Moving, Powered
<1> QED
  BY <1>1, <1>2 DEF HandlerOK, GateStep

\* ARM, with or without a battery in range.
LEMMA ArmHandler ==
  ASSUME Settled, now \in Clock, NEW batteryOk \in BOOLEAN,
         core' = IF batteryOk THEN Arm(core, now) ELSE core,
         UNCHANGED <<motor, stuck>>
  PROVE  HandlerOK
<1>1. CASE core' = core
  BY <1>1, IdleHandler
<1>2. CASE core' # core
  <2>1. core' = Arm(core, now)
    BY <1>2
  <2>2. /\ core' \in Cores /\ Quiet(core')
        /\ core.state # "ARMED" /\ core.zero_seen
        /\ core'.state = "ARMED" /\ core'.last_command = now
    BY <1>2, <2>1, ArmFacts DEF Settled
  <2>3. Moving = {} /\ Moving' = {}
    BY <2>2 DEF Settled, StillUnlessArmed, Moving, Powered
  <2>4. Settled'
    BY <2>2, <2>3 DEF Settled, StillUnlessArmed, Quiet, MotorsOK
  <2>5. GateStep
    BY <2>2, <2>3 DEF GateStep, Permit, Gate!Next, Gate!Grant
  <2> QED
    BY <2>2, <2>4, <2>5 DEF HandlerOK
<1> QED
  BY <1>1, <1>2

\* Targets, from a RUN line or a twist.
LEMMA SubmitHandler ==
  ASSUME Settled, now \in Clock, NEW targets \in [Wheels -> Int],
         SubmitOrBrake(targets)
  PROVE  HandlerOK
<1>1. PICK absWraps \in BOOLEAN :
        /\ core' = Submit(core, targets, now, absWraps)
        /\ IF Accepts(core, targets, absWraps) THEN UNCHANGED <<motor, stuck>>
           ELSE Drive(Brake)
  BY DEF SubmitOrBrake
<1>2. core' \in Cores /\ Quiet(core')
  BY <1>1, SubmitFacts DEF Settled
<1>3. CASE Accepts(core, targets, absWraps)
  <2>1. /\ core.state = "ARMED" /\ core'.state = "ARMED"
        /\ core'.last_command = now
    BY <1>1, <1>3, SubmitFacts DEF Settled
  <2>2. Moving' = Moving /\ Moving \subseteq Wheels /\ MotorsOK'
    BY <1>1, <1>3 DEF Moving, Powered, MotorsOK, Settled
  <2>3. Settled'
    BY <1>2, <2>1, <2>2 DEF Settled, StillUnlessArmed, Quiet
  <2>4. GateStep
    BY <2>1, <2>2 DEF GateStep, Permit, Gate!Next, Gate!Drive
  <2> QED
    BY <2>1, <2>3, <2>4 DEF HandlerOK
<1>4. CASE ~Accepts(core, targets, absWraps)
  <2>1. core'.state # "ARMED"
    BY <1>1, <1>4, SubmitFacts DEF Settled
  <2>2. MotorsOK' /\ Moving' = {}
    BY <1>1, <1>4, DriveStops DEF Settled
  <2>3. Settled'
    BY <1>2, <2>1, <2>2 DEF Settled, StillUnlessArmed, Quiet
  <2> QED
    BY <2>1, <2>2, <2>3, StoppedIsGateStep DEF HandlerOK
<1> QED
  BY <1>3, <1>4

\* CLEAR.
LEMMA ClearHandler ==
  ASSUME Settled, core' = ClearFault(core), UNCHANGED <<motor, stuck>>
  PROVE  HandlerOK
<1>1. CASE core' = core
  BY <1>1, IdleHandler
<1>2. CASE core' # core
  <2>1. /\ core' \in Cores /\ Quiet(core')
        /\ core.state # "ARMED" /\ core'.state # "ARMED"
    BY <1>2, ClearFaultFacts DEF Settled
  <2>2. Moving' = {} /\ MotorsOK'
    BY <2>1 DEF Settled, StillUnlessArmed, Moving, Powered, MotorsOK
  <2>3. Settled'
    BY <2>1, <2>2 DEF Settled, StillUnlessArmed, Quiet
  <2> QED
    BY <2>1, <2>2, <2>3, StoppedIsGateStep DEF HandlerOK
<1> QED
  BY <1>1, <1>2

\* GAIN.
LEMMA GainHandler ==
  ASSUME Settled, NEW kp \in Nat, NEW ki \in Nat,
         core' = UpdateGains(core, kp, ki), UNCHANGED <<motor, stuck>>
  PROVE  HandlerOK
<1>1. CASE core' = core
  BY <1>1, IdleHandler
<1>2. CASE core' # core
  <2>1. /\ core' \in Cores /\ Quiet(core')
        /\ core.state # "ARMED" /\ core'.state # "ARMED"
    BY <1>2, UpdateGainsFacts DEF Settled
  <2>2. Moving' = {} /\ MotorsOK'
    BY <2>1 DEF Settled, StillUnlessArmed, Moving, Powered, MotorsOK
  <2>3. Settled'
    BY <2>1, <2>2 DEF Settled, StillUnlessArmed, Quiet
  <2> QED
    BY <2>1, <2>2, <2>3, StoppedIsGateStep DEF HandlerOK
<1> QED
  BY <1>1, <1>2

-----------------------------------------------------------------------------
(* The inductive invariant. *)

\* The four properties hold each other up: a wheel is still outside ARMED
\* only if the core is quiet there, and the core only stays fresh if its
\* stamps and the clock have their types.
IndInv == TypeOK /\ QuietUnlessArmed /\ DrivenOnlyWhenArmed /\ FreshWhileArmed

\* The invariant gives a handler what it relies on.
LEMMA IndInvSettled ==
  ASSUME IndInv PROVE Settled /\ now \in Clock
  BY DEF IndInv, TypeOK, QuietUnlessArmed, DrivenOnlyWhenArmed, Settled, Quiet,
         MotorsOK, StillUnlessArmed

\* A handler, which runs while the control task is awake, keeps the invariant.
LEMMA HandlerKeepsSafe ==
  ASSUME IndInv, HandlerOK, phase \in {"uart", "drain"},
         UNCHANGED <<phase, now>>
  PROVE  QuietUnlessArmed' /\ DrivenOnlyWhenArmed' /\ FreshWhileArmed'
<1>1. QuietUnlessArmed' /\ DrivenOnlyWhenArmed'
  BY DEF HandlerOK, Settled, Quiet, StillUnlessArmed, QuietUnlessArmed,
         DrivenOnlyWhenArmed
<1>2. FreshWhileArmed'
  <2> SUFFICES ASSUME core'.state = "ARMED"
               PROVE  Age(now, core'.last_command) <= CommandTimeout + MaxPeriod
    BY DEF FreshWhileArmed
  <2>1. CASE core'.last_command = now
    <3>1. now \in Clock
      BY DEF IndInv, TypeOK
    <3>2. Age(now, core'.last_command) = 0
      BY <2>1, <3>1, AgeOfNow
    <3> QED
      BY <3>2, CoreAssumption, ControlAssumption
  <2>2. CASE core.state = "ARMED" /\ core'.last_command = core.last_command
    BY <2>2 DEF IndInv, FreshWhileArmed
  <2> QED
    BY <2>1, <2>2 DEF HandlerOK
<1> QED
  BY <1>1, <1>2

\* Every vector a RUN line stands for is a vector of integers.
LEMMA RunVectorType ==
  ASSUME NEW chosen, NEW t \in RunTargets
  PROVE  RunVector(chosen, t) \in [Wheels -> Int]
  BY ControlAssumption DEF RunVector

\* What a console line does is a handler.
LEMMA ConsoleHandler ==
  ASSUME IndInv, ConsoleNext
  PROVE  HandlerOK /\ phase = "uart" /\ UNCHANGED <<phase, now>>
<1>0. Settled /\ now \in Clock
  BY IndInvSettled
<1>1. CASE UartZero
  BY <1>0, <1>1, ZeroHandler DEF UartZero, Line
<1>2. CASE UartArm
  BY <1>0, <1>2, ArmHandler DEF UartArm, Line
<1>3. CASE UartClear
  BY <1>0, <1>3, ClearHandler DEF UartClear, Line
<1>4. CASE UartImuPause
  <2>1. core' = core /\ core.state # "ARMED" /\ Drive(Coast)
    BY <1>4 DEF UartImuPause
  <2>2. MotorsOK' /\ Moving' = {}
    BY <1>0, <2>1, DriveStops DEF Settled
  <2>3. Settled'
    BY <1>0, <2>1, <2>2 DEF Settled, StillUnlessArmed, Quiet
  <2>4. HandlerOK
    BY <2>1, <2>2, <2>3, StoppedIsGateStep DEF HandlerOK
  <2> QED
    BY <1>4, <2>4 DEF UartImuPause, Line
<1>5. CASE UartGain
  <2>1. PICK gains \in GainChoices : core' = UpdateGains(core, gains[1], gains[2])
    BY <1>5 DEF UartGain
  <2>2. gains[1] \in Nat /\ gains[2] \in Nat
    BY ControlAssumption
  <2> QED
    BY <1>0, <1>5, <2>1, <2>2, GainHandler DEF UartGain, Line
<1>6. CASE UartRun
  <2>1. PICK chosen \in {Wheels} \cup {{w} : w \in Wheels}, t \in RunTargets :
          SubmitOrBrake(RunVector(chosen, t))
    BY <1>6 DEF UartRun
  <2> QED
    BY <1>0, <1>6, <2>1, RunVectorType, SubmitHandler DEF UartRun, Line
<1>7. CASE UartInvalid
  <2>1. "INVALID_TARGET" \in StopReasons
    BY DEF StopReasons, FaultReasons
  <2> QED
    BY <1>0, <1>7, <2>1, StopHandler DEF UartInvalid, Line
<1> QED
  BY <1>1, <1>2, <1>3, <1>4, <1>5, <1>6, <1>7 DEF ConsoleNext

\* What an event from the queue does is a handler.
LEMMA EventHandler ==
  ASSUME Settled, now \in Clock, NEW event \in Events, HandleEvent(event)
  PROVE  HandlerOK
<1>1. CASE event.type = "ZERO"
  BY <1>1, ZeroHandler DEF HandleEvent
<1>2. CASE event.type = "ARM"
  BY <1>2, ArmHandler DEF HandleEvent
<1>3. CASE event.type = "STOP"
  <2>1. "EXPLICIT" \in StopReasons
    BY DEF StopReasons
  <2> QED
    BY <1>3, <2>1, StopHandler DEF HandleEvent
<1>4. CASE event.type = "TARGETS"
  BY <1>4, SubmitHandler DEF HandleEvent, Events
<1> QED
  BY <1>1, <1>2, <1>3, <1>4 DEF Events, EventTypes

\* Taking an event from the remote queue is a handler.
LEMMA ReceiveHandler ==
  ASSUME IndInv, Receive
  PROVE  HandlerOK /\ phase = "drain" /\ UNCHANGED <<phase, now>>
<1>1. Settled /\ now \in Clock
  BY IndInvSettled
<1>2. HandleEvent(Head(queue)) /\ phase = "drain" /\ UNCHANGED <<phase, now>>
  BY DEF Receive
<1>3. Head(queue) \in Events
  BY DEF Receive, IndInv, TypeOK
<1> QED
  BY <1>1, <1>2, <1>3, EventHandler

\* apply_outputs drives a wheel only in ARMED, with a target, in the direction
\* of its output.
LEMMA OutputsFacts ==
  ASSUME NEW c \in Cores
  PROVE  /\ Outputs(c) \in [Wheels -> Modes]
         /\ \A w \in Wheels : Outputs(c)[w] # "coast" =>
              /\ c.state = "ARMED" /\ c.target[w] # 0
              /\ Outputs(c)[w] = IF c.output[w] > 0 THEN "forward" ELSE "reverse"
  BY DEF Outputs, Modes

\* The step of the controller, with the outputs or the brake after it.
LEMMA SampleKeepsSafe ==
  ASSUME IndInv, Sample
  PROVE  /\ core' \in Cores /\ MotorsOK' /\ QuietUnlessArmed'
         /\ DrivenOnlyWhenArmed' /\ FreshWhileArmed' /\ GateStep
<1> DEFINE wanted ==
             IF core'.state = "FAULT_LATCHED" /\ core'.stop_reason = "ENCODER_STALL"
             THEN Brake ELSE Outputs(core')
<1>1. /\ phase' = "sleep" /\ now' = now /\ Drive(wanted)
      /\ \E delta \in [Wheels -> Deltas] : core' = Step(core, delta, now)
  BY DEF Sample
<1>2. Settled /\ now \in Clock
  BY IndInvSettled
<1>3. PICK delta \in [Wheels -> Int] : core' = Step(core, delta, now)
  BY <1>1, ControlAssumption
<1>4. /\ core' \in Cores /\ Quiet(core')
      /\ core'.state = "ARMED" =>
           /\ core.state = "ARMED" /\ core'.last_command = core.last_command
           /\ ~TimedOut(core, now)
  BY <1>2, <1>3, StepFacts DEF Settled
<1>5. wanted \in [Wheels -> Modes]
  BY <1>4, OutputsFacts DEF Brake, Modes
<1>6. MotorsOK' /\ \A w \in Wheels \ stuck' : motor'[w] = wanted[w]
  BY <1>1, <1>2, <1>5, DriveFacts DEF Settled
<1>7. QuietUnlessArmed'
  BY <1>4 DEF Quiet, QuietUnlessArmed
<1>8. DrivenOnlyWhenArmed'
  <2> SUFFICES ASSUME NEW w \in Moving'
               PROVE  /\ core'.state = "ARMED" /\ core'.target[w] # 0
                      /\ motor'[w] = IF core'.output[w] > 0 THEN "forward"
                                     ELSE "reverse"
    BY DEF DrivenOnlyWhenArmed
  <2>1. /\ w \in Wheels \ stuck' /\ motor'[w] = wanted[w]
        /\ motor'[w] # "coast" /\ motor'[w] # "brake"
    BY <1>6 DEF Moving, Powered
  <2>2. wanted = Outputs(core')
    BY <2>1 DEF Brake
  <2> QED
    BY <1>4, <2>1, <2>2, OutputsFacts
<1>9. FreshWhileArmed'
  <2> SUFFICES ASSUME core'.state = "ARMED"
               PROVE  Age(now, core'.last_command) <= CommandTimeout
    BY <1>1, CoreAssumption DEF FreshWhileArmed
  <2>1. core'.last_command = core.last_command /\ ~TimedOut(core, now)
    BY <1>4
  <2>2. core.last_command \in Clock
    BY <1>2 DEF Settled, Cores
  <2>3. Age(now, core.last_command) \in Int
    BY <1>2, <2>2, CoreAssumption DEF Age, Clock
  <2> QED
    BY <2>1, <2>3, CoreAssumption DEF TimedOut
<1>10. GateStep
  <2>1. CASE core'.state = "ARMED"
    <3>1. Permit = "granted" /\ Permit' = "granted" /\ Moving' \subseteq Wheels
      BY <1>4, <2>1 DEF Permit, Moving, Powered
    <3> QED
      BY <3>1 DEF GateStep, Gate!Next, Gate!Drive
  <2>2. CASE core'.state # "ARMED"
    <3>1. Moving' = {}
      BY <1>8, <2>2 DEF DrivenOnlyWhenArmed
    <3> QED
      BY <2>2, <3>1, StoppedIsGateStep
  <2> QED
    BY <2>1, <2>2
<1> QED
  BY <1>4, <1>6, <1>7, <1>8, <1>9, <1>10

\* A failed encoder read stops and brakes.
LEMMA SampleFailKeepsSafe ==
  ASSUME IndInv, SampleFail
  PROVE  /\ core' \in Cores /\ MotorsOK' /\ QuietUnlessArmed'
         /\ DrivenOnlyWhenArmed' /\ FreshWhileArmed' /\ GateStep
<1>1. /\ core' = Stop(core, "ENCODER_STALL") /\ Drive(Brake)
      /\ "ENCODER_STALL" \in StopReasons
  BY DEF SampleFail, StopReasons, FaultReasons
<1>2. core' \in Cores /\ Quiet(core') /\ core'.state # "ARMED"
  BY <1>1, IndInvSettled, StopFacts DEF Settled
<1>3. MotorsOK' /\ Moving' = {}
  BY <1>1, IndInvSettled, DriveStops DEF Settled
<1> QED
  BY <1>2, <1>3, StoppedIsGateStep
  DEF Quiet, QuietUnlessArmed, DrivenOnlyWhenArmed, FreshWhileArmed

-----------------------------------------------------------------------------
(* Initiation and consecution. *)

\* robot_chassis_diag_start leaves a state of the invariant.
LEMMA InitEstablishes == Init => IndInv
<1> SUFFICES ASSUME Init PROVE IndInv
  OBVIOUS
<1>1. InitialGains[1] \in Nat /\ InitialGains[2] \in Nat
  BY ControlAssumption
<1>2. core \in Cores /\ Quiet(core) /\ core.state = "DISARMED"
  BY <1>1, InitialCoreFacts DEF Init
<1>3. TypeOK
  <2>1. /\ now = 0 /\ phase = "sleep" /\ lines = 0 /\ imuPause = FALSE
        /\ motor = [w \in Wheels |-> "coast"] /\ stuck = {}
        /\ queue = <<>> /\ ros = "idle" /\ sends = 0 /\ silent = FALSE
    BY DEF Init
  <2>2. now \in Clock /\ lines \in 0 .. MaxLines /\ sends \in 0 .. MaxSends
    BY <2>1, CoreAssumption, ControlAssumption DEF Clock
  <2>3. queue \in Seq(Events) /\ Len(queue) <= QueueLength
    BY <2>1, ControlAssumption
  <2>4. motor \in [Wheels -> Modes]
    BY <2>1 DEF Modes
  <2> QED
    BY <1>2, <2>1, <2>2, <2>3, <2>4 DEF TypeOK
<1>4. Moving = {}
  BY DEF Init, Moving, Powered
<1> QED
  BY <1>2, <1>3, <1>4
  DEF IndInv, QuietUnlessArmed, Quiet, DrivenOnlyWhenArmed, FreshWhileArmed

\* The parts of the type invariant that belong to the two tasks.
RemoteOK ==
  /\ queue \in Seq(Events) /\ Len(queue) <= QueueLength
  /\ ros \in {"idle", "stop"}
  /\ sends \in 0 .. MaxSends
  /\ silent \in BOOLEAN

ControlOK ==
  /\ now \in Clock
  /\ phase \in {"sleep", "uart", "drain"}
  /\ lines \in 0 .. MaxLines
  /\ imuPause \in BOOLEAN

\* The type invariant, by who owns the variables.
LEMMA TypeParts ==
  TypeOK <=> core \in Cores /\ MotorsOK /\ ControlOK /\ RemoteOK
  BY DEF TypeOK, MotorsOK, ControlOK, RemoteOK

\* Every event a callback builds is an event.
LEMMA EventType ==
  ASSUME NEW type \in EventTypes PROVE Event(type) \in Events
  BY AllZeroFacts DEF Event, Events

\* A send that finds room lengthens the queue by one event of its type, and a
\* send that finds none leaves it.
LEMMA TrySendType ==
  ASSUME RemoteOK, NEW event \in Events, TrySend(event)
  PROVE  /\ queue' \in Seq(Events) /\ Len(queue') <= QueueLength
         /\ ros' \in {"idle", "stop"}
<1>1. CASE HasRoom
  <2>1. queue' = Append(queue, event) /\ ros' = ros
    BY <1>1 DEF TrySend
  <2>2. queue \in Seq(Events) /\ Len(queue) < QueueLength
    BY <1>1 DEF RemoteOK, HasRoom
  <2>3. queue' \in Seq(Events) /\ Len(queue') = Len(queue) + 1
    BY <2>1, <2>2
  <2>4. Len(queue') <= QueueLength
    BY <2>2, <2>3, ControlAssumption
  <2> QED
    BY <2>1, <2>3, <2>4 DEF RemoteOK
<1>2. CASE ~HasRoom
  BY <1>2 DEF TrySend, RemoteOK
<1> QED
  BY <1>1, <1>2

\* What the micro-ROS task and the IMU task do, the control task does not see
\* before it reads its queue.
LEMMA RemoteKeeps ==
  ASSUME IndInv, RemoteNext
  PROVE  IndInv' /\ GateStep
<1>1. RemoteOK /\ ControlOK
  BY TypeParts DEF IndInv
<1>2. UNCHANGED control
  BY DEF RemoteNext, CmdVel, Command, RequestStop, SendStop, FallSilent,
         ImuTakesPause, Send
<1>3. RemoteOK' /\ imuPause' \in BOOLEAN
  <2>1. CASE CmdVel
    <3>1. PICK t \in TwistTargets : TrySend([type |-> "TARGETS", targets |-> t])
      BY <2>1 DEF CmdVel
    <3>2. [type |-> "TARGETS", targets |-> t] \in Events
      BY ControlAssumption DEF Events, EventTypes
    <3> QED
      BY <1>1, <2>1, <3>1, <3>2, TrySendType, ControlAssumption
      DEF CmdVel, Send, RemoteOK, ControlOK
  <2>2. CASE Command
    <3>1. PICK type \in {"ZERO", "ARM"} : TrySend(Event(type))
      BY <2>2 DEF Command
    <3>2. Event(type) \in Events
      BY EventType DEF EventTypes
    <3> QED
      BY <1>1, <2>2, <3>1, <3>2, TrySendType, ControlAssumption
      DEF Command, Send, RemoteOK, ControlOK
  <2>3. CASE RequestStop
    BY <1>1, <2>3, ControlAssumption DEF RequestStop, Send, RemoteOK, ControlOK
  <2>4. CASE SendStop
    <3>1. Event("STOP") \in Events
      BY EventType DEF EventTypes
    <3>2. queue' \in Seq(Events) /\ Len(queue') <= QueueLength
      BY <1>1, <2>4, <3>1, ControlAssumption DEF SendStop, HasRoom, RemoteOK
    <3> QED
      BY <1>1, <2>4, <3>2 DEF SendStop, RemoteOK, ControlOK
  <2>5. CASE FallSilent
    BY <1>1, <2>5 DEF FallSilent, RemoteOK, ControlOK
  <2>6. CASE ImuTakesPause
    BY <1>1, <2>6 DEF ImuTakesPause, remote, RemoteOK, ControlOK
  <2> QED
    BY <2>1, <2>2, <2>3, <2>4, <2>5, <2>6 DEF RemoteNext
<1>4. TypeOK'
  BY <1>1, <1>2, <1>3, TypeParts DEF IndInv, TypeOK, control, RemoteOK
<1>5. QuietUnlessArmed' /\ DrivenOnlyWhenArmed' /\ FreshWhileArmed'
  BY <1>2 DEF control, IndInv, QuietUnlessArmed, DrivenOnlyWhenArmed,
              FreshWhileArmed, Moving, Powered
<1>6. GateStep
  BY <1>2 DEF control, GateStep, Permit, Moving, Powered
<1> QED
  BY <1>4, <1>5, <1>6 DEF IndInv

\* The console.
LEMMA ConsoleKeeps ==
  ASSUME IndInv, ConsoleNext
  PROVE  IndInv' /\ GateStep
<1>1. HandlerOK /\ phase = "uart" /\ UNCHANGED <<phase, now>>
  BY ConsoleHandler
<1>2. QuietUnlessArmed' /\ DrivenOnlyWhenArmed' /\ FreshWhileArmed'
  BY <1>1, HandlerKeepsSafe
<1>3. core' \in Cores /\ MotorsOK' /\ GateStep
  BY <1>1 DEF HandlerOK, Settled
<1>4. /\ lines < MaxLines /\ lines' = lines + 1
      /\ UNCHANGED <<queue, ros, sends, silent>>
      /\ imuPause' \in {imuPause, TRUE}
  BY DEF ConsoleNext, UartZero, UartArm, UartClear, UartImuPause, UartGain,
         UartRun, UartInvalid, Line
<1>5. ControlOK /\ RemoteOK
  BY TypeParts DEF IndInv
<1>6. ControlOK' /\ RemoteOK'
  <2>1. lines' \in 0 .. MaxLines
    BY <1>4, <1>5, ControlAssumption DEF ControlOK
  <2>2. imuPause' \in BOOLEAN
    BY <1>4, <1>5 DEF ControlOK
  <2> QED
    BY <1>1, <1>4, <1>5, <2>1, <2>2 DEF ControlOK, RemoteOK
<1> QED
  BY <1>2, <1>3, <1>6, TypeParts DEF IndInv, TypeOK, MotorsOK, ControlOK, RemoteOK

\* The steps of the control task's own period.
LEMMA PeriodKeeps ==
  ASSUME IndInv, PeriodNext
  PROVE  IndInv' /\ GateStep
<1>1. core \in Cores /\ MotorsOK /\ ControlOK /\ RemoteOK
  BY TypeParts DEF IndInv
<1>2. CASE Wake
  <2>1. PICK d \in 1 .. MaxPeriod : now' = Tick(now, d)
    BY <1>2 DEF Wake
  <2>2. UNCHANGED <<core, motor, stuck>> /\ phase = "sleep" /\ phase' = "uart"
    BY <1>2 DEF Wake
  <2>3. now' \in Clock
    BY <1>1, <2>1, TickType DEF ControlOK
  <2>4. TypeOK'
    BY <1>1, <1>2, <2>3, ControlAssumption
    DEF Wake, TypeOK, ControlOK, RemoteOK, MotorsOK
  <2>5. QuietUnlessArmed' /\ DrivenOnlyWhenArmed'
    BY <2>2 DEF IndInv, QuietUnlessArmed, DrivenOnlyWhenArmed, Moving, Powered
  <2>6. FreshWhileArmed'
    <3> SUFFICES ASSUME core.state = "ARMED"
                 PROVE  Age(now', core.last_command) <= CommandTimeout + MaxPeriod
      BY <2>2 DEF FreshWhileArmed
    <3>1. Age(now, core.last_command) <= CommandTimeout + 0
      BY <2>2 DEF IndInv, FreshWhileArmed
    <3>2. core.last_command \in Clock /\ now \in Clock
      BY <1>1 DEF Cores, ControlOK
    <3> QED
      BY <2>1, <3>1, <3>2, TickAge, CoreAssumption
  <2>7. GateStep
    BY <2>2 DEF GateStep, Permit, Moving, Powered
  <2> QED
    BY <2>4, <2>5, <2>6, <2>7 DEF IndInv
<1>3. CASE UartDone
  <2>1. /\ UNCHANGED <<core, now, motor, stuck>>
        /\ phase = "uart" /\ phase' = "drain"
    BY <1>3 DEF UartDone
  <2>2. TypeOK'
    BY <1>1, <1>3 DEF UartDone, remote, TypeOK, ControlOK, RemoteOK, MotorsOK
  <2>3. QuietUnlessArmed' /\ DrivenOnlyWhenArmed' /\ FreshWhileArmed'
    BY <2>1 DEF IndInv, QuietUnlessArmed, DrivenOnlyWhenArmed, FreshWhileArmed,
                Moving, Powered
  <2>4. GateStep
    BY <2>1 DEF GateStep, Permit, Moving, Powered
  <2> QED
    BY <2>2, <2>3, <2>4 DEF IndInv
<1>4. CASE Receive
  <2>1. HandlerOK /\ phase = "drain" /\ UNCHANGED <<phase, now>>
    BY <1>4, ReceiveHandler
  <2>2. QuietUnlessArmed' /\ DrivenOnlyWhenArmed' /\ FreshWhileArmed'
    BY <2>1, HandlerKeepsSafe
  <2>3. core' \in Cores /\ MotorsOK' /\ GateStep
    BY <2>1 DEF HandlerOK, Settled
  <2>4. queue' \in Seq(Events) /\ Len(queue') <= QueueLength
    BY <1>1, <1>4, ControlAssumption DEF Receive, TakeFrom, RemoteOK
  <2>5. TypeOK'
    BY <1>1, <1>4, <2>3, <2>4
    DEF Receive, TypeOK, MotorsOK, ControlOK, RemoteOK
  <2> QED
    BY <2>2, <2>3, <2>5 DEF IndInv
<1>5. CASE Sample
  <2>1. /\ core' \in Cores /\ MotorsOK' /\ QuietUnlessArmed'
        /\ DrivenOnlyWhenArmed' /\ FreshWhileArmed' /\ GateStep
    BY <1>5, SampleKeepsSafe
  <2>2. phase' = "sleep" /\ UNCHANGED <<now, lines, imuPause, remote>>
    BY <1>5 DEF Sample
  <2>3. TypeOK'
    BY <1>1, <2>1, <2>2 DEF remote, TypeOK, MotorsOK, ControlOK, RemoteOK
  <2> QED
    BY <2>1, <2>3 DEF IndInv
<1>6. CASE SampleFail
  <2>1. /\ core' \in Cores /\ MotorsOK' /\ QuietUnlessArmed'
        /\ DrivenOnlyWhenArmed' /\ FreshWhileArmed' /\ GateStep
    BY <1>6, SampleFailKeepsSafe
  <2>2. phase' = "sleep" /\ UNCHANGED <<now, lines, imuPause, remote>>
    BY <1>6 DEF SampleFail
  <2>3. TypeOK'
    BY <1>1, <2>1, <2>2 DEF remote, TypeOK, MotorsOK, ControlOK, RemoteOK
  <2> QED
    BY <2>1, <2>3 DEF IndInv
<1> QED
  BY <1>2, <1>3, <1>4, <1>5, <1>6 DEF PeriodNext

\* Every step keeps the invariant and is a step of the gate or none.
LEMMA NextKeeps == IndInv /\ [Next]_vars => IndInv' /\ GateStep
<1> SUFFICES ASSUME IndInv, [Next]_vars PROVE IndInv' /\ GateStep
  OBVIOUS
<1>1. CASE Next
  BY <1>1, PeriodKeeps, ConsoleKeeps, RemoteKeeps DEF Next
<1>2. CASE UNCHANGED vars
  <2>1. IndInv'
    BY <1>2 DEF vars, IndInv, TypeOK, QuietUnlessArmed, DrivenOnlyWhenArmed,
                FreshWhileArmed, Moving, Powered
  <2>2. GateStep
    BY <1>2 DEF vars, GateStep, Permit, Moving, Powered
  <2> QED
    BY <2>1, <2>2
<1> QED
  BY <1>1, <1>2

-----------------------------------------------------------------------------
(* Theorems. *)

\* The inductive invariant, and with it the types of every variable.
THEOREM Invariance == Spec => []IndInv
<1>1. IndInv /\ [Next]_vars => IndInv'
  BY NextKeeps
<1> QED
  BY <1>1, InitEstablishes, PTL DEF Spec

\* Every variable keeps its type, the queue never holds more than its length.
THEOREM TypeCorrect == Spec => []TypeOK
<1>1. IndInv => TypeOK
  BY DEF IndInv
<1> QED
  BY <1>1, Invariance, PTL

\* After a stop of any kind the core holds nothing to act on.
THEOREM StopsLeaveNothing == Spec => []QuietUnlessArmed
<1>1. IndInv => QuietUnlessArmed
  BY DEF IndInv
<1> QED
  BY <1>1, Invariance, PTL

\* No wheel is driven outside ARMED, whatever drivers fail: the safe stop of
\* stop_all and apply_outputs.
THEOREM OnlyArmedDrives == Spec => []DrivenOnlyWhenArmed
<1>1. IndInv => DrivenOnlyWhenArmed
  BY DEF IndInv
<1> QED
  BY <1>1, Invariance, PTL

\* The command timeout holds across the wrap of the clock.
THEOREM CommandStaysFresh == Spec => []FreshWhileArmed
<1>1. IndInv => FreshWhileArmed
  BY DEF IndInv
<1> QED
  BY <1>1, Invariance, PTL

\* The control task implements the gate: after a fault, a timeout or new
\* gains, no motion before a ZERO and an ARM.
THEOREM ImplementsGate == Spec => GateSpec
<1>1. Init => Gate!Init
  <2> SUFFICES ASSUME Init PROVE Gate!Init
    OBVIOUS
  <2>1. InitialGains[1] \in Nat /\ InitialGains[2] \in Nat
    BY ControlAssumption
  <2>2. core.state = "DISARMED" /\ core.zero_seen = FALSE
    BY <2>1, InitialCoreFacts DEF Init
  <2> QED
    BY <2>2 DEF Init, Gate!Init, Permit, Moving, Powered
<1>2. IndInv /\ [Next]_vars => [Gate!Next]_(Gate!vars)
  BY NextKeeps DEF GateStep, Gate!vars
<1> QED
  BY <1>1, <1>2, Invariance, PTL DEF Spec, GateSpec, Gate!Spec

-----------------------------------------------------------------------------
(* Stops that wait in the queue. *)

\* What a handler does to the wheels while a stop waits.
NoNewMotion == Moving' = Moving \/ Moving' = {}

\* A command either leaves the wheels as they were told or, when it is refused,
\* brakes them all.
LEMMA SubmitNoNewMotion ==
  ASSUME MotorsOK, NEW targets, SubmitOrBrake(targets)
  PROVE  NoNewMotion
<1>1. CASE UNCHANGED <<motor, stuck>>
  BY <1>1 DEF NoNewMotion, Moving, Powered
<1>2. CASE Drive(Brake)
  BY <1>2, DriveStops DEF NoNewMotion
<1> QED
  BY <1>1, <1>2 DEF SubmitOrBrake

\* No line of the console starts a wheel: wheels start at the end of a period.
LEMMA ConsoleNoNewMotion ==
  ASSUME MotorsOK, ConsoleNext
  PROVE  NoNewMotion /\ queue' = queue
<1>1. CASE UartZero \/ UartImuPause \/ UartInvalid
  BY <1>1, DriveStops
  DEF UartZero, UartImuPause, UartInvalid, Line, NoNewMotion
<1>2. CASE UartArm \/ UartClear \/ UartGain
  BY <1>2 DEF UartArm, UartClear, UartGain, Line, NoNewMotion, Moving, Powered
<1>3. CASE UartRun
  BY <1>3, SubmitNoNewMotion DEF UartRun, Line
<1> QED
  BY <1>1, <1>2, <1>3 DEF ConsoleNext

\* No event starts a wheel either, and a STOP ends all motion.
LEMMA EventNoNewMotion ==
  ASSUME MotorsOK, NEW event, HandleEvent(event)
  PROVE  /\ NoNewMotion
         /\ event.type = "STOP" => Moving' = {}
<1>1. CASE event.type \in {"ZERO", "STOP"}
  BY <1>1, DriveStops DEF HandleEvent, NoNewMotion
<1>2. CASE event.type = "ARM"
  BY <1>2 DEF HandleEvent, NoNewMotion, Moving, Powered
<1>3. CASE event.type = "TARGETS"
  BY <1>3, SubmitNoNewMotion DEF HandleEvent
<1> QED
  BY <1>1, <1>2, <1>3 DEF HandleEvent

\* Taking an event out of the queue leaves a stop behind it where it is.
LEMMA TailKeepsStop ==
  ASSUME queue \in Seq(Events), StopQueued, queue' = Tail(queue),
         Head(queue).type # "STOP"
  PROVE  StopQueued'
<1>1. PICK i \in DOMAIN queue : queue[i].type = "STOP"
  BY DEF StopQueued
<1>2. i \in 1 .. Len(queue) /\ i # 1
  BY <1>1
<1>3. i - 1 \in DOMAIN queue' /\ queue'[i - 1] = queue[i]
  BY <1>2
<1> QED
  BY <1>1, <1>3 DEF StopQueued

\* The micro-ROS task only adds to the queue and touches no motor.
LEMMA RemoteKeepsStop ==
  ASSUME queue \in Seq(Events), StopQueued, RemoteNext
  PROVE  StopQueued' /\ Moving' = Moving
<1>1. UNCHANGED <<motor, stuck>>
  BY DEF RemoteNext, CmdVel, Command, RequestStop, SendStop, FallSilent,
         ImuTakesPause, Send, control
<1>2. queue' = queue \/ \E event : queue' = Append(queue, event)
  BY DEF RemoteNext, CmdVel, Command, RequestStop, SendStop, FallSilent,
         ImuTakesPause, TrySend, remote
<1>3. PICK i \in DOMAIN queue : queue[i].type = "STOP"
  BY DEF StopQueued
<1>4. i \in DOMAIN queue' /\ queue'[i] = queue[i]
  BY <1>2, <1>3
<1> QED
  BY <1>1, <1>3, <1>4 DEF StopQueued, Moving, Powered

\* A stop that waits is ahead of every start, and is only ever taken to be
\* carried out.
THEOREM StopsAreFirst == Spec => StopsGoFirst
<1> DEFINE First == StopQueued => /\ Moving' \subseteq Moving
                                  /\ ~StopQueued' => Moving' = {}
<1>1. IndInv /\ [Next]_vars => [First]_vars
  <2> SUFFICES ASSUME IndInv, Next, StopQueued
               PROVE  /\ Moving' \subseteq Moving
                      /\ ~StopQueued' => Moving' = {}
    OBVIOUS
  <2>1. MotorsOK /\ queue \in Seq(Events) /\ queue # <<>>
    BY IndInvSettled DEF Settled, IndInv, TypeOK, StopQueued
  <2>2. CASE ConsoleNext
    BY <2>1, <2>2, ConsoleNoNewMotion DEF NoNewMotion, StopQueued
  <2>3. CASE RemoteNext
    BY <2>1, <2>3, RemoteKeepsStop
  <2>4. CASE Wake \/ UartDone
    BY <2>4 DEF Wake, UartDone, remote, Moving, Powered, StopQueued
  <2>5. CASE Receive
    <3>1. HandleEvent(Head(queue)) /\ queue' = Tail(queue)
      BY <2>5 DEF Receive, TakeFrom
    <3>2. NoNewMotion /\ (Head(queue).type = "STOP" => Moving' = {})
      BY <2>1, <3>1, EventNoNewMotion
    <3>3. Head(queue).type # "STOP" => StopQueued'
      BY <2>1, <3>1, TailKeepsStop
    <3> QED
      BY <3>2, <3>3 DEF NoNewMotion
  <2>6. CASE Sample \/ SampleFail
    BY <2>1, <2>6 DEF Sample, SampleFail
  <2> QED
    BY <2>2, <2>3, <2>4, <2>5, <2>6 DEF Next, PeriodNext
<1> QED
  BY <1>1, Invariance, PTL DEF Spec, StopsGoFirst

\* A wheel that moves acts on a command, a ZERO or an ARM that is no older than
\* the timeout and one period, whatever the queue and the drivers did since.
THEOREM MotionIsRecent ==
  Spec => [](Moving # {} =>
               Age(now, core.last_command) <= CommandTimeout + MaxPeriod)
<1>1. IndInv => (Moving # {} =>
                   Age(now, core.last_command) <= CommandTimeout + MaxPeriod)
  <2> SUFFICES ASSUME IndInv, Moving # {}
               PROVE  Age(now, core.last_command) <= CommandTimeout + MaxPeriod
    OBVIOUS
  <2>1. core.state = "ARMED"
    BY DEF IndInv, DrivenOnlyWhenArmed
  <2>2. now \in Clock /\ core.last_command \in Clock
    BY DEF IndInv, TypeOK, Cores
  <2>3. Age(now, core.last_command) \in Int
    BY <2>2, CoreAssumption DEF Age, Clock
  <2> QED
    BY <2>1, <2>3, CoreAssumption, ControlAssumption DEF IndInv, FreshWhileArmed
<1> QED
  BY <1>1, Invariance, PTL

-----------------------------------------------------------------------------
(* How a latched fault ends. *)

\* A latched fault is left for DISARMED and with every wheel still.  Either a
\* ZERO was seen before, or the step carries out a remote STOP, after which a
\* ZERO is still missing: the run chassis_fault_latch shows the second case.
FaultEnds ==
  [][core.state = "FAULT_LATCHED" /\ core'.state # "FAULT_LATCHED" =>
       /\ core'.state = "DISARMED" /\ Moving' = {}
       /\ \/ core.zero_seen
          \/ Receive /\ Head(queue).type = "STOP" /\ ~core'.zero_seen]_vars

\* Of the operations of the core, only CLEAR and a stop that is no fault itself
\* leave a latched fault, and only CLEAR asks for the ZERO.
LEMMA LatchedCore ==
  ASSUME NEW c \in Cores, c.state = "FAULT_LATCHED"
  PROVE  /\ \A t : AcceptZero(c, t).state = "FAULT_LATCHED"
         /\ \A t : Arm(c, t) = c
         /\ \A kp, ki : UpdateGains(c, kp, ki) = c
         /\ \A targets, t, wraps : Submit(c, targets, t, wraps) = c
         /\ \A reason \in FaultReasons : Stop(c, reason).state = "FAULT_LATCHED"
         /\ \A delta, t : Step(c, delta, t).state = "FAULT_LATCHED"
         /\ ClearFault(c) # c => c.zero_seen /\ ClearFault(c).state = "DISARMED"
         /\ /\ Stop(c, "EXPLICIT").state = "DISARMED"
            /\ Stop(c, "EXPLICIT").zero_seen = c.zero_seen
<1>1. ZeroControl(c) \in Cores /\ ZeroControl(c).state = "FAULT_LATCHED"
  BY ZeroControlFacts
<1> QED
  BY <1>1 DEF AcceptZero, Arm, CanArm, UpdateGains, CanUpdateGains, Submit, Stop,
              Step, ClearFault, CanClearFault, FaultReasons, Cores

\* No console line leaves a latched fault without a ZERO before it.
LEMMA ConsoleKeepsFault ==
  ASSUME core \in Cores, core.state = "FAULT_LATCHED", ConsoleNext,
         core'.state # "FAULT_LATCHED"
  PROVE  core.zero_seen /\ core'.state = "DISARMED"
<1>1. \/ core' = core
      \/ core' = AcceptZero(core, now) \/ core' = Arm(core, now)
      \/ core' = ClearFault(core)
      \/ \E kp, ki : core' = UpdateGains(core, kp, ki)
      \/ \E targets, wraps : core' = Submit(core, targets, now, wraps)
      \/ core' = Stop(core, "INVALID_TARGET")
  BY DEF ConsoleNext, UartZero, UartArm, UartClear, UartImuPause, UartGain,
         UartRun, UartInvalid, SubmitOrBrake
<1>2. "INVALID_TARGET" \in FaultReasons
  BY DEF FaultReasons
<1> QED
  BY <1>1, <1>2, LatchedCore

\* The control task's own steps leave it by a remote STOP only.
LEMMA PeriodKeepsFault ==
  ASSUME core \in Cores, core.state = "FAULT_LATCHED", PeriodNext,
         core'.state # "FAULT_LATCHED"
  PROVE  /\ core'.state = "DISARMED" /\ core'.zero_seen = core.zero_seen
         /\ Receive /\ Head(queue).type = "STOP"
<1>1. CASE Wake \/ UartDone
  BY <1>1 DEF Wake, UartDone
<1>2. CASE Sample \/ SampleFail
  <2>1. "ENCODER_STALL" \in FaultReasons
    BY DEF FaultReasons
  <2> QED
    BY <1>2, <2>1, LatchedCore DEF Sample, SampleFail
<1>3. CASE Receive
  <2>1. \/ core' = core
        \/ core' = AcceptZero(core, now) \/ core' = Arm(core, now)
        \/ Head(queue).type = "STOP" /\ core' = Stop(core, "EXPLICIT")
        \/ \E targets, wraps : core' = Submit(core, targets, now, wraps)
    BY <1>3 DEF Receive, HandleEvent, SubmitOrBrake
  <2> QED
    BY <1>3, <2>1, LatchedCore
<1> QED
  BY <1>1, <1>2, <1>3 DEF PeriodNext

\* The documented latch, as far as the code keeps it.
THEOREM FaultsEndStill == Spec => FaultEnds
<1> DEFINE Ends ==
      core.state = "FAULT_LATCHED" /\ core'.state # "FAULT_LATCHED" =>
        /\ core'.state = "DISARMED" /\ Moving' = {}
        /\ \/ core.zero_seen
           \/ Receive /\ Head(queue).type = "STOP" /\ ~core'.zero_seen
<1>1. IndInv /\ [Next]_vars => [Ends]_vars
  <2> SUFFICES ASSUME IndInv, Next, core.state = "FAULT_LATCHED",
                      core'.state # "FAULT_LATCHED"
               PROVE  /\ core'.state = "DISARMED" /\ Moving' = {}
                      /\ \/ core.zero_seen
                         \/ /\ Receive /\ Head(queue).type = "STOP"
                            /\ ~core'.zero_seen
    OBVIOUS
  <2>1. core \in Cores
    BY DEF IndInv, TypeOK
  <2>2. core' # core => ~RemoteNext
    BY DEF RemoteNext, CmdVel, Command, RequestStop, SendStop, FallSilent,
           ImuTakesPause, Send, control
  <2>3. /\ core'.state = "DISARMED"
        /\ \/ core.zero_seen
           \/ Receive /\ Head(queue).type = "STOP" /\ ~core'.zero_seen
    BY <2>1, <2>2, ConsoleKeepsFault, PeriodKeepsFault DEF Next
  <2>4. IndInv'
    BY NextKeeps
  <2>5. Moving' = {}
    BY <2>3, <2>4 DEF IndInv, DrivenOnlyWhenArmed
  <2> QED
    BY <2>3, <2>5
<1> QED
  BY <1>1, Invariance, PTL DEF Spec, FaultEnds

-----------------------------------------------------------------------------
(* The hard limits.  They hold of every command but INT_MIN, whose abs()   *)
(* may pass the check of robot_chassis_core_submit.                        *)

SafeInputs ==
  /\ IntMin \notin RunTargets
  /\ \A t \in TwistTargets : \A w \in Wheels : t[w] # IntMin

QueueSafe ==
  \A i \in DOMAIN queue : \A w \in Wheels : queue[i].targets[w] # IntMin

LimitInv == Bounded(core) /\ QueueSafe

\* INT_MIN is not the zero of a ZERO or STOP event.
LEMMA IntMinIsNotZero == IntMin # 0
  BY CoreAssumption

\* Targets without INT_MIN are taken within the limits or not at all.
LEMMA SubmitBounded ==
  ASSUME IndInv, Bounded(core), NEW targets \in [Wheels -> Int],
         \A w \in Wheels : targets[w] # IntMin, SubmitOrBrake(targets)
  PROVE  Bounded(core')
<1>1. PICK absWraps \in BOOLEAN : core' = Submit(core, targets, now, absWraps)
  BY DEF SubmitOrBrake
<1>2. core \in Cores /\ Quiet(core) /\ now \in Clock
  BY IndInvSettled DEF Settled
<1> QED
  BY <1>1, <1>2, SubmitFacts

\* No console line takes the core beyond the limits.
LEMMA ConsoleBounded ==
  ASSUME SafeInputs, IndInv, Bounded(core), ConsoleNext
  PROVE  Bounded(core')
<1>0. core \in Cores /\ Quiet(core) /\ now \in Clock
  BY IndInvSettled DEF Settled
<1>1. CASE UartZero
  BY <1>0, <1>1, AcceptZeroFacts DEF UartZero
<1>2. CASE UartArm
  <2>1. core' = core \/ core' = Arm(core, now)
    BY <1>2 DEF UartArm
  <2> QED
    BY <1>0, <2>1, ArmFacts
<1>3. CASE UartClear
  BY <1>0, <1>3, ClearFaultFacts DEF UartClear
<1>4. CASE UartImuPause
  BY <1>4 DEF UartImuPause
<1>5. CASE UartGain
  <2>1. PICK gains \in GainChoices : core' = UpdateGains(core, gains[1], gains[2])
    BY <1>5 DEF UartGain
  <2>2. gains[1] \in Nat /\ gains[2] \in Nat
    BY ControlAssumption
  <2> QED
    BY <1>0, <2>1, <2>2, UpdateGainsFacts
<1>6. CASE UartRun
  <2>1. PICK chosen \in {Wheels} \cup {{w} : w \in Wheels}, t \in RunTargets :
          SubmitOrBrake(RunVector(chosen, t))
    BY <1>6 DEF UartRun
  <2>2. \A w \in Wheels : RunVector(chosen, t)[w] # IntMin
    BY IntMinIsNotZero DEF SafeInputs, RunVector
  <2> QED
    BY <2>1, <2>2, RunVectorType, SubmitBounded
<1>7. CASE UartInvalid
  <2>1. "INVALID_TARGET" \in StopReasons
    BY DEF StopReasons, FaultReasons
  <2> QED
    BY <1>0, <1>7, <2>1, StopFacts DEF UartInvalid
<1> QED
  BY <1>1, <1>2, <1>3, <1>4, <1>5, <1>6, <1>7 DEF ConsoleNext

\* No event of a queue without INT_MIN takes the core beyond the limits.
LEMMA ReceiveBounded ==
  ASSUME IndInv, LimitInv, Receive
  PROVE  Bounded(core')
<1>0. core \in Cores /\ Quiet(core) /\ now \in Clock
  BY IndInvSettled DEF Settled
<1>1. queue \in Seq(Events) /\ queue # <<>>
  BY DEF Receive, IndInv, TypeOK
<1>2. Head(queue) = queue[1] /\ 1 \in DOMAIN queue /\ Head(queue) \in Events
  BY <1>1
<1>3. /\ Head(queue).targets \in [Wheels -> Int]
      /\ \A w \in Wheels : Head(queue).targets[w] # IntMin
  BY <1>2 DEF LimitInv, QueueSafe, Events
<1>4. \/ core' = AcceptZero(core, now)
      \/ core' = Arm(core, now)
      \/ core' = core
      \/ core' = Stop(core, "EXPLICIT")
      \/ SubmitOrBrake(Head(queue).targets)
  BY DEF Receive, HandleEvent
<1>5. "EXPLICIT" \in StopReasons
  BY DEF StopReasons
<1> QED
  BY <1>0, <1>3, <1>4, <1>5, AcceptZeroFacts, ArmFacts, StopFacts, SubmitBounded
  DEF LimitInv

\* The controller's step stays within the limits for every encoder reading.
LEMMA SampleBounded ==
  ASSUME IndInv, Bounded(core), Sample \/ SampleFail
  PROVE  Bounded(core')
<1>0. core \in Cores /\ Quiet(core) /\ now \in Clock
  BY IndInvSettled DEF Settled
<1>1. CASE Sample
  <2>1. PICK delta \in [Wheels -> Int] : core' = Step(core, delta, now)
    BY <1>1, ControlAssumption DEF Sample
  <2> QED
    BY <1>0, <2>1, StepFacts
<1>2. CASE SampleFail
  <2>1. "ENCODER_STALL" \in StopReasons
    BY DEF StopReasons, FaultReasons
  <2> QED
    BY <1>0, <1>2, <2>1, StopFacts DEF SampleFail
<1> QED
  BY <1>1, <1>2

\* The queue carries INT_MIN only if a twist converted to it.
LEMMA AppendSafe ==
  ASSUME QueueSafe, queue \in Seq(Events), NEW event \in Events,
         \A w \in Wheels : event.targets[w] # IntMin,
         queue' = Append(queue, event)
  PROVE  QueueSafe'
<1>1. ASSUME NEW i \in DOMAIN queue', NEW w \in Wheels
      PROVE  queue'[i].targets[w] # IntMin
  <2>1. CASE i \in DOMAIN queue
    <3>1. queue'[i] = queue[i]
      BY <2>1
    <3> QED
      BY <2>1, <3>1 DEF QueueSafe
  <2>2. CASE i \notin DOMAIN queue
    <3>1. i = Len(queue) + 1
      BY <2>2
    <3>2. queue'[i] = event
      BY <3>1
    <3> QED
      BY <3>2
  <2> QED
    BY <2>1, <2>2
<1> QED
  BY <1>1 DEF QueueSafe

\* What the micro-ROS task puts in the queue is never INT_MIN.
LEMMA RemoteQueueSafe ==
  ASSUME SafeInputs, IndInv, QueueSafe, RemoteNext
  PROVE  QueueSafe'
<1>1. queue \in Seq(Events)
  BY DEF IndInv, TypeOK
<1>2. \A type \in EventTypes : /\ Event(type) \in Events
                              /\ \A w \in Wheels : Event(type).targets[w] # IntMin
  BY EventType, IntMinIsNotZero DEF Event, AllZero
<1>3. \A t \in TwistTargets :
        LET e == [type |-> "TARGETS", targets |-> t]
        IN  e \in Events /\ \A w \in Wheels : e.targets[w] # IntMin
  BY ControlAssumption DEF SafeInputs, Events, EventTypes
<1>4. \/ queue' = queue
      \/ \E e \in Events : /\ \A w \in Wheels : e.targets[w] # IntMin
                          /\ queue' = Append(queue, e)
  <2>1. CASE CmdVel
    BY <2>1, <1>3 DEF CmdVel, TrySend
  <2>2. CASE Command
    BY <2>2, <1>2 DEF Command, TrySend, EventTypes
  <2>3. CASE SendStop
    BY <2>3, <1>2 DEF SendStop, EventTypes
  <2>4. CASE RequestStop \/ FallSilent \/ ImuTakesPause
    BY <2>4 DEF RequestStop, FallSilent, ImuTakesPause, remote
  <2> QED
    BY <2>1, <2>2, <2>3, <2>4 DEF RemoteNext
<1> QED
  BY <1>1, <1>4, AppendSafe DEF QueueSafe

\* What is left in the queue after a receive is still without INT_MIN.
LEMMA ReceiveQueueSafe ==
  ASSUME IndInv, QueueSafe, Receive
  PROVE  QueueSafe'
<1>1. queue \in Seq(Events) /\ queue # <<>> /\ queue' = Tail(queue)
  BY DEF Receive, TakeFrom, IndInv, TypeOK
<1>2. ASSUME NEW i \in DOMAIN queue'
      PROVE  i + 1 \in DOMAIN queue /\ queue'[i] = queue[i + 1]
  BY <1>1
<1> QED
  BY <1>2 DEF QueueSafe

\* Every step keeps the limits.
LEMMA LimitNext ==
  ASSUME SafeInputs, IndInv, LimitInv, [Next]_vars
  PROVE  LimitInv'
<1>1. CASE PeriodNext
  <2>1. CASE Wake \/ UartDone
    BY <2>1 DEF Wake, UartDone, remote, LimitInv, QueueSafe, Bounded
  <2>2. CASE Receive
    BY <2>2, ReceiveBounded, ReceiveQueueSafe DEF LimitInv, Bounded
  <2>3. CASE Sample \/ SampleFail
    <3>1. Bounded(core')
      BY <2>3, SampleBounded DEF LimitInv
    <3>2. queue' = queue
      BY <2>3 DEF Sample, SampleFail, remote
    <3> QED
      BY <3>1, <3>2 DEF LimitInv, QueueSafe, Bounded
  <2> QED
    BY <1>1, <2>1, <2>2, <2>3 DEF PeriodNext
<1>2. CASE ConsoleNext
  <2>1. Bounded(core')
    BY <1>2, ConsoleBounded DEF LimitInv
  <2>2. queue' = queue
    BY <1>2 DEF ConsoleNext, UartZero, UartArm, UartClear, UartImuPause,
                UartGain, UartRun, UartInvalid, Line
  <2> QED
    BY <2>1, <2>2 DEF LimitInv, QueueSafe, Bounded
<1>3. CASE RemoteNext
  <2>1. core' = core
    BY <1>3 DEF RemoteNext, CmdVel, Command, RequestStop, SendStop, FallSilent,
                ImuTakesPause, Send, control
  <2>2. QueueSafe'
    BY <1>3, RemoteQueueSafe DEF LimitInv
  <2> QED
    BY <2>1, <2>2 DEF LimitInv, Bounded
<1>4. CASE UNCHANGED vars
  BY <1>4 DEF vars, LimitInv, QueueSafe, Bounded
<1> QED
  BY <1>1, <1>2, <1>3, <1>4 DEF Next

\* No target, output, integral or stall counter ever exceeds the configured
\* limits, for every command but INT_MIN and every encoder reading.
THEOREM LimitsHold ==
  ASSUME SafeInputs PROVE Spec => []HardLimits
<1>1. Init => LimitInv
  <2> SUFFICES ASSUME Init PROVE LimitInv
    OBVIOUS
  <2>1. InitialGains[1] \in Nat /\ InitialGains[2] \in Nat
    BY ControlAssumption
  <2>2. Bounded(core)
    BY <2>1, InitialCoreFacts DEF Init
  <2>3. DOMAIN queue = {}
    BY DEF Init
  <2> QED
    BY <2>2, <2>3 DEF LimitInv, QueueSafe
<1>2. IndInv /\ LimitInv /\ [Next]_vars => LimitInv'
  BY LimitNext
<1>3. LimitInv => HardLimits
  BY DEF LimitInv, Bounded, HardLimits
<1> QED
  BY <1>1, <1>2, <1>3, Invariance, PTL DEF Spec

-----------------------------------------------------------------------------
(* Where a fault comes from. *)

\* A vector robot_chassis_core_twist_to_targets may return without an overflow of
\* its floats, as may AllZero of the other events.
Exact(targets) ==
  \E left, right \in Int :
    LET counts == TwistCounts(left, right)
    IN  \A w \in Wheels : targets[w] \in {counts.left, counts.right}

WithinLimit(targets) == \A w \in Wheels : Magnitude(targets[w]) <= MaxTarget

\* Where a fault comes from: a line of the console, the encoders, or a /cmd_vel
\* whose conversion has overflowed.  No other message of the Agent latches a
\* fault, which an operator would have to clear at the console.
FaultOrigin ==
  [][core.state # "FAULT_LATCHED" /\ core'.state = "FAULT_LATCHED" =>
       \/ phase = "uart" /\ core'.stop_reason = "INVALID_TARGET"
       \/ /\ phase = "drain" /\ queue = <<>>
          /\ core'.stop_reason = "ENCODER_STALL"
       \/ /\ phase = "drain" /\ queue # <<>>
          /\ core'.stop_reason = "INVALID_TARGET"
          /\ Head(queue).type = "TARGETS" /\ ~Exact(Head(queue).targets)]_vars

\* Targets within the limit never latch a fault.
LEMMA SubmitWithinLimit ==
  ASSUME core \in Cores, core.state # "FAULT_LATCHED",
         NEW targets \in [Wheels -> Int], WithinLimit(targets),
         SubmitOrBrake(targets)
  PROVE  core'.state # "FAULT_LATCHED"
<1>1. PICK absWraps \in BOOLEAN : core' = Submit(core, targets, now, absWraps)
  BY DEF SubmitOrBrake
<1>2. \A w \in Wheels : ~OverLimit(targets[w], absWraps)
  <2> SUFFICES ASSUME NEW w \in Wheels PROVE ~OverLimit(targets[w], absWraps)
    OBVIOUS
  <2>1. targets[w] \in Int /\ Magnitude(targets[w]) <= MaxTarget
    BY DEF WithinLimit
  <2>2. targets[w] # IntMin
    BY <2>1, CoreAssumption DEF Magnitude
  <2>3. ~(Magnitude(targets[w]) > MaxTarget)
    BY <2>1, CoreAssumption DEF Magnitude
  <2> QED
    BY <2>2, <2>3 DEF OverLimit
<1>3. core' = core \/ core' = AcceptTargets(core, targets, now)
  BY <1>1, <1>2 DEF Submit, Accepts
<1>4. AcceptTargets(core, targets, now).state = core.state
  BY DEF AcceptTargets, ZeroControl, Cores
<1> QED
  BY <1>3, <1>4

\* A submission that latches a fault gives an invalid target as the reason.
LEMMA SubmitFault ==
  ASSUME core \in Cores, core.state # "FAULT_LATCHED", NEW targets,
         SubmitOrBrake(targets), core'.state = "FAULT_LATCHED"
  PROVE  core'.stop_reason = "INVALID_TARGET"
<1>1. PICK absWraps \in BOOLEAN : core' = Submit(core, targets, now, absWraps)
  BY DEF SubmitOrBrake
<1>2. Stop(core, "INVALID_TARGET").stop_reason = "INVALID_TARGET"
  BY DEF Stop, ZeroControl, Cores
<1>3. AcceptTargets(core, targets, now).state = core.state
  BY DEF AcceptTargets, ZeroControl, Cores
<1> QED
  BY <1>1, <1>2, <1>3 DEF Submit

\* An event of the Agent that latches a fault is a twist that has overflowed.
LEMMA EventFault ==
  ASSUME IndInv, Receive, core.state # "FAULT_LATCHED",
         core'.state = "FAULT_LATCHED"
  PROVE  /\ phase = "drain" /\ queue # <<>>
         /\ core'.stop_reason = "INVALID_TARGET"
         /\ Head(queue).type = "TARGETS" /\ ~Exact(Head(queue).targets)
<1>1. core \in Cores /\ queue \in Seq(Events) /\ phase = "drain" /\ queue # <<>>
  BY DEF Receive, IndInv, TypeOK
<1>2. Head(queue).targets \in [Wheels -> Int]
  <2>1. Head(queue) = queue[1] /\ 1 \in DOMAIN queue
    BY <1>1
  <2>2. Head(queue) \in Events
    BY <1>1, <2>1
  <2> QED
    BY <2>2 DEF Events
<1>3. /\ AcceptZero(core, now).state # "FAULT_LATCHED"
      /\ Arm(core, now).state # "FAULT_LATCHED"
      /\ Stop(core, "EXPLICIT").state # "FAULT_LATCHED"
  BY <1>1 DEF AcceptZero, Arm, Stop, ZeroControl, Cores, FaultReasons
<1>4. Head(queue).type = "TARGETS" /\ SubmitOrBrake(Head(queue).targets)
  BY <1>3 DEF Receive, HandleEvent
<1>5. ~WithinLimit(Head(queue).targets)
  BY <1>1, <1>2, <1>4, SubmitWithinLimit
<1>6. ASSUME Exact(Head(queue).targets)
      PROVE  WithinLimit(Head(queue).targets)
  BY <1>6, TwistWithinLimit DEF Exact, WithinLimit
<1>7. core'.stop_reason = "INVALID_TARGET"
  BY <1>1, <1>4, SubmitFault
<1> QED
  BY <1>1, <1>4, <1>5, <1>6, <1>7

\* A fault latched by a console line is an invalid target.
LEMMA ConsoleFault ==
  ASSUME IndInv, ConsoleNext, core.state # "FAULT_LATCHED",
         core'.state = "FAULT_LATCHED"
  PROVE  core'.stop_reason = "INVALID_TARGET" /\ phase = "uart"
<1>1. phase = "uart" /\ core \in Cores
  BY DEF ConsoleNext, UartZero, UartArm, UartClear, UartImuPause, UartGain,
         UartRun, UartInvalid, Line, IndInv, TypeOK
<1>2. Stop(core, "INVALID_TARGET").stop_reason = "INVALID_TARGET"
  BY <1>1 DEF Stop, ZeroControl, Cores
<1>3. CASE UartZero
  BY <1>1, <1>3 DEF UartZero, AcceptZero, ZeroControl, Cores
<1>4. CASE UartArm
  BY <1>1, <1>4 DEF UartArm, Arm, ZeroControl, Cores
<1>5. CASE UartClear
  BY <1>1, <1>5 DEF UartClear, ClearFault, ZeroControl, Cores
<1>6. CASE UartImuPause
  BY <1>6 DEF UartImuPause
<1>7. CASE UartGain
  <2>1. PICK kp, ki : core' = UpdateGains(core, kp, ki)
    BY <1>7 DEF UartGain
  <2> QED
    BY <1>1, <2>1 DEF UpdateGains, ZeroControl, Cores
<1>8. CASE UartRun
  <2>1. PICK targets : SubmitOrBrake(targets)
    BY <1>8 DEF UartRun
  <2> QED
    BY <1>1, <2>1, SubmitFault
<1>9. CASE UartInvalid
  BY <1>1, <1>2, <1>9 DEF UartInvalid
<1> QED
  BY <1>1, <1>3, <1>4, <1>5, <1>6, <1>7, <1>8, <1>9 DEF ConsoleNext

\* A fault latched when the encoders are read is of an encoder.
LEMMA SampleFault ==
  ASSUME IndInv, Sample \/ SampleFail, core.state # "FAULT_LATCHED",
         core'.state = "FAULT_LATCHED"
  PROVE  core'.stop_reason = "ENCODER_STALL" /\ phase = "drain" /\ queue = <<>>
<1>1. core \in Cores /\ phase = "drain" /\ queue = <<>>
  BY DEF Sample, SampleFail, IndInv, TypeOK
<1>2. Stop(core, "ENCODER_STALL").stop_reason = "ENCODER_STALL"
  BY <1>1 DEF Stop, ZeroControl, Cores
<1>3. Stop(core, "TIMEOUT").state # "FAULT_LATCHED"
  BY <1>1 DEF Stop, ZeroControl, Cores, FaultReasons
<1>4. CASE Sample
  <2>1. PICK delta : core' = Step(core, delta, now)
    BY <1>4 DEF Sample
  <2>2. \/ core'.state = core.state
        \/ core' = Stop(core, "TIMEOUT")
        \/ core' = Stop(core, "ENCODER_STALL")
    BY <1>1, <2>1 DEF Step, Cores
  <2> QED
    BY <1>1, <1>2, <1>3, <2>2
<1>5. CASE SampleFail
  BY <1>1, <1>2, <1>5 DEF SampleFail
<1> QED
  BY <1>4, <1>5

\* Whatever the console and the Agent send and in whatever order, every fault
\* has one of the three origins: robot_chassis_core_submit latches none
\* for a twist of the Agent whose floats did not overflow.
THEOREM OnlyOverflowsLatch == Spec => FaultOrigin
<1> DEFINE Origin ==
      core.state # "FAULT_LATCHED" /\ core'.state = "FAULT_LATCHED" =>
        \/ phase = "uart" /\ core'.stop_reason = "INVALID_TARGET"
        \/ /\ phase = "drain" /\ queue = <<>>
           /\ core'.stop_reason = "ENCODER_STALL"
        \/ /\ phase = "drain" /\ queue # <<>>
           /\ core'.stop_reason = "INVALID_TARGET"
           /\ Head(queue).type = "TARGETS" /\ ~Exact(Head(queue).targets)
<1>1. IndInv /\ [Next]_vars => [Origin]_vars
  <2> SUFFICES ASSUME IndInv, Next,
                      core.state # "FAULT_LATCHED", core'.state = "FAULT_LATCHED"
               PROVE  Origin
    OBVIOUS
  <2>1. CASE ConsoleNext
    BY <2>1, ConsoleFault
  <2>2. CASE Sample \/ SampleFail
    BY <2>2, SampleFault
  <2>3. CASE Receive
    BY <2>3, EventFault
  <2>4. CASE Wake \/ UartDone \/ RemoteNext
    <3>1. core' = core
      BY <2>4 DEF Wake, UartDone, RemoteNext, CmdVel, Command, RequestStop, SendStop,
                  FallSilent, ImuTakesPause, Send, control
    <3> QED
      BY <3>1
  <2> QED
    BY <2>1, <2>2, <2>3, <2>4 DEF Next, PeriodNext
<1> QED
  BY <1>1, Invariance, PTL DEF Spec, FaultOrigin

-----------------------------------------------------------------------------
(* The session above the control task. *)

\* Every step of the system is a step of the chassis as ChassisControl has it.
LEMMA SystemStep == [SystemNext]_systemVars => [Next]_vars
<1> SUFFICES ASSUME SystemNext PROVE [Next]_vars
  BY DEF systemVars
<1>1. CASE ControlStep
  BY <1>1 DEF ControlStep, Next
<1>2. CASE ConsoleStep
  BY <1>2 DEF ConsoleStep, Next
<1>3. CASE Beside
  BY <1>3 DEF Beside, Next, RemoteNext
<1>4. CASE Callback \/ CallbackStop \/ SetupFails \/ LossRequestsStop \/ LossSendsStop
  BY <1>4 DEF Callback, CallbackStop, SetupFails, LossRequestsStop, LossSendsStop,
              Next, RemoteNext
<1>5. CASE Connected \/ PingBegins \/ PingAnswered \/ PingLost
  BY <1>5 DEF Connected, PingBegins, PingAnswered, PingLost
<1> QED
  BY <1>1, <1>2, <1>3, <1>4, <1>5 DEF SystemNext, SessionNext

\* The chassis under a session is the chassis: whatever is proved of
\* ChassisControl holds of it, the gate and the command timeout included.
THEOREM SystemIsChassis == SystemSpec => Spec
<1>1. SystemInit => Init
  BY DEF SystemInit
<1> QED
  BY <1>1, SystemStep, PTL DEF SystemSpec, Spec

OnlyStops == \A i \in DOMAIN queue : queue[i].type = "STOP"

\* What is in the queue at each place of the session: nothing once a ping has
\* waited for a period, and stops alone while there is no session.
LinkInv ==
  /\ link \in Links
  /\ link = "ping" /\ served => queue = <<>>
  /\ link \in {"lost", "stopping"} => queue = <<>>
  /\ link = "away" => OnlyStops /\ (inherited => queue # <<>>)

\* The control task only takes from the queue, and ends no period before the
\* queue is empty.
LEMMA PeriodQueue ==
  ASSUME PeriodNext
  PROVE  /\ \/ UNCHANGED queue
            \/ Receive /\ queue # <<>> /\ queue' = Tail(queue) /\ ~EndsPeriod
         /\ EndsPeriod => queue = <<>>
         /\ UNCHANGED ros
  BY DEF PeriodNext, Wake, UartDone, Receive, Sample, SampleFail, EndsPeriod,
         TakeFrom, remote

\* A queue of stops leaves nothing of the Agent behind.
LEMMA ControlStepAway ==
  ASSUME IndInv, LinkInv, ControlStep, link = "away"
  PROVE  OnlyStops' /\ (inherited' => queue' # <<>>)
<1>1. queue \in Seq(Events) /\ OnlyStops /\ (inherited => queue # <<>>)
  BY DEF IndInv, TypeOK, LinkInv
<1>2. queue # <<>> => Head(queue).type = "STOP"
  BY <1>1 DEF OnlyStops
<1>3. inherited' => inherited /\ core'.state = "ARMED"
  BY <1>2 DEF ControlStep, Inherit
<1>4. CASE UNCHANGED queue
  BY <1>1, <1>3, <1>4 DEF OnlyStops
<1>5. CASE Receive /\ queue # <<>> /\ queue' = Tail(queue)
  <2>1. core' = Stop(core, "EXPLICIT")
    BY <1>2, <1>5 DEF Receive, HandleEvent
  <2>2. core'.state # "ARMED"
    BY <2>1, IndInvSettled, StopFacts DEF Settled, StopReasons
  <2>3. ~inherited'
    BY <1>3, <2>2
  <2>4. OnlyStops'
    BY <1>1, <1>5 DEF OnlyStops
  <2> QED
    BY <2>3, <2>4
<1> QED
  BY <1>4, <1>5, PeriodQueue DEF ControlStep

\* A stop that is sent finds room in an empty queue, and joins stops.
LEMMA SendStopQueue ==
  ASSUME IndInv, SendStop
  PROVE  /\ queue = <<>> => queue' # <<>> /\ queue'[Len(queue')].type = "STOP"
         /\ OnlyStops => OnlyStops'
         /\ queue # <<>> => queue' # <<>>
<1>1. queue \in Seq(Events) /\ Event("STOP").type = "STOP"
  BY DEF IndInv, TypeOK, Event
<1>2. CASE HasRoom
  <2>1. queue' = Append(queue, Event("STOP"))
    BY <1>2 DEF SendStop
  <2> QED
    BY <1>1, <2>1 DEF OnlyStops
<1>3. CASE ~HasRoom
  <2>1. queue' = queue /\ queue # <<>>
    BY <1>3, ControlAssumption DEF SendStop, HasRoom
  <2> QED
    BY <2>1 DEF OnlyStops
<1> QED
  BY <1>2, <1>3

\* The control task, the console and the IMU task under a session.
LEMMA BesideKeepsLink ==
  ASSUME IndInv, LinkInv, ControlStep \/ ConsoleStep \/ Beside
  PROVE  LinkInv'
<1>1. CASE ControlStep
  <2>1. link' = link /\ (served' => served \/ (link = "ping" /\ EndsPeriod))
    BY <1>1 DEF ControlStep
  <2>2. /\ UNCHANGED queue \/ (queue # <<>> /\ ~EndsPeriod)
        /\ EndsPeriod => queue = <<>>
    BY <1>1, PeriodQueue DEF ControlStep
  <2>3. link = "ping" /\ served' => queue' = <<>>
    BY <2>1, <2>2 DEF LinkInv
  <2>4. link = "away" => OnlyStops' /\ (inherited' => queue' # <<>>)
    BY <1>1, ControlStepAway
  <2> QED
    BY <2>1, <2>2, <2>3, <2>4 DEF LinkInv
<1>2. CASE ConsoleStep
  <2>1. UNCHANGED <<queue, link, served>> /\ (inherited' => inherited)
    BY <1>2 DEF ConsoleStep, Inherit, session, ConsoleNext, UartZero, UartArm,
                UartClear, UartImuPause, UartGain, UartRun, UartInvalid, Line
  <2> QED
    BY <2>1 DEF LinkInv, OnlyStops
<1>3. CASE Beside
  <2>1. UNCHANGED <<queue, link, served, inherited>>
    BY <1>3 DEF Beside, FallSilent, ImuTakesPause, remote, session
  <2> QED
    BY <2>1 DEF LinkInv, OnlyStops
<1> QED
  BY <1>1, <1>2, <1>3

\* The micro-ROS task.
LEMMA SessionKeepsLink ==
  ASSUME IndInv, LinkInv, SessionNext
  PROVE  LinkInv'
<1>1. CASE Callback
  BY <1>1 DEF Callback, session, LinkInv
<1>2. CASE CallbackStop
  BY <1>2, SendStopQueue DEF CallbackStop, session, LinkInv
<1>3. CASE SetupFails
  BY <1>3 DEF SetupFails, RequestStop, session, LinkInv, OnlyStops
<1>4. CASE Connected
  BY <1>4 DEF Connected, LinkInv, Links
<1>5. CASE PingBegins
  BY <1>5 DEF PingBegins, LinkInv, Links
<1>6. CASE PingAnswered
  BY <1>6 DEF PingAnswered, LinkInv, Links
<1>7. CASE PingLost
  BY <1>7 DEF PingLost, PingTimesOut, vars, LinkInv, Links
<1>8. CASE LossRequestsStop
  BY <1>8 DEF LossRequestsStop, RequestStop, LinkInv, Links
<1>9. CASE LossSendsStop
  <2>1. queue = <<>> /\ link' = "away"
    BY <1>9 DEF LossSendsStop, LinkInv
  <2>2. OnlyStops' /\ queue' # <<>>
    BY <1>9, <2>1, SendStopQueue DEF LossSendsStop, OnlyStops
  <2> QED
    BY <2>1, <2>2 DEF LinkInv, Links
<1> QED
  BY <1>1, <1>2, <1>3, <1>4, <1>5, <1>6, <1>7, <1>8, <1>9 DEF SessionNext

\* What the session leaves in the queue, at every place of it.
THEOREM SystemInvariance == SystemSpec => [](IndInv /\ LinkInv)
<1>1. SystemInit => LinkInv
  BY DEF SystemInit, Init, LinkInv, Links, OnlyStops
<1>2. IndInv /\ LinkInv /\ [SystemNext]_systemVars => LinkInv'
  <2> SUFFICES ASSUME IndInv, LinkInv, [SystemNext]_systemVars PROVE LinkInv'
    OBVIOUS
  <2>1. CASE SystemNext
    BY <2>1, BesideKeepsLink, SessionKeepsLink DEF SystemNext
  <2>2. CASE UNCHANGED systemVars
    BY <2>2 DEF systemVars, vars, session, LinkInv, OnlyStops
  <2> QED
    BY <2>1, <2>2
<1>3. SystemSpec => []IndInv
  BY SystemIsChassis, Invariance, PTL
<1> QED
  BY <1>1, <1>2, <1>3, PTL DEF SystemSpec

\* The stop that the loss of the Agent asks for is never dropped.
THEOREM StopOfLossIsQueued == SystemSpec => LossStopQueued
<1> DEFINE Kept == link = "stopping" /\ link' = "away" =>
                     queue' # <<>> /\ queue'[Len(queue')].type = "STOP"
<1>1. IndInv /\ LinkInv /\ [SystemNext]_systemVars => [Kept]_systemVars
  <2> SUFFICES ASSUME IndInv, LinkInv, SystemNext,
                      link = "stopping", link' = "away"
               PROVE  queue' # <<>> /\ queue'[Len(queue')].type = "STOP"
    BY DEF systemVars
  <2>1. LossSendsStop
    BY DEF SystemNext, ControlStep, ConsoleStep, Beside, SessionNext, session,
           Callback, CallbackStop, SetupFails, Connected, PingBegins,
           PingAnswered, PingLost, LossRequestsStop
  <2> QED
    BY <2>1, SendStopQueue DEF LossSendsStop, LinkInv
<1> QED
  BY <1>1, SystemInvariance, PTL DEF SystemSpec, LossStopQueued

\* The session above the chassis is one that AgentLink allows.  With
\* SessionImplementsLink, which shows that of the micro-ROS task itself, what
\* the chassis is proved to rely on is what that task is proved to do.
THEOREM SystemSessionIsALink == SystemSpec => AgentSpec
<1>1. SystemInit => Agent!Init
  BY DEF SystemInit, Agent!Init, SessionState
<1>2. [SystemNext]_systemVars => [Agent!Next]_Agent!linkVars
  <2> SUFFICES ASSUME [SystemNext]_systemVars
               PROVE  [Agent!Next]_Agent!linkVars
    OBVIOUS
  <2> USE DEF Agent!Next, Agent!linkVars, SessionState
  <2>1. CASE ControlStep \/ ConsoleStep \/ Beside \/ CallbackStop
    BY <2>1 DEF ControlStep, ConsoleStep, Beside, CallbackStop, session
  <2>2. CASE Callback
    BY <2>2 DEF Callback, Agent!Say
  <2>3. CASE SetupFails
    BY <2>3 DEF SetupFails, Agent!StopOnly
  <2>4. CASE Connected
    BY <2>4 DEF Connected, Agent!Open
  <2>5. CASE PingBegins
    BY <2>5 DEF PingBegins, Agent!Rest
  <2>6. CASE PingAnswered
    BY <2>6 DEF PingAnswered, Agent!Resume
  <2>7. CASE PingLost \/ LossSendsStop
    BY <2>7 DEF PingLost, LossSendsStop
  <2>8. CASE LossRequestsStop
    BY <2>8 DEF LossRequestsStop, Agent!Close
  <2>9. CASE UNCHANGED systemVars
    BY <2>9 DEF systemVars, session
  <2> QED
    BY <2>1, <2>2, <2>3, <2>4, <2>5, <2>6, <2>7, <2>8, <2>9
    DEF SystemNext, SessionNext
<1> QED
  BY <1>1, <1>2, PTL DEF SystemSpec, AgentSpec, Agent!Spec

\* Nothing that a session has armed or set in motion outlives it.
THEOREM SessionsLeaveNothing == SystemSpec => []NothingOutlivesSession
<1>1. LinkInv => NothingOutlivesSession
  BY DEF LinkInv, NothingOutlivesSession
<1> QED
  BY <1>1, SystemInvariance, PTL
=============================================================================
