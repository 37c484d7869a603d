----------------------------- MODULE ChassisSystem -----------------------------
(***************************************************************************)
(* The chassis under a micro-ROS session that comes and goes: the control  *)
(* task of ChassisControl, and the session of MicroRosSession reduced to   *)
(* what it does to that task's queue.  Callbacks run only in the executor  *)
(* of a live session; between two executor calls the session pings; the    *)
(* ping that loses it blocks until its timeout, asks for a stop, and the   *)
(* next session finds the chassis as that stop has left it.                *)
(*                                                                         *)
(* Every step is a step of ChassisControl or leaves its variables alone,   *)
(* so what is proved of ChassisControl holds here.  The session is the one *)
(* that AgentLink promises.                                                *)
(***************************************************************************)
EXTENDS ChassisControl

VARIABLES
  link,      \* the session: away, spin, ping, lost, stopping
  served,    \* during a ping: the control task has ended a period
  word,      \* history: the session's last word to the control task
  inherited  \* history: the Agent has armed or driven the core, which has been
             \* ARMED ever since

session == <<link, served, word>>
systemVars == <<vars, session, inherited>>

Links == {"away", "spin", "ping", "lost", "stopping"}

SystemTypeOK ==
  /\ TypeOK
  /\ link \in Links /\ served \in BOOLEAN /\ inherited \in BOOLEAN
  /\ word \in {"none", "command", "stop"}

SystemInit ==
  Init /\ link = "away" /\ served = FALSE /\ word = "none" /\ inherited = FALSE

-----------------------------------------------------------------------------
\* The Agent's share in the core's state, after a step of the control task.
Inherit(byAgent) == inherited' = (core'.state = "ARMED" /\ (inherited \/ byAgent))

\* Sampling ends a period.
EndsPeriod == phase = "drain" /\ phase' = "sleep"

ControlStep ==
  /\ PeriodNext
  /\ Inherit(/\ phase = "drain" /\ queue # <<>> /\ core' # core
             /\ Head(queue).type \in {"ARM", "TARGETS"})
  /\ served' = (served \/ (link = "ping" /\ EndsPeriod))
  /\ UNCHANGED <<link, word>>

ConsoleStep == ConsoleNext /\ Inherit(FALSE) /\ UNCHANGED session

Beside ==
  /\ FallSilent \/ ImuTakesPause
  /\ UNCHANGED <<session, inherited>>

-----------------------------------------------------------------------------
(* The micro-ROS task. *)

\* A command that the queue refuses becomes a stop.
Callback ==
  /\ link = "spin"
  /\ CmdVel \/ Command \/ RequestStop
  /\ word' = IF ros' = "stop" THEN "stop" ELSE "command"
  /\ UNCHANGED <<link, served, inherited>>

CallbackStop ==
  /\ link \in {"away", "spin"} /\ SendStop
  /\ UNCHANGED <<session, inherited>>

\* The stop of a set-up that has failed.
SetupFails ==
  /\ link = "away" /\ RequestStop /\ word' = "stop"
  /\ UNCHANGED <<link, served, inherited>>

Connected ==
  /\ link = "away" /\ ros = "idle" /\ link' = "spin"
  /\ UNCHANGED <<vars, served, word, inherited>>

PingBegins ==
  /\ link = "spin" /\ ros = "idle" /\ link' = "ping" /\ served' = FALSE
  /\ UNCHANGED <<vars, word, inherited>>

PingAnswered ==
  /\ link = "ping" /\ link' = "spin" /\ served' = FALSE
  /\ UNCHANGED <<vars, word, inherited>>

\* Mutant: the ping does not wait for its answer.
PingTimesOutAtOnce == TRUE

\* Assumption: the control task, which runs every 10 ms and has the higher
\* priority, ends a period within the ping's timeout of 100 ms.
PingTimesOut == served

PingLost ==
  /\ link = "ping" /\ PingTimesOut /\ link' = "lost" /\ served' = FALSE
  /\ UNCHANGED <<vars, word, inherited>>

\* Mutant: the command timeout is trusted to end what the session began.
LossRequestsNothing ==
  /\ link = "lost" /\ ros = "idle" /\ link' = "away"
  /\ UNCHANGED <<vars, served, word, inherited>>

LossRequestsStop ==
  /\ link = "lost" /\ RequestStop /\ link' = "stopping" /\ word' = "stop"
  /\ UNCHANGED <<served, inherited>>

LossSendsStop ==
  /\ link = "stopping" /\ SendStop /\ link' = "away"
  /\ UNCHANGED <<served, word, inherited>>

SessionNext ==
  \/ Callback \/ CallbackStop \/ SetupFails \/ Connected \/ PingBegins
  \/ PingAnswered \/ PingLost \/ LossRequestsStop \/ LossSendsStop

SystemNext == ControlStep \/ ConsoleStep \/ Beside \/ SessionNext

SystemSpec == SystemInit /\ [][SystemNext]_systemVars

SystemDriversAnswer == ControlStep /\ DriversAnswer

SystemFairSpec ==
  /\ SystemSpec
  /\ WF_systemVars(ControlStep) /\ SF_systemVars(SystemDriversAnswer)

-----------------------------------------------------------------------------
(* Properties. *)

\* The stop that the loss of the Agent asks for is never dropped, although the
\* queue it goes through is bounded, nobody looks at the result, and other
\* stops are dropped (NewestCommandKept): while the ping was waiting for its
\* answer the control task has emptied the queue.
LossStopQueued ==
  [][link = "stopping" /\ link' = "away" =>
       queue' # <<>> /\ queue'[Len(queue')].type = "STOP"]_systemVars

\* Nothing a session has armed or set in motion outlives it: when the control
\* task has handled what the session left in the queue, a chassis that is
\* ARMED was armed by the console, and has not moved for the Agent since.
NothingOutlivesSession ==
  link = "away" /\ ros = "idle" /\ queue = <<>> => ~inherited

\* The session that the chassis is under is a session as MicroRosSession
\* promises it, its commands and its stop on the way to the queue.
SessionState ==
  IF link \in {"ping", "lost"} THEN "rest"
  ELSE IF link = "spin" THEN "spin" ELSE "away"
Agent == INSTANCE AgentLink WITH link <- SessionState
AgentSpec == Agent!Spec
=============================================================================
