-------------------------------- MODULE DeadMan --------------------------------
(***************************************************************************)
(* What the drive backend promises its reader, whoever calls it: a dead    *)
(* man's switch.  Events are of the past, the newest replaces the one that *)
(* waits, and each is taken once.  What is shown as moving is the command  *)
(* taken last, as long as that is young enough; a stop, once taken, lasts  *)
(* until another command is sent, and silence lasts no longer than a       *)
(* command's time and the delay of one more look at the clock.             *)
(***************************************************************************)
EXTENDS Integers

CONSTANTS
  Accepted,  \* the requests that are commands
  Drivable,  \* those of them that can be driven
  Timeout,   \* how old a command may be when it is shown
  Delay,     \* how much later the next look at the clock may be
  None       \* no event

VARIABLES
  clock,
  waiting,  \* the event that nobody has taken yet, or None
  held,     \* the command taken last, None after a stop
  shown     \* what a reader sees moving, or None

switchVars == <<clock, waiting, held, shown>>

Init == clock = 0 /\ waiting = None /\ held = None /\ shown = None

Send ==
  /\ waiting' # None /\ waiting'.received <= clock
  /\ UNCHANGED <<clock, held, shown>>

Take ==
  /\ waiting # None /\ waiting' = None
  /\ held' = IF waiting.request \in Accepted THEN waiting ELSE None
  /\ UNCHANGED <<clock, shown>>

Drives ==
  held # None /\ held.request \in Drivable /\ clock <= held.received + Timeout

Show ==
  /\ Drives
  /\ shown' = [received |-> held.received, sequence |-> held.sequence]
  /\ UNCHANGED <<clock, waiting, held>>

Stop == ~Drives /\ held' = None /\ shown' = None /\ UNCHANGED <<clock, waiting>>

Pass ==
  /\ clock' = clock + 1
  /\ shown # None => clock' <= shown.received + Timeout + Delay
  /\ UNCHANGED <<waiting, held, shown>>

Next == Send \/ Take \/ Show \/ Stop \/ Pass

Spec == Init /\ [][Next]_switchVars
=============================================================================
