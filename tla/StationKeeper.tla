----------------------------- MODULE StationKeeper -----------------------------
(***************************************************************************)
(* What the Wi-Fi station promises the program: once started it is online  *)
(* or on its way there, a bounded number of attempts since it was online   *)
(* last, until it gives up; that it does after all of them, or when the    *)
(* driver refuses one, and for good.  Whoever waits for it is told once,   *)
(* and what he is told is what happened first.                             *)
(***************************************************************************)
EXTENDS Integers

CONSTANT Retries

VARIABLES
  link,     \* "off", "trying", "online" or "over"
  spent,    \* attempts since the station was online last
  refused,  \* the driver has refused an attempt
  first,    \* what happened first, if anything has
  answer    \* what the one who waits was told

keeperVars == <<link, spent, refused, first, answer>>

Init ==
  link = "off" /\ spent = 0 /\ ~refused /\ first = "none" /\ answer = "none"

Start ==
  /\ link = "off" /\ answer = "none" /\ link' = "trying"
  /\ UNCHANGED <<spent, refused, first, answer>>

Try ==
  /\ link = "trying" /\ spent <= Retries /\ spent' = spent + 1
  /\ UNCHANGED <<link, refused, first, answer>>

Happens(what) == first' = IF first = "none" THEN what ELSE first

Join ==
  /\ link = "trying" /\ link' = "online" /\ spent' = 0 /\ Happens("address")
  /\ UNCHANGED <<refused, answer>>

Lose == link = "online" /\ link' = "trying" /\ UNCHANGED <<spent, refused, first, answer>>

GiveUp ==
  /\ link = "trying" /\ link' = "over" /\ Happens("gave_up")
  /\ refused' \/ (spent >= Retries /\ ~refused')
  /\ UNCHANGED <<spent, answer>>

Tell ==
  /\ answer = "none"
  /\ \/ answer' = "ok" /\ first = "address"
     \/ answer' = "fail" /\ first = "gave_up"
     \/ answer' = "timeout" /\ link \in {"trying", "online"}
     \/ answer' = "error" /\ link = "off"
  /\ UNCHANGED <<link, spent, refused, first>>

Next == Start \/ Try \/ Join \/ Lose \/ GiveUp \/ Tell

Spec == Init /\ [][Next]_keeperVars
=============================================================================
