---------------------------- MODULE StartupProofs ----------------------------
(***************************************************************************)
(* Proofs about the start-up, for every number of retries and wheels and   *)
(* every timeout and pause: what the Wi-Fi verdict means, what the IMU     *)
(* backend leaves behind, and that app_main ends in one of two ways.       *)
(*                                                                         *)
(* The three components meet only in app_main, so each has an inductive    *)
(* invariant of its own, and one lemma says for each step of app_main      *)
(* which of the others it leaves alone.                                    *)
(***************************************************************************)
EXTENDS Startup, SequenceTheorems, TLAPS

-----------------------------------------------------------------------------
(* Wi-Fi. *)

\* What the event loop still has to handle, for each state of the station: at
\* most an address and the loss of it.
EventsOK ==
  /\ station = "stopped" => events = <<>> /\ bits = {}
  /\ station = "connecting" => events = <<>>
  /\ station = "online" => events \in {<<>>, <<"GOT_IP">>}
  /\ station = "idle" =>
       \/ events \in {<<"STA_START">>, <<"DISCONNECTED">>, <<"GOT_IP", "DISCONNECTED">>}
       \/ events = <<>> /\ "FAILED" \in bits
  /\ wifi \in {"idle", "setup"} => station = "stopped"

AddressPending == events # <<>> /\ Head(events) = "GOT_IP"

\* Attempts since the last address and retries go together, but for the reset
\* of the latter, which waits in the queue.
TriesOK ==
  /\ station = "stopped" \/ events = <<"STA_START">> => tries = 0 /\ retries = 0
  /\ AddressPending => tries = 0
  /\ ~AddressPending /\ ~refused => tries \in {retries, retries + 1}

FailedOK ==
  /\ refused => "FAILED" \in bits
  /\ GivesUpForGood

\* What came first, and who knows of it.
FirstOK ==
  /\ "CONNECTED" \in bits \/ AddressPending \/ station = "online" => first = "address"
  /\ first = "address" => "CONNECTED" \in bits \/ AddressPending
  /\ "FAILED" \in bits /\ "CONNECTED" \notin bits => first = "gave_up"
  /\ first = "gave_up" => "FAILED" \in bits

\* A verdict that was reached, or will be, is the first event.
WokenOK ==
  /\ woken \subseteq bits
  /\ "FAILED" \in woken /\ "CONNECTED" \notin woken => first = "gave_up"
  /\ VerdictIsFirst

WifiInv == WifiTypeOK /\ EventsOK /\ TriesOK /\ FailedOK /\ FirstOK /\ WokenOK

LEMMA WifiStagesLen == Len(WifiStages) = 12
  BY DEF WifiStages

LEMMA WifiInitInv == WifiInit => WifiInv
<1> SUFFICES ASSUME WifiInit PROVE WifiInv
  OBVIOUS
<1>1. /\ wifi = "idle" /\ wifiStep = 1 /\ verdict = "none"
      /\ bits = {} /\ woken = {} /\ retries = 0 /\ station = "stopped"
      /\ events = <<>> /\ tries = 0 /\ refused = FALSE /\ first = "none"
  BY DEF WifiInit
<1>2. ap \in BOOLEAN
  BY DEF WifiInit
<1>3. WifiTypeOK
  <2>1. refused \in BOOLEAN
    BY <1>1
  <2>2. wifiStep \in 1 .. Len(WifiStages)
    BY <1>1, WifiStagesLen
  <2>3. events \in Seq(WifiEvents)
    BY <1>1
  <2>4. retries \in 0 .. MaxRetry /\ tries \in 0 .. MaxRetry + 1
    BY <1>1, WifiAssumption
  <2> QED
    BY <1>1, <1>2, <2>1, <2>2, <2>3, <2>4 DEF WifiTypeOK
<1> QED
  BY <1>1, <1>3 DEF WifiInv, EventsOK, TriesOK, FailedOK, GivesUpForGood, FirstOK,
                    WokenOK, VerdictIsFirst, AddressPending

\* robot_wifi_connect on its way: only starting the station concerns the
\* event loop.
LEMMA WifiCallKeeps ==
  ASSUME WifiInv, WifiEnter \/ WifiCallNext
  PROVE  WifiInv'
<1>1. CASE WifiEnter
  BY <1>1 DEF WifiEnter, WifiInv, WifiTypeOK, EventsOK, TriesOK, FailedOK,
     GivesUpForGood, FirstOK, WokenOK, VerdictIsFirst, AddressPending, wifiEvents
<1>2. CASE WifiSetup
  <2>1. CASE wifiStep < Len(WifiStages)
    BY <1>2, <2>1, WifiStagesLen DEF WifiSetup, WifiInv, WifiTypeOK, EventsOK,
       TriesOK, FailedOK, GivesUpForGood, FirstOK, WokenOK, VerdictIsFirst,
       AddressPending, wifiEvents
  <2>2. CASE ~(wifiStep < Len(WifiStages))
    <3>1. /\ wifi' = "started" /\ station' = "idle" /\ events = <<>> /\ bits = {}
          /\ events' = <<"STA_START">> /\ station = "stopped"
      BY <1>2, <2>2 DEF WifiSetup, WifiInv, EventsOK
    <3> QED
      BY <1>2, <2>2, <3>1 DEF WifiSetup, WifiInv, WifiTypeOK, EventsOK,
         TriesOK, FailedOK, GivesUpForGood, FirstOK, WokenOK, VerdictIsFirst,
         AddressPending, WifiEvents
  <2> QED
    BY <2>1, <2>2
<1>3. CASE WifiSetupFails
  BY <1>3 DEF WifiSetupFails, WifiReturns, WifiInv, WifiTypeOK, EventsOK, TriesOK,
     FailedOK, GivesUpForGood, FirstOK, WokenOK, VerdictIsFirst, AddressPending,
     wifiEvents
<1>4. CASE WifiWait \/ WifiWake \/ WifiTimeout
  <2>1. /\ UNCHANGED <<wifiStep, wifiEvents, ap>>
        /\ wifi \in {"started", "blocked"} /\ wifi' \in {"blocked", "returned"}
        /\ verdict' \in {verdict, VerdictOn(bits), VerdictOn(woken)}
    BY <1>4 DEF WifiWait, WifiWake, WifiTimeout, WifiReturns
  <2>2. /\ VerdictOn(bits) \in {"ok", "fail", "timeout"}
        /\ VerdictOn(woken) \in {"ok", "fail", "timeout"}
        /\ VerdictOn(bits) = "ok" \/ VerdictOn(woken) = "ok" => first = "address"
        /\ VerdictOn(bits) = "fail" \/ VerdictOn(woken) = "fail" => first = "gave_up"
    BY DEF VerdictOn, WifiInv, FirstOK, WokenOK
  <2> QED
    BY <2>1, <2>2 DEF WifiInv, WifiTypeOK, EventsOK, TriesOK, FailedOK,
       GivesUpForGood, FirstOK, WokenOK, VerdictIsFirst, AddressPending, wifiEvents
<1> QED
  BY <1>1, <1>2, <1>3, <1>4 DEF WifiCallNext

\* What is left of the queue when its head has been handled.
LEMMA HandleFacts ==
  ASSUME WifiInv, NEW event \in WifiEvents, Handle(event)
  PROVE  /\ event = "STA_START" => events = <<"STA_START">>
         /\ event = "DISCONNECTED" => events = <<"DISCONNECTED">>
         /\ event = "GOT_IP" => events \in {<<"GOT_IP">>, <<"GOT_IP", "DISCONNECTED">>}
         /\ event # "GOT_IP" => station = "idle" /\ ~AddressPending /\ "FAILED" \notin bits
         /\ events' = Tail(events) /\ events' \in Seq(WifiEvents)
         /\ events' = <<>> \/ (event = "GOT_IP" /\ events' = <<"DISCONNECTED">>)
         /\ ~AddressPending'
         /\ UNCHANGED <<wifi, wifiStep, verdict, ap>>
<1>1. events # <<>> /\ Head(events) = event /\ events' = Tail(events)
  BY DEF Handle
<1>2. UNCHANGED <<wifi, wifiStep, verdict, ap>>
  BY DEF Handle, wifiCaller
<1>3. EventsOK /\ events \in Seq(WifiEvents) /\ GivesUpForGood
  BY DEF WifiInv, WifiTypeOK, FailedOK
<1>4. events \in {<<"STA_START">>, <<"DISCONNECTED">>, <<"GOT_IP">>,
                  <<"GOT_IP", "DISCONNECTED">>}
  BY <1>1, <1>3 DEF EventsOK, WifiTypeOK, WifiInv
<1>5. event # "GOT_IP" => station = "idle" /\ ~AddressPending /\ "FAILED" \notin bits
  BY <1>1, <1>3 DEF EventsOK, GivesUpForGood, AddressPending, WifiInv, WifiTypeOK
<1>6. events' = <<>> \/ (event = "GOT_IP" /\ events' = <<"DISCONNECTED">>)
  <2>1. CASE events = <<"GOT_IP", "DISCONNECTED">>
    <3>1. Tail(<<"GOT_IP", "DISCONNECTED">>) = <<"DISCONNECTED">>
      OBVIOUS
    <3>2. Head(<<"GOT_IP", "DISCONNECTED">>) = "GOT_IP"
      OBVIOUS
    <3> QED
      BY <1>1, <2>1, <3>1, <3>2
  <2>2. CASE events \in {<<"STA_START">>, <<"DISCONNECTED">>, <<"GOT_IP">>}
    BY <1>1, <2>2
  <2> QED
    BY <1>4, <2>1, <2>2
<1>7. events' \in Seq(WifiEvents)
  <2>1. <<"DISCONNECTED">> \in Seq(WifiEvents) /\ <<>> \in Seq(WifiEvents)
    BY DEF WifiEvents
  <2> QED
    BY <1>6, <2>1
<1>8. ~AddressPending'
  BY <1>6 DEF AddressPending
<1> QED
  BY <1>1, <1>2, <1>4, <1>5, <1>6, <1>7, <1>8

\* A bit that is set wakes a blocked caller with all the bits there are.
LEMMA SetBitFacts ==
  ASSUME WifiInv, NEW bit \in Bits, SetBit(bit)
  PROVE  /\ bits' = bits \cup {bit} /\ bits' \subseteq Bits
         /\ woken' = woken \/ woken' = bits'
         /\ woken' \subseteq bits'
  BY DEF SetBit, WifiInv, WifiTypeOK, WokenOK, Bits

\* Giving up, with nothing left in the queue.
LEMMA GiveUpKeeps ==
  ASSUME WifiInv, GiveUp, station = "idle", ~AddressPending, events' = <<>>,
         UNCHANGED <<wifi, wifiStep, verdict, ap>>,
         wifi \notin {"idle", "setup"},
         retries' \in 0 .. MaxRetry, refused' \in BOOLEAN, refused => refused',
         refused' \/ tries \in {MaxRetry, MaxRetry + 1},
         refused' \/ tries \in {retries', retries' + 1}
  PROVE  WifiInv'
<1>1. /\ bits' = bits \cup {"FAILED"} /\ bits' \subseteq Bits
      /\ woken' = woken \/ woken' = bits'
      /\ woken' \subseteq bits'
  BY SetBitFacts DEF GiveUp, Bits
<1>2. /\ UNCHANGED <<station, tries>> /\ ~AddressPending'
      /\ first' = IF first = "none" THEN "gave_up" ELSE first
  BY DEF GiveUp, AddressPending
<1>3. WifiTypeOK'
  <2>1. events' \in Seq(WifiEvents)
    OBVIOUS
  <2> QED
    BY <1>1, <1>2, <2>1 DEF WifiInv, WifiTypeOK
<1>4. EventsOK'
  BY <1>1, <1>2 DEF EventsOK
<1>5. TriesOK' /\ FailedOK'
  BY <1>1, <1>2 DEF TriesOK, FailedOK, GivesUpForGood
<1>6. FirstOK' /\ WokenOK'
  BY <1>1, <1>2 DEF WifiInv, WifiTypeOK, FirstOK, WokenOK, VerdictIsFirst
<1> QED
  BY <1>3, <1>4, <1>5, <1>6 DEF WifiInv

\* The attempts stay within their bound.
LEMMA OneMoreTry ==
  ASSUME NEW t \in Nat, NEW r \in 0 .. MaxRetry, t + 1 \in {r, r + 1}
  PROVE  t + 1 \in 0 .. MaxRetry + 1
  BY WifiAssumption

\* A connection attempt after the start or a loss.
LEMMA ConnectKeeps ==
  ASSUME WifiInv, Connect, station = "idle", ~AddressPending, events' = <<>>,
         "FAILED" \notin bits,
         UNCHANGED <<wifi, wifiStep, verdict, ap>>,
         wifi \notin {"idle", "setup"},
         retries' \in 0 .. MaxRetry,
         tries + 1 \in {retries', retries' + 1}
  PROVE  WifiInv'
<1>1. CASE refused' = TRUE /\ GiveUp
  <2>1. refused' \in BOOLEAN /\ refused'
    BY <1>1
  <2> QED
    BY <1>1, <2>1, GiveUpKeeps
<1>2. CASE /\ station' = "connecting" /\ tries' = tries + 1
           /\ UNCHANGED <<bits, woken, refused, first>>
  <2>1. ~refused /\ ~AddressPending'
    BY DEF WifiInv, FailedOK, AddressPending
  <2>2. tries' \in 0 .. MaxRetry + 1
    <3>1. tries \in Nat
      BY DEF WifiInv, WifiTypeOK
    <3>2. tries' = tries + 1
      BY <1>2
    <3>3. tries + 1 \in 0 .. MaxRetry + 1
      BY <3>1, OneMoreTry
    <3> QED
      BY <3>2, <3>3
  <2>3. WifiTypeOK'
    <3>1. events' \in Seq(WifiEvents)
      OBVIOUS
    <3> QED
      BY <1>2, <2>2, <3>1 DEF WifiInv, WifiTypeOK
  <2>4. TriesOK' /\ FailedOK' /\ EventsOK'
    BY <1>2, <2>1 DEF TriesOK, FailedOK, GivesUpForGood, EventsOK
  <2>5. FirstOK' /\ WokenOK'
    BY <1>2, <2>1 DEF WifiInv, FirstOK, WokenOK, VerdictIsFirst
  <2> QED
    BY <2>3, <2>4, <2>5 DEF WifiInv
<1> QED
  BY <1>1, <1>2 DEF Connect

\* The three events.
LEMMA EventLoopKeeps ==
  ASSUME WifiInv, EventLoopNext
  PROVE  WifiInv'
<1>1. WifiAssumption /\ retries \in 0 .. MaxRetry /\ tries \in Nat
  BY WifiAssumption DEF WifiInv, WifiTypeOK
<1>2. "GOT_IP" \in WifiEvents /\ "STA_START" \in WifiEvents /\ "DISCONNECTED" \in WifiEvents
  BY DEF WifiEvents
<1>3. events # <<>> => wifi \notin {"idle", "setup"}
  BY DEF WifiInv, EventsOK
<1>4. CASE OnStart
  <2>1. /\ station = "idle" /\ ~AddressPending /\ "FAILED" \notin bits
        /\ events' = <<>> /\ UNCHANGED <<wifi, wifiStep, verdict, ap>>
        /\ wifi \notin {"idle", "setup"} /\ events = <<"STA_START">>
    BY <1>2, <1>3, <1>4, HandleFacts DEF OnStart, Handle
  <2>2. Connect /\ retries' = retries
    BY <1>4 DEF OnStart
  <2>3. tries = 0 /\ retries = 0
    BY <2>1 DEF WifiInv, TriesOK
  <2> QED
    BY <1>1, <2>1, <2>2, <2>3, ConnectKeeps
<1>5. CASE OnDisconnected
  <2>1. /\ station = "idle" /\ ~AddressPending /\ "FAILED" \notin bits
        /\ events' = <<>> /\ UNCHANGED <<wifi, wifiStep, verdict, ap>>
        /\ wifi \notin {"idle", "setup"}
    BY <1>2, <1>3, <1>5, HandleFacts DEF OnDisconnected, Handle
  <2>2. ~refused /\ tries \in {retries, retries + 1}
    BY <2>1 DEF WifiInv, FailedOK, TriesOK
  <2>3. CASE retries < MaxRetry
    <3>1. retries' = retries + 1 /\ Connect
      BY <1>5, <2>3 DEF OnDisconnected, Reconnect
    <3> QED
      BY <1>1, <2>1, <2>2, <2>3, <3>1, ConnectKeeps
  <2>4. CASE ~(retries < MaxRetry)
    <3>1. GiveUp /\ UNCHANGED <<retries, refused>> /\ retries = MaxRetry
      BY <1>1, <1>5, <2>4 DEF OnDisconnected, Reconnect
    <3>2. refused \in BOOLEAN
      BY DEF WifiInv, WifiTypeOK
    <3> QED
      BY <1>1, <2>1, <2>2, <3>1, <3>2, GiveUpKeeps
  <2> QED
    BY <2>3, <2>4
<1>6. CASE OnGotIp
  <2>1. /\ events' = <<>> \/ events' = <<"DISCONNECTED">>
        /\ events \in {<<"GOT_IP">>, <<"GOT_IP", "DISCONNECTED">>}
        /\ events' = Tail(events) /\ events' \in Seq(WifiEvents)
        /\ ~AddressPending' /\ UNCHANGED <<wifi, wifiStep, verdict, ap>>
    BY <1>2, <1>6, HandleFacts DEF OnGotIp
  <2>2. /\ bits' = bits \cup {"CONNECTED"} /\ bits' \subseteq Bits
        /\ woken' = woken \/ woken' = bits'
        /\ woken' \subseteq bits'
    BY <1>6, SetBitFacts DEF OnGotIp, Bits
  <2>3. retries' = 0 /\ UNCHANGED <<station, tries, refused, first>>
    BY <1>6 DEF OnGotIp, RetriesAfterAddress
  <2>4. AddressPending /\ events # <<>> /\ station \in {"idle", "online"}
    BY <2>1 DEF AddressPending, WifiInv, WifiTypeOK, EventsOK
  <2>5. tries = 0 /\ "FAILED" \notin bits /\ ~refused /\ first = "address"
    BY <2>4 DEF WifiInv, TriesOK, FailedOK, GivesUpForGood, FirstOK
  <2>6. WifiTypeOK'
    BY <1>1, <2>1, <2>2, <2>3 DEF WifiInv, WifiTypeOK
  <2>7. EventsOK'
    <3>1. Tail(<<"GOT_IP">>) = <<>> /\ Tail(<<"GOT_IP", "DISCONNECTED">>) = <<"DISCONNECTED">>
      OBVIOUS
    <3>2. station = "online" => events = <<"GOT_IP">>
      BY <2>4 DEF WifiInv, EventsOK
    <3>3. station = "idle" => events = <<"GOT_IP", "DISCONNECTED">>
      <4>1. "FAILED" \notin bits
        BY <2>5
      <4>2. station = "idle" => events \in {<<"STA_START">>, <<"DISCONNECTED">>,
                                            <<"GOT_IP", "DISCONNECTED">>}
        BY <4>1 DEF WifiInv, EventsOK
      <4>3. Head(<<"STA_START">>) = "STA_START" /\ Head(<<"DISCONNECTED">>) = "DISCONNECTED"
        OBVIOUS
      <4> QED
        BY <2>4, <4>2, <4>3 DEF AddressPending
    <3> QED
      BY <1>3, <2>1, <2>3, <2>4, <3>1, <3>2, <3>3 DEF EventsOK
  <2>8. TriesOK' /\ FailedOK'
    <3>1. events' # <<"STA_START">>
      <4>1. <<"DISCONNECTED">> # <<"STA_START">> /\ <<>> # <<"STA_START">>
        OBVIOUS
      <4> QED
        BY <2>1, <4>1
    <3>2. "FAILED" \notin bits'
      BY <2>2, <2>5
    <3> QED
      BY <2>1, <2>3, <2>4, <2>5, <3>1, <3>2 DEF TriesOK, FailedOK, GivesUpForGood
  <2>9. FirstOK' /\ WokenOK'
    BY <2>1, <2>2, <2>3, <2>5 DEF WifiInv, FirstOK, WokenOK, VerdictIsFirst
  <2> QED
    BY <2>6, <2>7, <2>8, <2>9 DEF WifiInv
<1> QED
  BY <1>4, <1>5, <1>6 DEF EventLoopNext

\* A loss behind an address that is not handled yet.
LEMMA AppendLoss ==
  /\ Append(<<"GOT_IP">>, "DISCONNECTED") = <<"GOT_IP", "DISCONNECTED">>
  /\ Head(<<"GOT_IP", "DISCONNECTED">>) = "GOT_IP" /\ Head(<<"GOT_IP">>) = "GOT_IP"
  /\ <<"GOT_IP", "DISCONNECTED">> # <<>> /\ <<"GOT_IP">> # <<>>
<1>1. Append(<<"GOT_IP">>, "DISCONNECTED") = <<"GOT_IP", "DISCONNECTED">>
  <2> DEFINE one == <<"GOT_IP">>
             two == <<"GOT_IP", "DISCONNECTED">>
  <2>1. one \in Seq(WifiEvents) /\ two \in Seq(WifiEvents) /\ "DISCONNECTED" \in WifiEvents
    BY DEF WifiEvents
  <2>2. /\ Len(one) = 1 /\ one[1] = "GOT_IP"
        /\ Len(two) = 2 /\ two[1] = "GOT_IP" /\ two[2] = "DISCONNECTED"
    OBVIOUS
  <2> HIDE DEF one, two
  <2> DEFINE s == Append(one, "DISCONNECTED")
  <2>3. /\ s \in Seq(WifiEvents) /\ Len(s) = 2
        /\ s[1] = "GOT_IP" /\ s[2] = "DISCONNECTED"
    <3>1. s \in Seq(WifiEvents) /\ Len(s) = Len(one) + 1
      BY <2>1, AppendProperties
    <3>2. \A i \in 1 .. Len(one) : s[i] = one[i]
      BY <2>1, AppendProperties
    <3>3. s[Len(one) + 1] = "DISCONNECTED"
      BY <2>1, AppendProperties
    <3> HIDE DEF s
    <3> QED
      BY <2>2, <3>1, <3>2, <3>3
  <2> HIDE DEF s
  <2>4. s = two
    BY <2>1, <2>2, <2>3, SeqEqual
  <2> QED
    BY <2>4 DEF s, one, two
<1>2. Head(<<"GOT_IP", "DISCONNECTED">>) = "GOT_IP" /\ Head(<<"GOT_IP">>) = "GOT_IP"
  OBVIOUS
<1>3. Len(<<"GOT_IP", "DISCONNECTED">>) = 2 /\ Len(<<"GOT_IP">>) = 1 /\ Len(<<>>) = 0
  OBVIOUS
<1> QED
  BY <1>1, <1>2, <1>3

\* The driver posts an address or a loss only when nothing else is pending.
LEMMA StationKeeps ==
  ASSUME WifiInv, StationNext
  PROVE  WifiInv'
<1>1. /\ events' = Append(events, "GOT_IP") \/ events' = Append(events, "DISCONNECTED")
      /\ UNCHANGED <<wifi, wifiStep, verdict, bits, woken, retries, refused, ap>>
  BY DEF StationNext, StationJoins, StationFails, Post, wifiCaller
<1>2. station \in {"connecting", "online"} /\ events \in {<<>>, <<"GOT_IP">>}
  BY DEF StationNext, StationJoins, StationFails, WifiInv, EventsOK
<1>3. "FAILED" \notin bits /\ ~refused
  BY <1>2 DEF WifiInv, FailedOK, GivesUpForGood
<1>4. events' \in Seq(WifiEvents)
  BY <1>1 DEF WifiInv, WifiTypeOK, WifiEvents
<1>5. wifi \notin {"idle", "setup"}
  BY <1>2 DEF WifiInv, EventsOK
<1>6. CASE StationJoins
  <2>1. /\ events = <<>> /\ station' = "online" /\ events' = <<"GOT_IP">>
        /\ tries' = 0 /\ first' = IF first = "none" THEN "address" ELSE first
    BY <1>6 DEF StationJoins, Post, WifiInv, EventsOK
  <2>2. AddressPending'
    BY <2>1 DEF AddressPending
  <2>3. first' = "address"
    BY <1>3, <2>1 DEF WifiInv, WifiTypeOK, FirstOK
  <2>4. WifiTypeOK'
    BY <1>1, <1>4, <2>1, <2>3, WifiAssumption DEF WifiInv, WifiTypeOK
  <2>5. EventsOK'
    BY <1>1, <1>5, <2>1 DEF EventsOK
  <2>6. TriesOK' /\ FailedOK'
    <3>1. events' # <<"STA_START">>
      BY <2>1
    <3> QED
      BY <1>1, <1>3, <2>1, <2>2, <3>1 DEF TriesOK, FailedOK, GivesUpForGood
  <2>7. FirstOK' /\ WokenOK'
    BY <1>1, <1>3, <2>1, <2>2, <2>3 DEF WifiInv, FirstOK, WokenOK, VerdictIsFirst
  <2> QED
    BY <2>4, <2>5, <2>6, <2>7 DEF WifiInv
<1>7. CASE StationFails
  <2>1. /\ station' = "idle" /\ UNCHANGED <<tries, first>>
        /\ events' \in {<<"DISCONNECTED">>, <<"GOT_IP", "DISCONNECTED">>}
    <3>1. Append(<<>>, "DISCONNECTED") = <<"DISCONNECTED">>
      OBVIOUS
    <3> QED
      BY <1>2, <1>7, <3>1, AppendLoss DEF StationFails, Post
  <2>2. AddressPending' <=> AddressPending
    <3>1. CASE events = <<>>
      <4>1. events' = <<"DISCONNECTED">>
        BY <1>7, <3>1 DEF StationFails, Post
      <4> QED
        BY <3>1, <4>1 DEF AddressPending
    <3>2. CASE events = <<"GOT_IP">>
      <4>1. events' = <<"GOT_IP", "DISCONNECTED">>
        BY <1>7, <3>2, AppendLoss DEF StationFails, Post
      <4> QED
        BY <3>2, <4>1, AppendLoss DEF AddressPending
    <3> QED
      BY <1>2, <3>1, <3>2
  <2>3. WifiTypeOK'
    BY <1>1, <1>4, <2>1 DEF WifiInv, WifiTypeOK
  <2>4. EventsOK'
    BY <1>1, <1>5, <2>1 DEF EventsOK
  <2>5. TriesOK' /\ FailedOK'
    <3>1. events' # <<"STA_START">>
      <4>1. <<"DISCONNECTED">> # <<"STA_START">>
        OBVIOUS
      <4>2. Len(<<"GOT_IP", "DISCONNECTED">>) # Len(<<"STA_START">>)
        OBVIOUS
      <4> QED
        BY <2>1, <4>1, <4>2
    <3> QED
      BY <1>1, <1>3, <2>1, <2>2, <3>1 DEF WifiInv, TriesOK, FailedOK, GivesUpForGood
  <2>6. FirstOK' /\ WokenOK'
    BY <1>1, <1>3, <2>1, <2>2 DEF WifiInv, FirstOK, WokenOK, VerdictIsFirst
  <2> QED
    BY <2>3, <2>4, <2>5, <2>6 DEF WifiInv
<1> QED
  BY <1>6, <1>7 DEF StationNext

\* The access point comes and goes on its own; other components' steps change
\* nothing here.
LEMMA ApKeeps ==
  ASSUME WifiInv, ApChanges \/ UNCHANGED wifiVars
  PROVE  WifiInv'
<1>1. UNCHANGED <<wifi, wifiStep, verdict, bits, woken, retries, station, events,
                  tries, refused, first>>
  BY DEF ApChanges, wifiVars, wifiCaller, wifiEvents
<1>2. ap' \in BOOLEAN
  BY DEF ApChanges, wifiVars, WifiInv, WifiTypeOK
<1> QED
  BY <1>1, <1>2 DEF WifiInv, WifiTypeOK, EventsOK, TriesOK, FailedOK,
     GivesUpForGood, FirstOK, WokenOK, VerdictIsFirst, AddressPending

-----------------------------------------------------------------------------
(* The IMU backend. *)

\* The stages, as far as the proofs tell them apart.
LEMMA IcmStages ==
  ASSUME backend = "icm42670p"
  PROVE  /\ Len(Stages) = 15
         /\ Stages[1] = "latest" /\ Stages[2] = "pause" /\ Stages[3] = "bus"
         /\ Stages[4] = "device" /\ Stages[5] = "who_am_i" /\ Stages[6] = "reset"
         /\ Stages[7] = "reset_done" /\ Stages[8] = "who_am_i_again"
         /\ Stages[9] = "byte_order" /\ Stages[10] = "gyro" /\ Stages[11] = "accel"
         /\ Stages[12] = "read_interrupt" /\ Stages[13] = "interrupt"
         /\ Stages[14] = "power" /\ Stages[15] = "task"
  BY DEF Stages, ImuStages

LEMMA OtherStages ==
  /\ backend = "synthetic" =>
       Len(Stages) = 2 /\ Stages[1] = "latest" /\ Stages[2] = "task"
  /\ backend = "disabled" => Stages = <<>>
  BY DEF Stages, ImuStages

\* Every backend makes its task last.
LEMMA TaskIsLast ==
  ASSUME backend \in Backends
  PROVE  /\ Len(Stages) \in Nat
         /\ \A i \in 1 .. Len(Stages) : Stages[i] = "task" => i = Len(Stages)
<1>1. backend \in {"icm42670p", "synthetic", "disabled"}
  BY DEF Backends, ImuStages
<1>2. CASE backend = "icm42670p"
  <2>1. Len(Stages) = 15
    BY <1>2, IcmStages
  <2>2. ASSUME NEW i \in 1 .. 15, Stages[i] = "task" PROVE i = 15
    BY <1>2, <2>2, IcmStages
  <2> QED
    BY <2>1, <2>2
<1>3. CASE backend = "synthetic"
  <2>1. Len(Stages) = 2
    BY <1>3, OtherStages
  <2>2. ASSUME NEW i \in 1 .. 2, Stages[i] = "task" PROVE i = 2
    BY <1>3, <2>2, OtherStages
  <2> QED
    BY <2>1, <2>2
<1>4. CASE backend = "disabled"
  <2>1. Len(Stages) = 0
    BY <1>4, OtherStages
  <2> QED
    BY <2>1
<1> QED
  BY <1>1, <1>2, <1>3, <1>4

\* Where the start is, and what it has made so far.
HeldOK ==
  /\ imuStep \in 1 .. Len(Stages) + 1
  /\ imu = "started" => imuStep = Len(Stages) + 1
  /\ imu \in {"starting", "started"} =>
       \A i \in 1 .. imuStep - 1 : Stages[i] \in Resources => Stages[i] \in held
  /\ "task" \in held =>
       /\ imu \in {"starting", "started"} /\ imuStep = Len(Stages) + 1
       /\ backend # "disabled"
  /\ imu \in {"idle", "failed"} => held = {}
  /\ imu = "idle" => imuStep = 1

\* After the reset the sensor holds what the stages so far have verified.
Configuration(k) ==
  [r \in Registers |->
     IF r \in Configured /\ \E i \in 1 .. k - 1 : Stages[i] = r THEN "set" ELSE "reset"]

SensorOK ==
  backend = "icm42670p" /\ imu \in {"starting", "started"} /\ imuStep > 7 =>
    sensor = Configuration(imuStep)

\* How long a pause can have waited at each place of the sampling task.
PauseOK ==
  /\ asking # 0 => imu = "started" /\ "pause" \in held
  /\ pause = 0 \/ sampler \in {"off", "paused"} => pauseAge = 0
  /\ sampler = "paused" => waited <= PauseMax
  /\ sampler = "poll" => waited < DataReadyTimeout /\ pauseAge <= PauseMax + waited
  /\ sampler = "read" => pauseAge <= PauseMax + (DataReadyTimeout - 1) + I2cTimeout
  /\ PauseServedSoon

ImuInv == ImuTypeOK /\ HeldOK /\ SensorOK /\ PauseOK

LEMMA ImuInitInv == ImuInit => ImuInv
<1> SUFFICES ASSUME ImuInit PROVE ImuInv
  OBVIOUS
<1>1. /\ backend \in Backends /\ imu = "idle" /\ imuStep = 1 /\ held = {}
      /\ asking = 0 /\ pause = 0 /\ sampler = "off" /\ waited = 0 /\ pauseAge = 0
  BY DEF ImuInit
<1>2. sensor \in [Registers -> {"reset", "set", "odd"}]
  BY DEF ImuInit, AfterReset
<1>3. ImuTypeOK
  BY <1>1, <1>2 DEF ImuTypeOK
<1>4. HeldOK
  BY <1>1, TaskIsLast DEF HeldOK
<1>5. SensorOK
  BY <1>1 DEF SensorOK
<1>6. PauseOK
  BY <1>1, ImuBackendAssumption DEF PauseOK, PauseServedSoon
<1> QED
  BY <1>3, <1>4, <1>5, <1>6 DEF ImuInv

\* A stage that succeeds leaves in the sensor what it has verified.
LEMMA StageDoneSensor ==
  ASSUME ImuInv, ImuStageDone
  PROVE  SensorOK' /\ sensor' \in [Registers -> {"reset", "set", "odd"}]
<1>1. /\ imu = "starting" /\ imuStep <= Len(Stages) /\ imuStep' = imuStep + 1
      /\ sensor' \in Written(Stages[imuStep]) /\ Verifies(Stages[imuStep], sensor')
      /\ UNCHANGED <<backend, imu>> /\ Stages' = Stages /\ imuStep \in 1 .. Len(Stages)
  BY DEF ImuStageDone, ImuInv, HeldOK, Stages
<1>2. sensor \in [Registers -> {"reset", "set", "odd"}]
  BY DEF ImuInv, ImuTypeOK
<1>3. sensor' \in [Registers -> {"reset", "set", "odd"}]
  BY <1>1, <1>2 DEF Written, AfterReset, Registers
<1>4. ASSUME backend = "icm42670p", imuStep' > 7
      PROVE  sensor' = Configuration(imuStep')
  <2>1. imuStep \in 7 .. 15
    <3>1. Len(Stages) = 15
      BY <1>4, IcmStages
    <3> QED
      BY <1>1, <1>4, <3>1
  <2>2. CASE imuStep = 7
    <3>1. sensor' = AfterReset
      BY <1>1, <1>4, <2>2, IcmStages DEF Verifies
    <3>2. ASSUME NEW r \in Configured, NEW i \in 1 .. 7 PROVE Stages[i] # r
      BY <1>4, IcmStages DEF Configured
    <3> QED
      BY <1>1, <2>2, <3>1, <3>2 DEF AfterReset, Configuration
  <2>3. CASE imuStep \in 8 .. 15
    <3>1. sensor = Configuration(imuStep)
      BY <1>1, <1>4, <2>3 DEF ImuInv, SensorOK
    <3>2. CASE Stages[imuStep] \in Configured
      <4>1. sensor' = [sensor EXCEPT ![Stages[imuStep]] = "set"]
        BY <1>1, <1>2, <3>2 DEF Written, Verifies, Registers, Configured
      <4>2. ASSUME NEW r \in Registers
            PROVE  sensor'[r] = Configuration(imuStep + 1)[r]
        BY <1>1, <1>2, <3>1, <3>2, <4>1 DEF Configuration
      <4> QED
        BY <1>1, <1>3, <4>2 DEF Configuration
    <3>3. CASE Stages[imuStep] \notin Configured
      <4>1. sensor' = sensor
        BY <1>1, <1>4, <2>3, <3>3, IcmStages DEF Written
      <4>2. ASSUME NEW r \in Configured
            PROVE  (\E i \in 1 .. imuStep : Stages[i] = r)
                     <=> (\E i \in 1 .. imuStep - 1 : Stages[i] = r)
        BY <1>1, <3>3
      <4> QED
        BY <1>1, <3>1, <4>1, <4>2 DEF Configuration
    <3> QED
      BY <3>2, <3>3
  <2> QED
    BY <2>1, <2>2, <2>3
<1>5. Configuration(imuStep)' = Configuration(imuStep')
  BY <1>1 DEF Configuration
<1> QED
  BY <1>1, <1>3, <1>4, <1>5 DEF SensorOK

\* robot_imu_start, from its entry to its end.
LEMMA ImuStageDoneKeeps ==
  ASSUME ImuInv, ImuStageDone
  PROVE  ImuInv'
<1>1. /\ imu = "starting" /\ imuStep \in 1 .. Len(Stages) /\ imuStep' = imuStep + 1
      /\ held' = held \cup ({Stages[imuStep]} \cap Resources)
      /\ sampler' \in {sampler, "top"} /\ (sampler' = "top" \/ sampler' = sampler)
      /\ UNCHANGED <<backend, imu, asking, pause, waited, pauseAge>>
      /\ Stages' = Stages /\ Len(Stages) \in Nat
  BY TaskIsLast DEF ImuStageDone, ImuInv, ImuTypeOK, HeldOK, Stages
<1>2. SensorOK' /\ sensor' \in [Registers -> {"reset", "set", "odd"}]
  BY StageDoneSensor
<1>3. ImuTypeOK'
  BY <1>1, <1>2 DEF ImuInv, ImuTypeOK
<1>4. HeldOK'
  <2>1. imuStep' \in 1 .. Len(Stages) + 1
    BY <1>1
  <2>2. ASSUME NEW i \in 1 .. imuStep' - 1, Stages[i] \in Resources
        PROVE  Stages[i] \in held'
    <3>1. i \in 1 .. imuStep - 1 \/ i = imuStep
      BY <1>1
    <3> QED
      BY <1>1, <2>2, <3>1 DEF ImuInv, HeldOK
  <2>3. "task" \in held' => imuStep' = Len(Stages) + 1 /\ backend # "disabled"
    <3>1. "task" \notin held
      BY <1>1 DEF ImuInv, HeldOK
    <3>2. "task" \in held' => Stages[imuStep] = "task"
      BY <1>1, <3>1
    <3>3. Stages[imuStep] = "task" => imuStep = Len(Stages)
      BY <1>1, TaskIsLast DEF ImuInv, ImuTypeOK
    <3>4. backend # "disabled"
      <4>1. Len(<<>>) = 0
        OBVIOUS
      <4> QED
        BY <1>1, <4>1, OtherStages
    <3> QED
      BY <1>1, <3>2, <3>3, <3>4
  <2> QED
    BY <1>1, <2>1, <2>2, <2>3 DEF HeldOK
<1>5. PauseOK'
  BY <1>1 DEF ImuInv, PauseOK, PauseServedSoon
<1> QED
  BY <1>2, <1>3, <1>4, <1>5 DEF ImuInv

LEMMA ImuCallKeeps ==
  ASSUME ImuInv, ImuEnter \/ ImuCallNext
  PROVE  ImuInv'
<1> USE DEF imuTask
<1>1. Stages' = Stages /\ Len(Stages) \in Nat /\ UNCHANGED backend
  BY TaskIsLast DEF ImuEnter, ImuCallNext, ImuStageDone, ImuStageFails, ImuRelease,
     ImuReleased, ImuStarted, Stages, ImuInv, ImuTypeOK
<1>2. CASE ImuEnter
  <2>1. /\ imu = "idle" /\ imu' = "starting" /\ imuStep = 1
        /\ UNCHANGED <<imuStep, held, sensor, asking, imuTask>>
    BY <1>2 DEF ImuEnter, ImuInv, HeldOK
  <2>2. ImuTypeOK' /\ PauseOK'
    BY <1>1, <2>1 DEF ImuInv, ImuTypeOK, PauseOK, PauseServedSoon
  <2>3. HeldOK' /\ SensorOK'
    BY <1>1, <2>1 DEF ImuInv, HeldOK, SensorOK
  <2> QED
    BY <2>2, <2>3 DEF ImuInv
<1>3. CASE ImuStageDone
  BY <1>3, ImuStageDoneKeeps
<1>4. CASE ImuStageFails
  <2>1. /\ imu = "starting" /\ imu' = "releasing" /\ imuStep <= Len(Stages)
        /\ sensor' \in Written(Stages[imuStep])
        /\ UNCHANGED <<imuStep, held, asking, imuTask>>
    BY <1>4 DEF ImuStageFails
  <2>2. sensor' \in [Registers -> {"reset", "set", "odd"}]
    BY <2>1 DEF ImuInv, ImuTypeOK, Written, AfterReset, Registers
  <2>3. ImuTypeOK' /\ PauseOK'
    BY <1>1, <2>1, <2>2 DEF ImuInv, ImuTypeOK, PauseOK, PauseServedSoon
  <2>4. "task" \notin held
    BY <1>1, <2>1 DEF ImuInv, ImuTypeOK, HeldOK
  <2>5. HeldOK' /\ SensorOK'
    BY <1>1, <2>1, <2>4 DEF ImuInv, HeldOK, SensorOK
  <2> QED
    BY <2>3, <2>5 DEF ImuInv
<1>5. CASE ImuRelease
  <2>1. /\ imu = "releasing" /\ held' \subseteq held
        /\ UNCHANGED <<imu, imuStep, sensor, asking, imuTask>>
    BY <1>5 DEF ImuRelease
  <2>2. ImuTypeOK' /\ PauseOK'
    BY <1>1, <2>1 DEF ImuInv, ImuTypeOK, PauseOK, PauseServedSoon
  <2>3. HeldOK' /\ SensorOK'
    BY <1>1, <2>1 DEF ImuInv, HeldOK, SensorOK
  <2> QED
    BY <2>2, <2>3 DEF ImuInv
<1>6. CASE ImuReleased
  <2>1. /\ imu = "releasing" /\ imu' = "failed"
        /\ \A i \in DOMAIN ReleaseOrder : ReleaseOrder[i] \notin held
        /\ UNCHANGED <<imuStep, held, sensor, asking, imuTask>>
    BY <1>6 DEF ImuReleased
  <2>2. held \subseteq {"task"}
    <3>1. /\ DOMAIN ReleaseOrder = 1 .. 4
          /\ ReleaseOrder[1] = "device" /\ ReleaseOrder[2] = "bus"
          /\ ReleaseOrder[3] = "pause" /\ ReleaseOrder[4] = "latest"
      BY DEF ReleaseOrder
    <3> QED
      BY <2>1, <3>1 DEF ImuInv, ImuTypeOK, Resources
  <2>3. held = {}
    BY <2>1, <2>2 DEF ImuInv, HeldOK
  <2>4. ImuTypeOK' /\ PauseOK'
    BY <1>1, <2>1 DEF ImuInv, ImuTypeOK, PauseOK, PauseServedSoon
  <2>5. HeldOK' /\ SensorOK'
    BY <1>1, <2>1, <2>3 DEF ImuInv, HeldOK, SensorOK
  <2> QED
    BY <2>4, <2>5 DEF ImuInv
<1>7. CASE ImuStarted
  <2>1. /\ imu = "starting" /\ imu' = "started" /\ imuStep = Len(Stages) + 1
        /\ UNCHANGED <<imuStep, held, sensor, asking, imuTask>>
    BY <1>7 DEF ImuStarted
  <2>2. ImuTypeOK' /\ PauseOK'
    BY <1>1, <2>1 DEF ImuInv, ImuTypeOK, PauseOK, PauseServedSoon
  <2>3. Configuration(imuStep)' = Configuration(imuStep)
    BY <1>1, <2>1 DEF Configuration
  <2>4. HeldOK' /\ SensorOK'
    BY <1>1, <2>1, <2>3 DEF ImuInv, HeldOK, SensorOK
  <2> QED
    BY <2>2, <2>4 DEF ImuInv
<1> QED
  BY <1>2, <1>3, <1>4, <1>5, <1>6, <1>7 DEF ImuCallNext

\* The console's request and the sampling task leave the start alone.
LEMMA StartUntouched ==
  ASSUME ImuInv, UNCHANGED <<backend, imuStart>>
  PROVE  /\ HeldOK' /\ SensorOK' /\ UNCHANGED <<imu, held>>
         /\ backend' \in Backends
         /\ imu' \in {"idle", "starting", "releasing", "failed", "started"}
         /\ imuStep' \in Nat /\ held' \subseteq Resources
         /\ sensor' \in [Registers -> {"reset", "set", "odd"}]
<1>1. Stages' = Stages /\ UNCHANGED <<imu, imuStep, held, sensor>>
  BY DEF Stages, imuStart
<1>2. Configuration(imuStep)' = Configuration(imuStep)
  BY <1>1 DEF Configuration
<1> QED
  BY <1>1, <1>2 DEF ImuInv, HeldOK, SensorOK, ImuTypeOK

\* A pause waits for at most one turn.
LEMMA PauseKeeps ==
  ASSUME ImuInv, PauseNext \/ SamplerNext
  PROVE  ImuInv'
<1> USE ImuBackendAssumption
<1>1. UNCHANGED <<backend, imuStart>>
  BY DEF PauseNext, PauseCheck, PauseSend, SamplerNext, Turn, TakePause, Resume,
     Poll, ReadSample, SamplerStep
<1>2. /\ HeldOK' /\ SensorOK' /\ UNCHANGED <<imu, held>>
      /\ backend' \in Backends
      /\ imu' \in {"idle", "starting", "releasing", "failed", "started"}
      /\ imuStep' \in Nat /\ held' \subseteq Resources
      /\ sensor' \in [Registers -> {"reset", "set", "odd"}]
  BY <1>1, StartUntouched
<1>3. /\ asking \in Pauses \cup {0} /\ pause \in Pauses \cup {0}
      /\ sampler \in {"off", "top", "paused", "poll", "read"}
      /\ waited \in Nat /\ pauseAge \in Nat
      /\ \A p \in Pauses : p \in Nat /\ p # 0 /\ p <= PauseMax
  BY DEF ImuInv, ImuTypeOK, Pauses
<1>4. /\ asking' \in Pauses \cup {0} /\ pause' \in Pauses \cup {0}
      /\ sampler' \in {"off", "top", "paused", "poll", "read"}
      /\ waited' \in Nat /\ pauseAge' \in Nat /\ PauseOK'
  <2>1. CASE PauseCheck
    BY <1>2, <1>3, <2>1 DEF PauseCheck, MayPause, imuTask, ImuInv, PauseOK,
       PauseServedSoon
  <2>2. CASE PauseSend
    BY <1>2, <1>3, <2>2 DEF PauseSend, ImuInv, PauseOK, PauseServedSoon
  <2>3. CASE Turn
    BY <1>2, <1>3, <2>3 DEF Turn, SamplerStep, ImuInv, PauseOK, PauseServedSoon
  <2>4. CASE TakePause
    BY <1>2, <1>3, <2>4 DEF TakePause, SamplerStep, ImuInv, PauseOK, PauseServedSoon
  <2>5. CASE Resume
    BY <1>2, <1>3, <2>5 DEF Resume, Passes, SamplerStep, ImuInv, PauseOK,
       PauseServedSoon
  <2>6. CASE Poll
    BY <1>2, <1>3, <2>6 DEF Poll, Passes, GoesOnWaiting, SamplerStep, ImuInv,
       PauseOK, PauseServedSoon
  <2>7. CASE ReadSample
    BY <1>2, <1>3, <2>7 DEF ReadSample, Passes, SamplerStep, ImuInv, PauseOK,
       PauseServedSoon
  <2> QED
    BY <2>1, <2>2, <2>3, <2>4, <2>5, <2>6, <2>7 DEF PauseNext, SamplerNext
<1> QED
  BY <1>2, <1>4 DEF ImuInv, ImuTypeOK

\* Other components' steps.
LEMMA ImuUntouched ==
  ASSUME ImuInv, UNCHANGED imuVars
  PROVE  ImuInv'
<1>1. /\ HeldOK' /\ SensorOK' /\ UNCHANGED <<imu, held>>
      /\ backend' \in Backends
      /\ imu' \in {"idle", "starting", "releasing", "failed", "started"}
      /\ imuStep' \in Nat /\ held' \subseteq Resources
      /\ sensor' \in [Registers -> {"reset", "set", "odd"}]
  BY StartUntouched DEF imuVars
<1>2. UNCHANGED <<asking, pause, sampler, waited, pauseAge>>
  BY DEF imuVars, imuTask
<1> QED
  BY <1>1, <1>2 DEF ImuInv, ImuTypeOK, PauseOK, PauseServedSoon

\* What the invariant is for.
LEMMA ImuInvImplies ==
  ASSUME ImuInv
  PROVE  TaskIsProvided /\ NothingDangles /\ PauseServedSoon
<1>1. PauseServedSoon /\ NothingDangles
  BY DEF ImuInv, PauseOK, HeldOK, NothingDangles
<1>2. ASSUME "task" \in held PROVE "latest" \in held
  <2>1. backend \in {"icm42670p", "synthetic"}
    BY <1>2 DEF ImuInv, ImuTypeOK, HeldOK, Backends, ImuStages
  <2>2. Stages[1] = "latest" /\ Len(Stages) \in Nat /\ Len(Stages) >= 1
    BY <2>1, IcmStages, OtherStages
  <2> QED
    BY <1>2, <2>2 DEF ImuInv, HeldOK, Resources
<1>3. ASSUME "task" \in held, backend = "icm42670p"
      PROVE  {"pause", "bus", "device"} \subseteq held /\ sensor = Wanted
  <2>1. imuStep = 16 /\ imu \in {"starting", "started"}
    <3>1. Len(Stages) = 15
      BY <1>3, IcmStages
    <3>2. imuStep = Len(Stages) + 1 /\ imu \in {"starting", "started"}
      BY <1>3 DEF ImuInv, HeldOK
    <3> QED
      BY <3>1, <3>2
  <2>2. sensor = Configuration(16)
    BY <1>3, <2>1 DEF ImuInv, SensorOK
  <2>3. Configuration(16) = Wanted
    BY <1>3, IcmStages DEF Configuration, Wanted, Configured
  <2>4. {"pause", "bus", "device"} \subseteq held
    BY <1>3, <2>1, IcmStages DEF ImuInv, HeldOK, Resources
  <2> QED
    BY <2>2, <2>3, <2>4
<1> QED
  BY <1>1, <1>2, <1>3 DEF TaskIsProvided

-----------------------------------------------------------------------------
(* The order of the motion backends' start. *)

PlainOps == {"core", "remote_queue", "battery", "encoder", "motor", "uart", "queues"}
AllStages == [op : PlainOps \cup {"task"}, wheel : Nat]
Untasked == [op : PlainOps, wheel : Nat]

LEMMA StageFacts ==
  ASSUME NEW op \in PlainOps
  PROVE  /\ op # "task"
         /\ \A w \in Nat : Stage(op, w) \in Untasked /\ Stage(op, w) \in AllStages
         /\ Stage(op, 0).op = op
         /\ Stage("task", 0) \in AllStages /\ Stage("task", 0).op = "task"
  BY DEF PlainOps, Stage, Untasked, AllStages

\* One stage for each wheel.
LEMMA ForEachWheelType ==
  ASSUME NEW op \in PlainOps
  PROVE  ForEachWheel(op) \in Seq(Untasked)
<1>1. WheelCount \in Nat
  BY StartupAssumption
<1>2. ForEachWheel(op) \in [1 .. WheelCount -> Untasked]
  BY <1>1, StageFacts DEF ForEachWheel, Wheels
<1> QED
  BY <1>1, <1>2, SeqDef

\* A list that ends in the task, behind one that has none.
LEMMA TaskBehind ==
  ASSUME NEW A \in Seq(Untasked), NEW d \in Seq(AllStages), d # <<>>,
         \A i \in 1 .. Len(d) : d[i].op = "task" <=> i = Len(d)
  PROVE  /\ Len(A \o d) \in Nat \ {0}
         /\ \A i \in 1 .. Len(A \o d) : (A \o d)[i].op = "task" <=> i = Len(A \o d)
<1>1. A \in Seq(AllStages)
  <2>1. Untasked \subseteq AllStages
    BY DEF Untasked, AllStages
  <2> QED
    BY <2>1
<1>2. Len(A) \in Nat /\ Len(d) \in Nat \ {0}
  OBVIOUS
<1>3. /\ Len(A \o d) = Len(A) + Len(d)
      /\ \A i \in 1 .. Len(A) + Len(d) :
           (A \o d)[i] = IF i <= Len(A) THEN A[i] ELSE d[i - Len(A)]
  BY <1>1, ConcatProperties
<1>4. ASSUME NEW i \in 1 .. Len(A) + Len(d)
      PROVE  (A \o d)[i].op = "task" <=> i = Len(A) + Len(d)
  <2>1. CASE i <= Len(A)
    <3>1. A[i] \in Untasked
      BY <1>2, <2>1
    <3>2. (A \o d)[i] = A[i] /\ A[i].op # "task"
      BY <1>3, <2>1, <3>1 DEF Untasked, PlainOps
    <3>3. i # Len(A) + Len(d)
      BY <1>2, <2>1
    <3> QED
      BY <3>2, <3>3
  <2>2. CASE ~(i <= Len(A))
    <3>1. i - Len(A) \in 1 .. Len(d)
      BY <1>2, <2>2
    <3>2. (A \o d)[i] = d[i - Len(A)]
      BY <1>3, <2>2
    <3>3. d[i - Len(A)].op = "task" <=> i - Len(A) = Len(d)
      BY <3>1
    <3> QED
      BY <1>2, <3>2, <3>3
  <2> QED
    BY <2>1, <2>2
<1> QED
  BY <1>2, <1>3, <1>4

\* A backend's task is the last thing its start makes.
LEMMA MotionStagesFacts ==
  ASSUME NEW m \in AppModes
  PROVE  /\ Len(MotionStages(m)) \in Nat \ {0}
         /\ \A i \in 1 .. Len(MotionStages(m)) :
              MotionStages(m)[i].op = "task" <=> i = Len(MotionStages(m))
<1> DEFINE one == << Stage("task", 0) >>
           two(op) == << Stage(op, 0), Stage("task", 0) >>
<1>1. /\ one \in Seq(AllStages) /\ one # <<>>
      /\ \A i \in 1 .. Len(one) : one[i].op = "task" <=> i = Len(one)
  <2>1. Stage("task", 0) \in AllStages /\ Stage("task", 0).op = "task"
    BY DEF Stage, AllStages
  <2> QED
    BY <2>1
<1>2. ASSUME NEW op \in PlainOps
      PROVE  /\ two(op) \in Seq(AllStages) /\ two(op) # <<>> /\ Len(two(op)) = 2
             /\ \A i \in 1 .. Len(two(op)) : two(op)[i].op = "task" <=> i = Len(two(op))
  <2>1. Stage(op, 0) \in AllStages /\ Stage("task", 0) \in AllStages
    BY StageFacts
  <2>2. Len(two(op)) = 2 /\ two(op)[1].op = op /\ two(op)[2].op = "task" /\ op # "task"
    BY StageFacts
  <2>3. two(op) \in Seq(AllStages)
    BY <2>1
  <2>4. two(op) # <<>>
    BY <2>2, <2>3, EmptySeq
  <2> HIDE DEF two
  <2>5. \A i \in 1 .. Len(two(op)) : two(op)[i].op = "task" <=> i = Len(two(op))
    <3>1. \A i \in 1 .. 2 : i = 1 \/ i = 2
      OBVIOUS
    <3> QED
      BY <2>2, <3>1
  <2> QED
    BY <2>2, <2>3, <2>4, <2>5
<1>3. CASE m \in ChassisModes
  <2> DEFINE three == << Stage("core", 0), Stage("remote_queue", 0), Stage("battery", 0) >>
             A == three \o ForEachWheel("encoder") \o ForEachWheel("motor")
  <2>1. three \in Seq(Untasked)
    <3>1. {"core", "remote_queue", "battery"} \subseteq PlainOps
      BY DEF PlainOps
    <3> QED
      BY <3>1, StageFacts
  <2>2. A \in Seq(Untasked)
    <3>1. ForEachWheel("encoder") \in Seq(Untasked) /\ ForEachWheel("motor") \in Seq(Untasked)
      BY ForEachWheelType DEF PlainOps
    <3> HIDE DEF three
    <3>2. three \o ForEachWheel("encoder") \in Seq(Untasked)
      BY <2>1, <3>1, ConcatProperties
    <3> QED
      BY <3>1, <3>2, ConcatProperties
  <2>3. MotionStages(m) = A \o two("uart")
    BY <1>3 DEF MotionStages, ChassisModes, ChassisStages
  <2>4. /\ two("uart") \in Seq(AllStages) /\ two("uart") # <<>>
        /\ \A i \in 1 .. Len(two("uart")) :
             two("uart")[i].op = "task" <=> i = Len(two("uart"))
    BY <1>2 DEF PlainOps
  <2> HIDE DEF A, two
  <2> QED
    BY <2>2, <2>3, <2>4, TaskBehind
<1>4. CASE m = "encoder_probe"
  <2>1. MotionStages(m) = ForEachWheel("encoder") \o one
    BY <1>4 DEF MotionStages, ChassisModes, ProbeStages
  <2>2. ForEachWheel("encoder") \in Seq(Untasked)
    BY ForEachWheelType DEF PlainOps
  <2> HIDE DEF one
  <2> QED
    BY <1>1, <2>1, <2>2, TaskBehind
<1>5. CASE m = "drive_dry_run"
  <2>1. MotionStages(m) = two("queues")
    BY <1>5 DEF MotionStages, ChassisModes, DriveStages
  <2>2. /\ Len(two("queues")) = 2
        /\ \A i \in 1 .. Len(two("queues")) :
             two("queues")[i].op = "task" <=> i = Len(two("queues"))
    BY <1>2 DEF PlainOps
  <2> HIDE DEF two
  <2> QED
    BY <2>1, <2>2
<1> QED
  BY <1>3, <1>4, <1>5 DEF AppModes, ChassisModes

-----------------------------------------------------------------------------
(* app_main. *)

\* Where app_main is, and what exists by then.
BootTypeOK ==
  /\ mode \in AppModes
  /\ main \in {"buzzer", "motion", "imu", "wifi", "microros", "returned"}
  /\ motion \in 0 .. Len(MotionStages(mode))
  /\ running \in BOOLEAN /\ stop \in BOOLEAN /\ microros \in BOOLEAN
  /\ output \in [Wheels -> {"none", "on", "coast"}]
  /\ stuck \subseteq Wheels

\* The motors: "on" only where a call has failed.
MotorsOK ==
  /\ main \in {"buzzer", "motion"} => \A w \in Wheels : output[w] # "on"
  /\ \A w \in Wheels : output[w] = "on" => w \in stuck

OrderOK ==
  /\ running <=> motion = Len(MotionStages(mode))
  /\ main = "buzzer" => motion = 0
  /\ main \in {"imu", "wifi", "microros"} => running /\ mode \in RosModes
  /\ main \in {"wifi", "microros"} => imu = "started"
  /\ main = "microros" => verdict = "ok"
  /\ main # "returned" => ~stop /\ ~microros
  /\ main = "returned" /\ running /\ mode \in RosModes => microros # stop
  /\ microros => running /\ imu = "started" /\ verdict = "ok"

BootInv == BootTypeOK /\ MotorsOK /\ OrderOK

\* The inductive invariant of the start-up.
StartupInv == WifiInv /\ ImuInv /\ BootInv

LEMMA BootInitInv == Init => BootInv
<1> SUFFICES ASSUME Init PROVE BootInv
  OBVIOUS
<1>1. /\ mode \in AppModes /\ main = "buzzer" /\ motion = 0 /\ running = FALSE
      /\ output = [w \in Wheels |-> "none"] /\ stuck = {}
      /\ stop = FALSE /\ microros = FALSE
  BY DEF Init
<1>2. Len(MotionStages(mode)) \in Nat \ {0}
  BY <1>1, MotionStagesFacts
<1>3. BootTypeOK
  <2>1. running \in BOOLEAN /\ stop \in BOOLEAN /\ microros \in BOOLEAN
    BY <1>1
  <2> QED
    BY <1>1, <1>2, <2>1 DEF BootTypeOK
<1>4. OrderOK
  BY <1>1, <1>2 DEF OrderOK
<1> QED
  BY <1>1, <1>3, <1>4 DEF BootInv, MotorsOK

\* stop_all leaves a motor on only where its call fails.
LEMMA CoastAllFacts ==
  ASSUME NEW made \in [Wheels -> {"none", "on", "coast"}], CoastAll(made)
  PROVE  /\ output' \in [Wheels -> {"none", "on", "coast"}] /\ stuck' \subseteq Wheels
         /\ \A w \in Wheels : output'[w] = "on" => w \in stuck' /\ made[w] = "on"
<1>1. PICK F \in SUBSET Wheels :
        /\ output' = [w \in Wheels |-> IF made[w] = "none" \/ w \in F THEN made[w]
                                       ELSE "coast"]
        /\ stuck' = {w \in F : made[w] # "none"}
  BY DEF CoastAll
<1> QED
  BY <1>1

\* What only the motion backend's start changes.
LEMMA MotionKeeps ==
  ASSUME BootInv, MotionStageDone \/ MotionStageFails
  PROVE  BootInv'
<1>1. /\ main = "motion" /\ motion < Len(MotionStages(mode))
      /\ UNCHANGED <<mode, stop, microros, wifiVars, imuVars>>
  BY DEF MotionStageDone, MotionStageFails
<1>2. /\ Len(MotionStages(mode)) \in Nat /\ motion \in Nat /\ ~running /\ ~stop /\ ~microros
      /\ mode \in AppModes /\ output \in [Wheels -> {"none", "on", "coast"}]
      /\ \A w \in Wheels : output[w] # "on"
  BY <1>1, MotionStagesFacts DEF BootInv, BootTypeOK, MotorsOK, OrderOK
<1>3. UNCHANGED MotionStages(mode)
  BY <1>1
<1>4. CASE MotionStageDone
  <2>1. motion' = motion + 1 /\ main' = main /\ running' = (MotionStage.op = "task")
    BY <1>4 DEF MotionStageDone
  <2>2. running' <=> motion' = Len(MotionStages(mode))
    <3>1. motion + 1 \in 1 .. Len(MotionStages(mode))
      BY <1>1, <1>2
    <3>2. MotionStage.op = "task" <=> motion + 1 = Len(MotionStages(mode))
      BY <1>2, <3>1, MotionStagesFacts DEF MotionStage
    <3> QED
      BY <1>3, <2>1, <3>2
  <2>3. /\ output' \in [Wheels -> {"none", "on", "coast"}] /\ stuck' \subseteq Wheels
        /\ \A w \in Wheels : output'[w] # "on"
    <3> DEFINE made == IF MotionStage.op = "motor"
                       THEN [output EXCEPT ![MotionStage.wheel] = "coast"] ELSE output
    <3>1. /\ made \in [Wheels -> {"none", "on", "coast"}]
          /\ \A w \in Wheels : made[w] # "on"
      BY <1>2
    <3>2. IF LastMotor THEN CoastAll(made) ELSE output' = made /\ UNCHANGED stuck
      BY <1>4 DEF MotionStageDone
    <3> HIDE DEF made
    <3> QED
      BY <3>1, <3>2, CoastAllFacts DEF BootInv, BootTypeOK
  <2>4. motion' \in 0 .. Len(MotionStages(mode)) /\ running' \in BOOLEAN
    BY <1>1, <1>2, <2>1
  <2>5. BootTypeOK'
    BY <1>1, <1>3, <2>1, <2>3, <2>4 DEF BootInv, BootTypeOK
  <2>6. OrderOK'
    BY <1>1, <1>2, <1>3, <2>1, <2>2 DEF OrderOK
  <2> QED
    BY <2>3, <2>5, <2>6 DEF BootInv, MotorsOK
<1>5. CASE MotionStageFails
  <2>1. main' = "returned" /\ UNCHANGED <<motion, running>>
    BY <1>5 DEF MotionStageFails
  <2>2. /\ output' \in [Wheels -> {"none", "on", "coast"}] /\ stuck' \subseteq Wheels
        /\ \A w \in Wheels : output'[w] = "on" => w \in stuck'
    <3>1. CASE MotionStage.op \in {"encoder", "motor"}
      <4>1. PICK left \in {"none", "on"} :
              CoastAll(IF MotionStage.op = "motor"
                       THEN [output EXCEPT ![MotionStage.wheel] = left]
                       ELSE output)
        BY <1>5, <3>1 DEF MotionStageFails
      <4> DEFINE made == IF MotionStage.op = "motor"
                         THEN [output EXCEPT ![MotionStage.wheel] = left] ELSE output
      <4>2. made \in [Wheels -> {"none", "on", "coast"}]
        BY <1>2
      <4>3. CoastAll(made)
        BY <4>1
      <4> HIDE DEF made
      <4> QED
        BY <4>2, <4>3, CoastAllFacts
    <3>2. CASE MotionStage.op \notin {"encoder", "motor"}
      BY <1>2, <1>5, <3>2 DEF MotionStageFails, BootInv, BootTypeOK
    <3> QED
      BY <3>1, <3>2
  <2>3. BootTypeOK'
    BY <1>1, <1>3, <2>1, <2>2 DEF BootInv, BootTypeOK
  <2>4. OrderOK'
    BY <1>1, <1>2, <1>3, <2>1 DEF BootInv, OrderOK
  <2> QED
    BY <2>1, <2>2, <2>3, <2>4 DEF BootInv, MotorsOK
<1> QED
  BY <1>4, <1>5

\* The other steps of app_main leave the motors alone.
LEMMA MainKeeps ==
  ASSUME StartupInv,
         BuzzerOff \/ MotionStarted \/ ImuCall \/ ImuReturns \/ WifiCall
           \/ WifiReturned \/ MicroRosStart
  PROVE  BootInv'
<1> USE DEF StartupInv, BootInv
<1>1. UNCHANGED <<mode, motion, running, output, stuck>>
  BY DEF BuzzerOff, MotionStarted, ImuCall, ImuReturns, WifiCall, WifiReturned,
     MicroRosStart, Call, boot
<1>2. UNCHANGED MotionStages(mode)
  BY <1>1
<1>3. Len(MotionStages(mode)) \in Nat \ {0}
  BY MotionStagesFacts DEF BootTypeOK
<1>4. ASSUME NEW next \in {"motion", "imu", "wifi", "microros", "returned"},
             main' = next, stop' \in BOOLEAN, microros' \in BOOLEAN,
             main = "buzzer" \/ next # "motion", OrderOK'
      PROVE  BootInv'
  BY <1>1, <1>2, <1>4 DEF BootTypeOK, MotorsOK
<1>5. CASE BuzzerOff
  <2>1. /\ main = "buzzer" /\ main' \in {"motion", "returned"}
        /\ UNCHANGED <<stop, microros>> /\ ~running
    BY <1>3, <1>5 DEF BuzzerOff, OrderOK
  <2>2. OrderOK'
    BY <1>1, <1>2, <2>1 DEF OrderOK
  <2> QED
    BY <1>4, <2>1, <2>2 DEF BootTypeOK
<1>6. CASE MotionStarted
  <2>1. /\ main = "motion" /\ running /\ UNCHANGED <<stop, microros>>
        /\ \/ mode \in RosModes /\ main' = "imu"
           \/ mode \notin RosModes /\ main' = "returned"
    BY <1>6 DEF MotionStarted, OrderOK
  <2>2. OrderOK'
    BY <1>1, <1>2, <2>1 DEF OrderOK
  <2> QED
    BY <1>4, <2>1, <2>2 DEF BootTypeOK
<1>7. CASE ImuCall
  <2>1. main = "imu" /\ UNCHANGED <<main, stop, microros>>
    BY <1>7 DEF ImuCall, Call, boot
  <2>2. OrderOK'
    BY <1>1, <1>2, <2>1 DEF OrderOK
  <2> QED
    BY <1>4, <2>1, <2>2 DEF BootTypeOK
<1>8. CASE ImuReturns
  <2>1. /\ main = "imu" /\ UNCHANGED <<imu, microros>> /\ running /\ ~microros
        /\ mode \in RosModes
        /\ \/ imu = "started" /\ main' = "wifi" /\ stop' = stop
           \/ main' = "returned" /\ stop' = TRUE
    BY <1>8 DEF ImuReturns, StopAfterFailure, imuVars, imuStart, OrderOK
  <2>2. OrderOK'
    BY <1>1, <1>2, <2>1 DEF OrderOK
  <2>3. stop' \in BOOLEAN /\ microros' \in BOOLEAN
    BY <2>1 DEF BootTypeOK
  <2> QED
    BY <1>4, <2>1, <2>2, <2>3
<1>9. CASE WifiCall
  <2>1. main = "wifi" /\ UNCHANGED <<main, stop, microros, imu>>
    BY <1>9 DEF WifiCall, Call, boot, imuVars, imuStart
  <2>2. OrderOK'
    BY <1>1, <1>2, <2>1 DEF OrderOK
  <2> QED
    BY <1>4, <2>1, <2>2 DEF BootTypeOK
<1>10. CASE WifiReturned
  <2>1. /\ main = "wifi" /\ UNCHANGED <<imu, verdict, microros>> /\ running /\ ~microros
        /\ mode \in RosModes
        /\ \/ verdict = "ok" /\ main' = "microros" /\ stop' = stop
           \/ main' = "returned" /\ stop' = TRUE
    BY <1>10 DEF WifiReturned, NetworkReady, StopAfterFailure, imuVars, imuStart,
                wifiVars, wifiCaller, OrderOK
  <2>2. OrderOK'
    BY <1>1, <1>2, <2>1 DEF OrderOK
  <2>3. stop' \in BOOLEAN /\ microros' \in BOOLEAN
    BY <2>1 DEF BootTypeOK
  <2> QED
    BY <1>4, <2>1, <2>2, <2>3
<1>11. CASE MicroRosStart
  <2>1. /\ main = "microros" /\ UNCHANGED <<imu, verdict>> /\ running
        /\ mode \in RosModes /\ ~stop /\ ~microros /\ main' = "returned"
        /\ \/ microros' = TRUE /\ stop' = stop
           \/ stop' = TRUE /\ microros' = microros
    BY <1>11 DEF MicroRosStart, StopAfterFailure, imuVars, imuStart, wifiVars,
                wifiCaller, OrderOK
  <2>2. OrderOK'
    BY <1>1, <1>2, <2>1 DEF OrderOK
  <2>3. stop' \in BOOLEAN /\ microros' \in BOOLEAN
    BY <2>1 DEF BootTypeOK
  <2> QED
    BY <1>4, <2>1, <2>2, <2>3
<1> QED
  BY <1>5, <1>6, <1>7, <1>8, <1>9, <1>10, <1>11

\* What runs beside app_main.
LEMMA BesideKeeps ==
  ASSUME BootInv, UNCHANGED boot, UNCHANGED <<imu, verdict>>
  PROVE  BootInv'
<1>1. UNCHANGED <<mode, main, motion, running, output, stuck, stop, microros>>
  BY DEF boot
<1>2. UNCHANGED MotionStages(mode)
  BY <1>1
<1> QED
  BY <1>1, <1>2 DEF BootInv, BootTypeOK, MotorsOK, OrderOK

\* Every step, component by component.
LEMMA StartupStep ==
  ASSUME StartupInv, [Next]_vars
  PROVE  StartupInv'
<1> USE DEF StartupInv
<1>1. CASE MotionStageDone \/ MotionStageFails
  <2>1. UNCHANGED <<wifiVars, imuVars>>
    BY <1>1 DEF MotionStageDone, MotionStageFails
  <2> QED
    BY <1>1, <2>1, ApKeeps, ImuUntouched, MotionKeeps
<1>2. CASE BuzzerOff \/ WifiReturned \/ MicroRosStart
  <2>1. UNCHANGED <<wifiVars, imuVars>>
    BY <1>2 DEF BuzzerOff, WifiReturned, MicroRosStart
  <2> QED
    BY <1>2, <2>1, ApKeeps, ImuUntouched, MainKeeps
<1>3. CASE MotionStarted
  <2>1. UNCHANGED wifiVars /\ (ImuEnter \/ UNCHANGED imuVars)
    BY <1>3 DEF MotionStarted
  <2> QED
    BY <1>3, <2>1, ApKeeps, ImuCallKeeps, ImuUntouched, MainKeeps
<1>4. CASE ImuCall
  <2>1. UNCHANGED wifiVars /\ ImuCallNext
    BY <1>4 DEF ImuCall, Call
  <2> QED
    BY <1>4, <2>1, ApKeeps, ImuCallKeeps, MainKeeps
<1>5. CASE ImuReturns
  <2>1. UNCHANGED imuVars /\ (WifiEnter \/ UNCHANGED wifiVars)
    BY <1>5 DEF ImuReturns
  <2> QED
    BY <1>5, <2>1, ApKeeps, WifiCallKeeps, ImuUntouched, MainKeeps
<1>6. CASE WifiCall
  <2>1. UNCHANGED imuVars /\ WifiCallNext
    BY <1>6 DEF WifiCall, Call
  <2> QED
    BY <1>6, <2>1, WifiCallKeeps, ImuUntouched, MainKeeps
<1>7. CASE Console \/ Sampler
  <2>1. UNCHANGED <<boot, wifiVars>> /\ (PauseNext \/ SamplerNext)
    BY <1>7 DEF Console, Sampler
  <2>2. UNCHANGED <<imu, verdict>>
    BY <2>1 DEF wifiVars, wifiCaller, PauseNext, PauseCheck, PauseSend, SamplerNext,
       Turn, TakePause, Resume, Poll, ReadSample, SamplerStep, imuStart
  <2> QED
    BY <2>1, <2>2, ApKeeps, PauseKeeps, BesideKeeps
<1>8. CASE EventLoop \/ Station \/ AccessPoint
  <2>1. /\ UNCHANGED <<boot, imuVars>>
        /\ EventLoopNext \/ StationNext \/ ApChanges
    BY <1>8 DEF EventLoop, Station, AccessPoint
  <2>2. UNCHANGED <<imu, verdict>>
    BY <2>1 DEF imuVars, imuStart, EventLoopNext, OnStart, OnDisconnected, OnGotIp,
       Handle, StationNext, StationJoins, StationFails, Post, ApChanges, wifiCaller
  <2> QED
    BY <2>1, <2>2, EventLoopKeeps, StationKeeps, ApKeeps, ImuUntouched, BesideKeeps
<1>9. CASE UNCHANGED vars
  <2>1. UNCHANGED <<boot, wifiVars, imuVars, imu, verdict>>
    BY <1>9 DEF vars, imuVars, imuStart, wifiVars, wifiCaller
  <2> QED
    BY <2>1, ApKeeps, ImuUntouched, BesideKeeps
<1> QED
  BY <1>1, <1>2, <1>3, <1>4, <1>5, <1>6, <1>7, <1>8, <1>9 DEF Next, MainNext

-----------------------------------------------------------------------------
(* Theorems. *)

\* The inductive invariant of the start-up and of the components it starts.
THEOREM StartupInvariance == Spec => []StartupInv
<1>1. Init => StartupInv
  BY WifiInitInv, ImuInitInv, BootInitInv DEF Init, StartupInv
<1>2. StartupInv /\ [Next]_vars => StartupInv'
  BY StartupStep
<1> QED
  BY <1>1, <1>2, PTL DEF Spec

\* Every variable of the start-up, the backend and the station keeps its type.
THEOREM StartupTypeCorrect == Spec => []StartupTypeOK
<1>1. StartupInv => StartupTypeOK
  BY DEF StartupInv, WifiInv, ImuInv, BootInv, BootTypeOK, StartupTypeOK
<1> QED
  BY <1>1, StartupInvariance, PTL

\* The sampling task has every handle it uses, and a sensor whose registers
\* were verified after a real reset.
THEOREM SamplingIsProvided == Spec => []TaskIsProvided
<1>1. StartupInv => TaskIsProvided
  BY ImuInvImplies DEF StartupInv
<1> QED
  BY <1>1, StartupInvariance, PTL

\* A failed start of the IMU releases everything, and no queue is deleted
\* under the console.
THEOREM FailedStartIsReleased == Spec => []NothingDangles
<1>1. StartupInv => NothingDangles
  BY ImuInvImplies DEF StartupInv
<1> QED
  BY <1>1, StartupInvariance, PTL

\* An accepted pause begins within a pause, a wait for data and two I2C calls.
THEOREM PausesAreServed == Spec => []PauseServedSoon
<1>1. StartupInv => PauseServedSoon
  BY ImuInvImplies DEF StartupInv
<1> QED
  BY <1>1, StartupInvariance, PTL

\* robot_wifi_connect reports what happened first, an address or giving up.
THEOREM VerdictsAreFirst == Spec => []VerdictIsFirst
<1>1. StartupInv => VerdictIsFirst
  BY DEF StartupInv, WifiInv, WokenOK
<1> QED
  BY <1>1, StartupInvariance, PTL

\* The station gives up only after all its retries, and for good.
THEOREM GivingUpIsFinal == Spec => []GivesUpForGood
<1>1. StartupInv => GivesUpForGood
  BY DEF StartupInv, WifiInv, FailedOK
<1> QED
  BY <1>1, StartupInvariance, PTL

\* The start-up is complete or has asked for a stop, and leaves no motor that
\* takes a call enabled and running.
THEOREM StartupStartsOrStops == Spec => []StartsOrStops
<1>1. StartupInv => StartsOrStops
  BY DEF StartupInv, BootInv, BootTypeOK, OrderOK, MotorsOK, StartsOrStops, WifiInv,
         WokenOK, VerdictIsFirst
<1> QED
  BY <1>1, StartupInvariance, PTL
-----------------------------------------------------------------------------
(* The station keeps the promise of StationKeeper. *)

\* A caller that waits has been told nothing yet, waits for a station that was
\* started, and was woken by the first bit.
CallerOK ==
  /\ wifi # "returned" => verdict = "none"
  /\ wifi \in {"started", "blocked"} => station # "stopped"
  /\ wifi = "blocked" /\ bits # {} => woken # {}

WifiStep ==
  \/ WifiEnter \/ WifiCallNext \/ EventLoopNext \/ StationNext \/ ApChanges
  \/ UNCHANGED wifiVars

\* What a step of the whole start-up is for the station.
LEMMA StepOfWifi == [Next]_vars => WifiStep
  BY DEF Next, MainNext, BuzzerOff, MotionStageDone, MotionStageFails, MotionStarted,
         ImuCall, ImuReturns, WifiCall, WifiReturned, MicroRosStart, Call, Console,
         Sampler, EventLoop, Station, AccessPoint, WifiStep, vars

LEMMA CallerKeeps ==
  ASSUME WifiInv, CallerOK, WifiStep
  PROVE  CallerOK'
<1>1. CASE WifiEnter \/ ApChanges \/ UNCHANGED wifiVars
  BY <1>1 DEF WifiEnter, ApChanges, wifiVars, wifiCaller, wifiEvents, CallerOK
<1>2. CASE WifiCallNext
  BY <1>2 DEF WifiCallNext, WifiSetup, WifiSetupFails, WifiWait, WifiWake, WifiTimeout,
              WifiReturns, wifiEvents, CallerOK
<1>3. CASE EventLoopNext
  <2>1. UNCHANGED <<wifi, verdict>> /\ (station' = station \/ station' = "connecting")
    BY <1>3 DEF EventLoopNext, OnStart, OnDisconnected, OnGotIp, Handle, Reconnect,
                Connect, GiveUp, wifiCaller
  <2>2. UNCHANGED <<bits, woken>> \/ \E bit : SetBit(bit)
    BY <1>3 DEF EventLoopNext, OnStart, OnDisconnected, OnGotIp, Reconnect, Connect,
                GiveUp
  <2> QED
    BY <2>1, <2>2 DEF SetBit, CallerOK
<1>4. CASE StationNext
  BY <1>4 DEF StationNext, StationJoins, StationFails, Post, wifiCaller, CallerOK
<1> QED
  BY <1>1, <1>2, <1>3, <1>4 DEF WifiStep

\* The caller starts the station and is told, once, what happened.
LEMMA CallIsKept ==
  ASSUME WifiInv, CallerOK, WifiEnter \/ WifiCallNext
  PROVE  [Keeper!Next]_Keeper!keeperVars
<1>1. CASE WifiEnter
  BY <1>1 DEF WifiEnter, wifiEvents, Link, Keeper!keeperVars
<1>2. CASE WifiSetup
  <2>1. /\ wifi = "setup" /\ verdict = "none" /\ station = "stopped" /\ bits = {}
        /\ UNCHANGED <<verdict, bits, tries, refused, first>>
        /\ station' = station \/ station' = "idle"
    BY <1>2 DEF WifiSetup, WifiInv, EventsOK, CallerOK
  <2> QED
    BY <2>1 DEF Link, Keeper!Start, Keeper!Next, Keeper!keeperVars
<1>3. CASE WifiSetupFails
  <2>1. /\ verdict = "none" /\ verdict' = "error" /\ station = "stopped" /\ bits = {}
        /\ UNCHANGED <<station, bits, tries, refused, first>>
    BY <1>3 DEF WifiSetupFails, WifiReturns, wifiEvents, WifiInv, EventsOK, CallerOK
  <2> QED
    BY <2>1 DEF Link, Keeper!Tell, Keeper!Next
<1>4. CASE WifiWait \/ WifiWake \/ WifiTimeout
  <2>1. UNCHANGED <<station, bits, tries, refused, first>>
    BY <1>4 DEF WifiWait, WifiWake, WifiTimeout, wifiEvents
  <2>2. Link' = Link
    BY <2>1 DEF Link
  <2>3. CASE verdict' = verdict
    BY <2>1, <2>2, <2>3 DEF Keeper!keeperVars
  <2>4. CASE verdict' # verdict
    <3>1. /\ verdict = "none" /\ station # "stopped"
          /\ \/ bits # {} /\ verdict' = VerdictOn(bits)
             \/ woken # {} /\ verdict' = VerdictOn(woken)
             \/ bits = {} /\ verdict' = VerdictOn(bits)
      BY <1>4, <2>4 DEF WifiWait, WifiWake, WifiTimeout, WifiReturns, CallerOK
    <3>2. /\ woken \subseteq bits /\ bits \subseteq {"CONNECTED", "FAILED"}
          /\ "CONNECTED" \in bits => first = "address"
          /\ "FAILED" \in bits /\ "CONNECTED" \notin bits => first = "gave_up"
          /\ "FAILED" \in woken /\ "CONNECTED" \notin woken => first = "gave_up"
      BY DEF WifiInv, WifiTypeOK, Bits, FirstOK, WokenOK
    <3>3. \/ verdict' = "ok" /\ first = "address"
          \/ verdict' = "fail" /\ first = "gave_up"
          \/ verdict' = "timeout" /\ bits = {}
      BY <3>1, <3>2 DEF VerdictOn
    <3>4. bits = {} => Link \in {"trying", "online"}
      BY <3>1 DEF Link
    <3> QED
      BY <2>1, <2>2, <3>1, <3>3, <3>4 DEF Keeper!Tell, Keeper!Next
  <2> QED
    BY <2>3, <2>4
<1> QED
  BY <1>1, <1>2, <1>3, <1>4 DEF WifiCallNext

\* An attempt, or giving up, of a station that has just lost or not yet had one.
LEMMA ConnectIsKept ==
  ASSUME WifiInv, Connect, station = "idle", "FAILED" \notin bits, UNCHANGED verdict,
         tries <= MaxRetry
  PROVE  Keeper!Next
<1>1. Link = "trying"
  BY DEF Link
<1>2. CASE /\ station' = "connecting" /\ tries' = tries + 1
           /\ UNCHANGED <<bits, woken, refused, first>>
  <2>1. Link' = "trying"
    BY <1>2 DEF Link
  <2> QED
    BY <1>1, <1>2, <2>1 DEF Keeper!Try, Keeper!Next
<1>3. CASE refused' = TRUE /\ GiveUp
  <2>1. Link' = "over"
    BY <1>3 DEF GiveUp, SetBit, Link
  <2> QED
    BY <1>1, <1>3, <2>1 DEF GiveUp, Keeper!Happens, Keeper!GiveUp, Keeper!Next
<1> QED
  BY <1>2, <1>3 DEF Connect

\* The handler tries again or gives up; an address it learns of is not new.
LEMMA EventLoopIsKept ==
  ASSUME WifiInv, EventLoopNext
  PROVE  [Keeper!Next]_Keeper!keeperVars
<1>1. /\ MaxRetry \in Nat /\ retries \in 0 .. MaxRetry /\ tries \in Nat
      /\ refused \in BOOLEAN
  BY WifiAssumption DEF WifiInv, WifiTypeOK
<1>2. "GOT_IP" \in WifiEvents /\ "STA_START" \in WifiEvents /\ "DISCONNECTED" \in WifiEvents
  BY DEF WifiEvents
<1>3. CASE OnStart
  <2>1. /\ station = "idle" /\ "FAILED" \notin bits /\ events = <<"STA_START">>
        /\ UNCHANGED verdict
    BY <1>2, <1>3, HandleFacts DEF OnStart
  <2>2. tries = 0
    BY <2>1 DEF WifiInv, TriesOK
  <2> QED
    BY <1>1, <1>3, <2>1, <2>2, ConnectIsKept DEF OnStart
<1>4. CASE OnDisconnected
  <2>1. /\ station = "idle" /\ ~AddressPending /\ "FAILED" \notin bits
        /\ UNCHANGED verdict
    BY <1>2, <1>4, HandleFacts DEF OnDisconnected
  <2>2. ~refused /\ tries \in {retries, retries + 1}
    BY <2>1 DEF WifiInv, FailedOK, TriesOK
  <2>3. CASE retries < MaxRetry
    <3>1. Connect /\ tries <= MaxRetry
      BY <1>1, <1>4, <2>2, <2>3 DEF OnDisconnected, Reconnect
    <3> QED
      BY <2>1, <3>1, ConnectIsKept
  <2>4. CASE ~(retries < MaxRetry)
    <3>1. GiveUp /\ UNCHANGED refused /\ tries >= MaxRetry
      BY <1>1, <1>4, <2>2, <2>4 DEF OnDisconnected, Reconnect
    <3>2. Link = "trying" /\ Link' = "over"
      BY <2>1, <3>1 DEF GiveUp, SetBit, Link
    <3> QED
      BY <2>1, <2>2, <3>1, <3>2
      DEF GiveUp, Keeper!Happens, Keeper!GiveUp, Keeper!Next
  <2> QED
    BY <2>3, <2>4
<1>5. CASE OnGotIp
  <2>1. /\ UNCHANGED <<verdict, station, tries, refused, first>>
        /\ "FAILED" \in bits' <=> "FAILED" \in bits
    BY <1>5 DEF OnGotIp, Handle, SetBit, wifiCaller
  <2> QED
    BY <2>1 DEF Link, Keeper!keeperVars
<1> QED
  BY <1>3, <1>4, <1>5 DEF EventLoopNext

\* The driver's station joins, fails on its way, or loses its access point.
LEMMA StationIsKept ==
  ASSUME WifiInv, StationNext
  PROVE  [Keeper!Next]_Keeper!keeperVars
<1>1. /\ UNCHANGED <<verdict, bits, refused>> /\ "FAILED" \notin bits
  BY DEF StationNext, StationJoins, StationFails, Post, wifiCaller, WifiInv, FailedOK,
         GivesUpForGood
<1>2. CASE StationJoins
  <2>1. Link = "trying" /\ Link' = "online"
    BY <1>1, <1>2 DEF StationJoins, Link
  <2> QED
    BY <1>1, <1>2, <2>1 DEF StationJoins, Keeper!Happens, Keeper!Join, Keeper!Next
<1>3. CASE StationFails
  <2>1. UNCHANGED <<tries, first>> /\ Link \in {"trying", "online"} /\ Link' = "trying"
    BY <1>1, <1>3 DEF StationFails, Link
  <2> QED
    BY <1>1, <2>1 DEF Keeper!Lose, Keeper!Next, Keeper!keeperVars
<1> QED
  BY <1>2, <1>3 DEF StationNext

\* Whatever app_main, the driver and the access point do, and however often,
\* every step of the start-up is one of StationKeeper or leaves it alone.
THEOREM StartupImplementsKeeper == Spec => KeeperSpec
<1>1. Init => CallerOK /\ Keeper!Init
  BY DEF Init, WifiInit, CallerOK, Link, Keeper!Init
<1>2. StartupInv /\ CallerOK /\ [Next]_vars => CallerOK'
  BY StepOfWifi, CallerKeeps DEF StartupInv
<1>3. StartupInv /\ CallerOK /\ [Next]_vars => [Keeper!Next]_Keeper!keeperVars
  <2> SUFFICES ASSUME StartupInv, CallerOK, [Next]_vars
               PROVE  [Keeper!Next]_Keeper!keeperVars
    OBVIOUS
  <2>1. WifiInv /\ WifiStep
    BY StepOfWifi DEF StartupInv
  <2>2. CASE ApChanges \/ UNCHANGED wifiVars
    BY <2>2 DEF ApChanges, wifiVars, wifiCaller, wifiEvents, Link, Keeper!keeperVars
  <2> QED
    BY <2>1, <2>2, CallIsKept, EventLoopIsKept, StationIsKept DEF WifiStep
<1> QED
  BY <1>1, <1>2, <1>3, StartupInvariance, PTL DEF Spec, KeeperSpec, Keeper!Spec
=============================================================================
