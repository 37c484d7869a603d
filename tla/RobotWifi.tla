------------------------------ MODULE RobotWifi ------------------------------
(***************************************************************************)
(* The Wi-Fi station of robot_wifi.c.  The main task sets it up, starts it *)
(* and waits once, for up to 30 s, for an address or for a failure.  The   *)
(* event-loop task runs the handler, which connects, retries a bounded     *)
(* number of times, and sets the two bits the main task waits for; they    *)
(* are never cleared.  The driver and the access point are external.       *)
(*                                                                         *)
(* The module has no Next of its own: Startup composes it with the task    *)
(* that calls it.                                                          *)
(***************************************************************************)
EXTENDS Integers, Sequences

CONSTANT MaxRetry   \* CONFIG_ROBOT_WIFI_MAXIMUM_RETRY

ASSUME WifiAssumption == MaxRetry \in Nat \ {0}

VARIABLES
  wifi,      \* where robot_wifi_connect is
  wifiStep,  \* the stage of its set-up
  verdict,   \* what it has returned
  bits,      \* s_wifi_events
  woken,     \* the bits that ended the wait of a blocked caller
  retries,   \* s_retry_count
  station,   \* external: the driver's station
  events,    \* external: what the driver has posted to the event loop
  ap,        \* external: an attempt finds its access point and an address
  tries,     \* history: attempts since the last address
  refused,   \* history: esp_wifi_connect itself has failed
  first      \* history: what happened first, an address or giving up

wifiCaller == <<wifi, wifiStep, verdict>>
wifiEvents == <<bits, woken, retries, station, events, tries, refused, first>>
wifiVars == <<wifiCaller, wifiEvents, ap>>

\* The calls of robot_wifi_connect that may fail, in their order.
WifiStages ==
  << "ssid", "nvs", "events", "netif", "event_loop", "netif_sta", "init",
     "on_wifi_event", "on_got_ip", "mode", "config", "start" >>

Bits == {"CONNECTED", "FAILED"}
WifiEvents == {"STA_START", "DISCONNECTED", "GOT_IP"}

WifiTypeOK ==
  /\ wifi \in {"idle", "setup", "started", "blocked", "returned"}
  /\ wifiStep \in 1 .. Len(WifiStages)
  /\ verdict \in {"none", "ok", "fail", "timeout", "error"}
  /\ bits \subseteq Bits /\ woken \subseteq Bits
  /\ retries \in 0 .. MaxRetry
  /\ station \in {"stopped", "idle", "connecting", "online"}
  /\ events \in Seq(WifiEvents)
  /\ ap \in BOOLEAN
  /\ tries \in 0 .. MaxRetry + 1
  /\ refused \in BOOLEAN
  /\ first \in {"none", "address", "gave_up"}

WifiInit ==
  /\ wifi = "idle" /\ wifiStep = 1 /\ verdict = "none"
  /\ bits = {} /\ woken = {} /\ retries = 0
  /\ station = "stopped" /\ events = <<>> /\ ap \in BOOLEAN
  /\ tries = 0 /\ refused = FALSE /\ first = "none"

-----------------------------------------------------------------------------
(* robot_wifi_connect, in the main task.                                   *)

WifiReturns(result) == wifi' = "returned" /\ verdict' = result

WifiEnter ==
  /\ wifi = "idle" /\ wifi' = "setup"
  /\ UNCHANGED <<wifiStep, verdict, wifiEvents, ap>>

\* The last stage starts the station, which posts STA_START.
WifiSetup ==
  /\ wifi = "setup"
  /\ IF wifiStep < Len(WifiStages)
     THEN wifiStep' = wifiStep + 1 /\ UNCHANGED <<wifi, station, events>>
     ELSE /\ wifi' = "started" /\ station' = "idle"
          /\ events' = Append(events, "STA_START")
          /\ UNCHANGED wifiStep
  /\ UNCHANGED <<verdict, bits, woken, retries, tries, refused, first, ap>>

\* A stage fails.  What the earlier ones made stays.
WifiSetupFails ==
  /\ wifi = "setup" /\ WifiReturns("error")
  /\ UNCHANGED <<wifiStep, wifiEvents, ap>>

\* Mutant: a failure is looked for first.
VerdictOnFailureFirst(seen) ==
  IF "FAILED" \in seen THEN "fail"
  ELSE IF "CONNECTED" \in seen THEN "ok" ELSE "timeout"

VerdictOn(seen) ==
  IF "CONNECTED" \in seen THEN "ok"
  ELSE IF "FAILED" \in seen THEN "fail" ELSE "timeout"

\* xEventGroupWaitBits returns at once when a bit is set already.
WifiWait ==
  /\ wifi = "started"
  /\ IF bits = {} THEN wifi' = "blocked" /\ UNCHANGED verdict
     ELSE WifiReturns(VerdictOn(bits))
  /\ UNCHANGED <<wifiStep, wifiEvents, ap>>

WifiWake ==
  /\ wifi = "blocked" /\ woken # {} /\ WifiReturns(VerdictOn(woken))
  /\ UNCHANGED <<wifiStep, wifiEvents, ap>>

WifiTimeout ==
  /\ wifi = "blocked" /\ woken = {} /\ WifiReturns(VerdictOn(bits))
  /\ UNCHANGED <<wifiStep, wifiEvents, ap>>

-----------------------------------------------------------------------------
(* wifi_event_handler, in the event-loop task.                             *)

\* A blocked caller is woken with the bits as they are at that moment,
\* whenever it runs again.
SetBit(bit) ==
  /\ bits' = bits \cup {bit}
  /\ woken' = IF wifi = "blocked" /\ woken = {} THEN bits' ELSE woken

GiveUp ==
  /\ SetBit("FAILED")
  /\ first' = IF first = "none" THEN "gave_up" ELSE first
  /\ UNCHANGED <<station, tries>>

\* esp_wifi_connect, and mark_connection_failed when it is refused.
Connect ==
  \/ /\ station' = "connecting" /\ tries' = tries + 1
     /\ UNCHANGED <<bits, woken, refused, first>>
  \/ refused' = TRUE /\ GiveUp

Handle(event) ==
  /\ events # <<>> /\ Head(events) = event /\ events' = Tail(events)
  /\ UNCHANGED <<wifiCaller, ap>>

OnStart == Handle("STA_START") /\ Connect /\ UNCHANGED retries

\* Mutant: only the first connection is retried.
ReconnectOnceOnly ==
  IF "CONNECTED" \in bits
  THEN UNCHANGED <<retries, bits, woken, station, tries, refused, first>>
  ELSE IF retries < MaxRetry THEN retries' = retries + 1 /\ Connect
  ELSE GiveUp /\ UNCHANGED <<retries, refused>>

Reconnect ==
  IF retries < MaxRetry THEN retries' = retries + 1 /\ Connect
  ELSE GiveUp /\ UNCHANGED <<retries, refused>>

OnDisconnected == Handle("DISCONNECTED") /\ Reconnect

\* Mutant: retries count for the life of the program.
RetriesAfterAddressKept == retries

RetriesAfterAddress == 0

OnGotIp ==
  /\ Handle("GOT_IP")
  /\ retries' = RetriesAfterAddress
  /\ SetBit("CONNECTED")
  /\ UNCHANGED <<station, tries, refused, first>>

-----------------------------------------------------------------------------
(* The driver and the access point.  Whatever makes an attempt fail (no    *)
(* access point, a wrong password, no DHCP answer) is ap = FALSE; each     *)
(* attempt and each loss of the link ends in one event.                    *)

Post(event) ==
  /\ events' = Append(events, event)
  /\ UNCHANGED <<wifiCaller, bits, woken, retries, refused, ap>>

StationJoins ==
  /\ station = "connecting" /\ ap /\ station' = "online"
  /\ Post("GOT_IP")
  /\ tries' = 0
  /\ first' = IF first = "none" THEN "address" ELSE first

StationFails ==
  /\ station \in {"connecting", "online"} /\ ~ap /\ station' = "idle"
  /\ Post("DISCONNECTED")
  /\ UNCHANGED <<tries, first>>

ApChanges == ap' = ~ap /\ UNCHANGED <<wifiCaller, wifiEvents>>

WifiCallNext ==
  \/ WifiSetup \/ WifiSetupFails \/ WifiWait \/ WifiWake \/ WifiTimeout
EventLoopNext == OnStart \/ OnDisconnected \/ OnGotIp
StationNext == StationJoins \/ StationFails

-----------------------------------------------------------------------------
(* Properties. *)

\* What robot_wifi_connect returns is what happened first, an address or
\* giving up, however its wait interleaves with the handler: an address that
\* is lost again before the caller looks still counts, and giving up is not
\* taken back.
VerdictIsFirst ==
  /\ verdict = "ok" => first = "address"
  /\ verdict = "fail" => first = "gave_up"

\* The station gives up only after all its retries since the last address, or
\* when the driver refuses to connect, and then for good: it is idle, no event
\* will come, and nothing in the program connects it again.
GivesUpForGood ==
  "FAILED" \in bits =>
    /\ refused \/ tries \in {MaxRetry, MaxRetry + 1}
    /\ station = "idle" /\ events = <<>>

\* However the driver, the access point and the waiting caller interleave with
\* the handler, the station keeps the promise of StationKeeper: it is never left
\* idle before it has given up, and the caller is told once, and the truth.
Link ==
  IF "FAILED" \in bits THEN "over"
  ELSE IF station = "stopped" THEN "off"
  ELSE IF station = "online" THEN "online" ELSE "trying"
Keeper ==
  INSTANCE StationKeeper WITH
    Retries <- MaxRetry, link <- Link, spent <- tries, answer <- verdict
KeeperSpec == Keeper!Spec

\* When the access point stays, a started station ends up online for good
\* unless it has given up before: no lost event or late address leaves it
\* idle in between.
StationSettles ==
  <>[]ap => <>[](station \in {"stopped", "online"} \/ "FAILED" \in bits)
=============================================================================
