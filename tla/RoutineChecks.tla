---------------------------- MODULE RoutineChecks ----------------------------
(***************************************************************************)
(* When the OTA task checks for an update: the loop of ota_task            *)
(* (main/ota.c), the policy that defers a routine check while the local    *)
(* control plane is in use (main/ota_policy_core.c), and what the policy   *)
(* looks at: the clients the WiFi event handler has counted on the SoftAP  *)
(* (main/wifi.c) and the time of the last HTTP request (main/webui.c).     *)
(*                                                                         *)
(* Time is counted in ticks, and ages only as far as the policy tells them *)
(* apart.  A decision takes no time.  What a check does is OtaLifecycle's; *)
(* why the AP is started and stopped is WifiSupervisor's.                  *)
(***************************************************************************)
EXTENDS Integers, Sequences, FiniteSets

CONSTANTS
    AP_MAX_CONN,
    HttpQuiet,          \* OTA_HTTP_QUIET_PERIOD_MS
    ApQuiet,            \* OTA_AP_QUIET_PERIOD_MS
    FirstCheck,         \* FIRST_CHECK_DELAY_MS
    CheckRetry,         \* CHECK_RETRY_MS
    CheckInterval,      \* CHECK_INTERVAL_MS
    TransportReady,     \* TRANSPORT_READY_MS
    MaxEvents           \* bound: the events not yet handled

ASSUME QuietAssumption ==
    /\ AP_MAX_CONN \in Nat /\ MaxEvents \in Nat
    /\ {HttpQuiet, ApQuiet, FirstCheck, CheckRetry, CheckInterval, TransportReady}
          \subseteq Nat \ {0}

VARIABLES
    wifi,           \* "sta"; "starting": the AP is up, the state not yet AP; "ap";
                    \* "leaving": the state is no longer AP, the AP still up
    phones,         \* external: how many phones are on the AP
    events,         \* external: arrivals and departures the handler has not seen
    ap,             \* s_status: ap_client_count, which of the two AP timestamps is
                    \* the later, and the age of the last disassociation
    sinceRequest,   \* the age of last_request_uptime_ms
    ota,            \* ota_task: where it is, the time it has left there, is the check routine
    trigger,        \* s_trigger holds a request
    alone,          \* history: for how long the handler has known of no phone
    unreported      \* history: phones were gone with the AP and no event told

vars == <<wifi, phones, events, ap, sinceRequest, ota, trigger, alone, unreported>>

AtMost(n, limit) == IF n < limit THEN n ELSE limit
Busy == ota.at \in {"transport", "check"}
Pending(kind) == Cardinality({n \in DOMAIN events : events[n] = kind})

\* The phones that are there as far as the events that were handled tell.
Known == (phones + Pending("left")) - Pending("joined")

-----------------------------------------------------------------------------
(* The SoftAP *)

Radio == wifi # "sta"
Deciding == ota.at = "decide"

Post(kind) ==
    /\ Len(events) < MaxEvents
    /\ events' = Append(events, kind)

PhoneJoins ==
    /\ Radio
    /\ phones < AP_MAX_CONN
    /\ phones' = phones + 1
    /\ Post("joined")
    /\ UNCHANGED <<wifi, ap, sinceRequest, ota, trigger, alone, unreported>>

PhoneLeaves ==
    /\ phones > 0
    /\ phones' = phones - 1
    /\ Post("left")
    /\ UNCHANGED <<wifi, ap, sinceRequest, ota, trigger, alone, unreported>>

\* event_handler: WIFI_EVENT_AP_STACONNECTED ...
CountedUnclamped == ap.clients + 1 \* mutant: AP_MAX_CONN does not bound the counter
Counted == AtMost(ap.clients + 1, AP_MAX_CONN)
HandleJoined ==
    /\ events # <<>> /\ Head(events) = "joined"
    /\ events' = Tail(events)
    /\ ap' = [ap EXCEPT !.clients = Counted, !.last = "joined"]
    /\ alone' = 0
    /\ UNCHANGED <<wifi, phones, sinceRequest, ota, trigger, unreported>>

\* ... and WIFI_EVENT_AP_STADISCONNECTED.
UncountedAll == 0 \* mutant: the counter is reset when a client leaves
UncountedNever == ap.clients \* mutant: a departure is not subtracted
Uncounted == IF ap.clients > 0 THEN ap.clients - 1 ELSE 0
HandleLeft ==
    /\ events # <<>> /\ Head(events) = "left"
    /\ events' = Tail(events)
    /\ ap' = [clients |-> Uncounted, last |-> "left", age |-> 0]
    /\ UNCHANGED <<wifi, phones, sinceRequest, ota, trigger, alone, unreported>>

-----------------------------------------------------------------------------
(* The WiFi task *)

\* start_ap, from esp_wifi_start to set_state(WIFI_UI_AP).
StartAp ==
    /\ wifi = "sta"
    /\ wifi' = "starting"
    /\ UNCHANGED <<phones, events, ap, sinceRequest, ota, trigger, alone, unreported>>

ShowAp ==
    /\ wifi = "starting"
    /\ wifi' = "ap"
    /\ UNCHANGED <<phones, events, ap, sinceRequest, ota, trigger, alone, unreported>>

\* New credentials: set_state(WIFI_UI_STA_CONNECTING), then start_sta.
LeaveAp ==
    /\ wifi = "ap"
    /\ wifi' = "leaving"
    /\ UNCHANGED <<phones, events, ap, sinceRequest, ota, trigger, alone, unreported>>

\* esp_wifi_stop: the phones are gone, and reported or not; nothing here clears
\* the counter.
PhonesGone ==
    /\ phones' = 0
    /\ \/ /\ Len(events) + phones <= MaxEvents
          /\ events' = events \o [n \in 1..phones |-> "left"]
          /\ UNCHANGED unreported
       \/ /\ phones > 0
          /\ unreported' = TRUE
          /\ UNCHANGED events

StopAp ==
    /\ wifi = "leaving"
    /\ wifi' = "sta"
    /\ PhonesGone
    /\ UNCHANGED <<ap, sinceRequest, ota, trigger, alone>>

\* The credentials were cleared: start_ap while the AP is up.
RestartAp ==
    /\ wifi = "ap"
    /\ PhonesGone
    /\ UNCHANGED <<wifi, ap, sinceRequest, ota, trigger, alone>>

-----------------------------------------------------------------------------
(* The web server's task *)

\* observed_handler stamps the request when it arrives.
NoteRequest ==
    /\ sinceRequest' = 0
    /\ UNCHANGED <<wifi, phones, events, ap, ota, trigger, alone, unreported>>

\* ota_check_now, on the way of a request or of an MQTT command; that it may look
\* at s_busy before and queue after a cycle has begun is OtaLifecycle's.
OtaCheckNow ==
    /\ ~Busy /\ ~trigger
    /\ trigger' = TRUE
    /\ UNCHANGED <<wifi, phones, events, ap, sinceRequest, ota, alone, unreported>>

-----------------------------------------------------------------------------
(* ota_task *)

Goes(to) == UNCHANGED <<wifi, phones, events, ap, sinceRequest, alone, unreported>> /\ ota' = to
Waits(ticks) == [at |-> "wait", left |-> ticks, routine |-> FALSE]

\* xQueueReceive returns with a request, or times out: a routine check.
TakeRequest ==
    /\ ota.at = "wait"
    /\ trigger
    /\ trigger' = FALSE
    /\ Goes([at |-> "decide", left |-> 0, routine |-> FALSE])

TimerFires ==
    /\ ota.at = "wait" /\ ota.left = 0
    /\ ~trigger
    /\ Goes([at |-> "decide", left |-> 0, routine |-> TRUE])
    /\ UNCHANGED trigger

\* ota_policy_evaluate.
HttpInUse == sinceRequest < HttpQuiet
ApInUse ==
    /\ wifi = "ap"
    /\ \/ ap.clients > 0
       \/ ap.last = "joined"
       \/ ap.last = "left" /\ ap.age < ApQuiet
Deferred == ota.routine /\ (HttpInUse \/ ApInUse)

Proceed ==
    /\ Deciding
    /\ ~Deferred
    /\ Goes([ota EXCEPT !.at = "transport", !.left = TransportReady])
    /\ UNCHANGED trigger

Defer ==
    /\ Deciding
    /\ Deferred
    /\ Goes(Waits(CheckRetry))
    /\ UNCHANGED trigger

\* wait_for_transport.
TransportReadied ==
    /\ ota.at = "transport"
    /\ Goes([ota EXCEPT !.at = "check", !.left = 0])
    /\ UNCHANGED trigger

TransportTimesOut ==
    /\ ota.at = "transport" /\ ota.left = 0
    /\ Goes(Waits(CheckRetry))
    /\ UNCHANGED trigger

\* run_check returns, and did well or not.
CheckEnds ==
    /\ ota.at = "check"
    /\ \E ticks \in {CheckRetry, CheckInterval} : Goes(Waits(ticks))
    /\ UNCHANGED trigger

-----------------------------------------------------------------------------
(* Time *)

\* Whoever is due has run before the next tick.
TickDue ==
    /\ events = <<>>
    /\ ~Deciding
    /\ ota.at = "wait" => ota.left > 0 /\ ~trigger
    /\ ota.at = "transport" => ota.left > 0

Tick ==
    /\ TickDue
    /\ sinceRequest' = AtMost(sinceRequest + 1, HttpQuiet)
    /\ ap' = [ap EXCEPT !.age = AtMost(@ + 1, ApQuiet)]
    /\ ota' = IF ota.at = "check" THEN ota ELSE [ota EXCEPT !.left = @ - 1]
    /\ alone' = IF Known > 0 THEN 0 ELSE AtMost(alone + 1, ApQuiet)
    /\ UNCHANGED <<wifi, phones, events, trigger, unreported>>

-----------------------------------------------------------------------------

\* The device boots: nothing was asked of it, and no phone was on its AP.
Init ==
    /\ wifi = "sta"
    /\ phones = 0 /\ events = <<>>
    /\ ap = [clients |-> 0, last |-> "never", age |-> ApQuiet]
    /\ sinceRequest = HttpQuiet
    /\ ota = Waits(FirstCheck) /\ trigger = FALSE
    /\ alone = ApQuiet /\ unreported = FALSE

OtaTask ==
    TakeRequest \/ TimerFires \/ Proceed \/ Defer \/ TransportReadied
    \/ TransportTimesOut \/ CheckEnds
EventHandler == HandleJoined \/ HandleLeft
WifiTask == StartAp \/ ShowAp \/ LeaveAp \/ StopAp \/ RestartAp
WebServer == NoteRequest \/ OtaCheckNow

Next == OtaTask \/ EventHandler \/ WifiTask \/ WebServer \/ PhoneJoins \/ PhoneLeaves \/ Tick

\* The OTA task and the event handler get to run and time goes on.  Nothing is
\* assumed of phones, of requests, or of the WiFi task.
Fairness == WF_vars(Tick) /\ WF_vars(OtaTask) /\ WF_vars(EventHandler)

Spec == Init /\ [][Next]_vars /\ Fairness

-----------------------------------------------------------------------------
(* Properties *)

\* Every variable has its type: the client counter stays within AP_MAX_CONN although
\* departures are missed, and it is positive while an association is the last event
\* (the policy need not look at a count of zero with a client on the AP).
TypeOK ==
    /\ wifi \in {"sta", "starting", "ap", "leaving"}
    /\ phones \in 0..AP_MAX_CONN
    /\ events \in Seq({"joined", "left"}) /\ Len(events) <= MaxEvents
    /\ ap \in [clients : 0..AP_MAX_CONN, last : {"never", "joined", "left"}, age : 0..ApQuiet]
    /\ ap.last = "joined" => ap.clients > 0
    /\ sinceRequest \in 0..HttpQuiet /\ alone \in 0..ApQuiet
    /\ ota \in [at : {"wait", "decide", "transport", "check"}, left : Nat, routine : BOOLEAN]
    /\ ota.at \notin {"wait", "transport"} => ota.left = 0
    /\ trigger \in BOOLEAN /\ unreported \in BOOLEAN

\* "A routine background check is deferred while a SoftAP client is associated and
\* for five minutes after the last disassociation, or while the HTTP control plane
\* was used in the last minute" (README.md:192-194), whatever phones come and go,
\* the AP is stopped and started, and the counter saturates or misses a departure.
\* The promise is kept at the decision: a phone whose arrival is not handled yet,
\* or that arrives while the task then waits for a transport, is not seen.
ClientsUndisturbed ==
    [][Deciding /\ ota.routine /\ Proceed =>
         /\ sinceRequest >= HttpQuiet
         /\ wifi = "ap" => Known <= 0 /\ alone >= ApQuiet]_vars

\* Deferral is bounded: once the phones and the browsers are gone, checks are made
\* for ever.  The exception is real: phones whose departure is not reported when the
\* AP is stopped stay in ap_client_count (wifi.c:158), and no routine check is made
\* while the AP is up again.
RoutineChecksResume ==
    \/ <>[](sinceRequest = HttpQuiet /\ phones = 0 /\ ~unreported)
    \/ <>[](sinceRequest = HttpQuiet /\ wifi = "sta")
    => []<>(ota.at = "transport")
=============================================================================
