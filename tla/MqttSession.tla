---------------------------- MODULE MqttSession ----------------------------
(***************************************************************************)
(* The broker session of main/mqtt.c.  Four tasks share its statics: the   *)
(* esp-mqtt task, which runs mqtt_event_handler; the datalog task, which   *)
(* publishes telemetry and, from mqtt_maintenance_tick, the retained       *)
(* "online" state; the web server, which calls mqtt_set_config; and        *)
(* status_task.  A publisher knows that the broker has its message only    *)
(* through EV_PUBACK, which the handler sets when the id of an             *)
(* acknowledged message equals s_pending_msg_id.                           *)
(*                                                                         *)
(* A section under s_mutex is one step, enabled while s_mutex is free; the *)
(* one section that blocks inside, restart_client_locked, holds it.        *)
(*                                                                         *)
(* The esp-mqtt library and the broker are external, modelled by what this *)
(* code relies on: QoS 1 messages wait in an outbox of limited size and    *)
(* are sent again after a reconnect, acknowledgements come in order, the   *)
(* last will is published when a session is lost but not when the client   *)
(* is stopped, and esp_mqtt_client_stop waits for a running handler.       *)
(* Message ids are taken to be unique: the library draws them from 2^16.   *)
(***************************************************************************)
EXTENDS Integers, SequencesExt

CONSTANTS
    OutboxMax,  \* OUTBOX_LIMIT_BYTES, in messages
    MaxId,      \* bound: at most this many messages are published
    MaxDrops,   \* bound: the broker session is lost at most this often
    MaxSwaps    \* bound: mqtt_set_config is called at most this often

ASSUME LimitsAssumption ==
    /\ OutboxMax \in Nat \ {0} /\ MaxId \in Nat
    /\ MaxDrops \in Nat /\ MaxSwaps \in Nat

VARIABLES
    \* mqtt.c statics
    mutex,         \* s_mutex is held by restart_client_locked
    pubMutex,      \* who holds s_pub_mutex
    evPuback,      \* EV_PUBACK
    pendingId,     \* s_pending_msg_id
    connected,     \* s_connected
    rollbackId,    \* s_rollback_msg_id
    requested,     \* s_availability_requested
    confirmed,     \* s_status.availability_confirmed
    everConnected, \* s_ever_connected
    timePublished, \* s_time_status_published
    \* the tasks: where each is, and its locals
    pub,           \* the two publishers
    handler,       \* mqtt_event_handler
    statusTask,    \* status_task
    \* ota.c and timesync.c
    evidence,      \* rollback_detected
    timeValid,     \* timesync_valid()
    \* the library and the broker
    swaps,         \* how often the client was replaced
    session,       \* "down", "up", or "lost" until the handler has been told
    nextId, outbox, wire, acks,
    retained,      \* the retained availability document
    received,      \* messages the broker has received
    drops,
    \* history
    counted,       \* telemetry messages reported as published
    strays,        \* a publisher gave up just before its EV_PUBACK was set
    timeEvents     \* status events that were to report the time first

locks == <<mutex, pubMutex>>
ack == <<evPuback, pendingId>>
availability == <<requested, confirmed>>
status == <<everConnected, timePublished, statusTask>>
world == <<evidence, timeValid>>
library == <<swaps, session, nextId, outbox, wire, acks>>
broker == <<retained, received, drops>>
history == <<counted, strays, timeEvents>>
flags == <<connected, rollbackId, availability, status, world>>
publishing == <<locks, ack, pub>>
net == <<library, broker>>
vars == <<publishing, handler, flags, net, history>>

Publishers == {"datalog", "web"}
NoMsg == [id |-> -1, kind |-> "none"]
IdlePublisher == [at |-> "idle", job |-> "none", msg |-> NoMsg, ok |-> FALSE]
IdleHandler == [at |-> "idle", id |-> -1, first |-> FALSE, timeKnown |-> FALSE]

-----------------------------------------------------------------------------
(* esp_mqtt_client_publish and _enqueue (external). *)

CanQueue == Len(outbox) < OutboxMax /\ nextId <= MaxId
Numbered(k) == [id |-> nextId, kind |-> k]

Queue(m) ==
    /\ outbox' = Append(outbox, m)
    /\ wire' = IF session = "up" THEN Append(wire, m) ELSE wire
    /\ nextId' = nextId + 1
    /\ UNCHANGED <<swaps, session, acks>>

-----------------------------------------------------------------------------
(* Publishers: mqtt_publish_telemetry and publish_availability. *)

Begin(p, job) ==
    /\ pub[p] = IdlePublisher
    /\ pub' = [pub EXCEPT ![p].at = "lock", ![p].job = job]
    /\ UNCHANGED <<locks, ack, flags, handler, net, history>>

\* The datalog task publishes a row, when there is a session to publish it on.
TelemetryBegin == connected /\ Begin("datalog", "telemetry")

\* mqtt_maintenance_tick: an online state that was requested is (re)tried.
MaintenanceTick == ~mutex /\ connected /\ requested /\ Begin("datalog", "online")

\* mqtt_set_config saves the configuration and announces that it goes offline.
SetConfig == swaps < MaxSwaps /\ Begin("web", "offline")

\* s_pub_mutex serializes the round trips; each starts with EV_PUBACK clear.
PublishLock(p) ==
    /\ pub[p].at = "lock"
    /\ pub[p].job = "telemetry" => ~mutex
    /\ pubMutex = "none"
    /\ pubMutex' = p
    /\ evPuback' = FALSE
    /\ pub' = [pub EXCEPT ![p].at = "send"]
    /\ UNCHANGED <<mutex, pendingId, flags, handler, net, history>>

\* Nothing was sent: the round trip is over before it began.
RefusedKeepsLock(p) == \* mutant
    /\ pub' = [pub EXCEPT ![p].at = "settle"]
    /\ pendingId' = -1
    /\ UNCHANGED <<library, pubMutex>>
Refused(p) ==
    /\ pub' = [pub EXCEPT ![p].at = "settle"]
    /\ pendingId' = -1 /\ pubMutex' = "none"
    /\ UNCHANGED library

\* Telemetry is sent first and recorded as pending in a later step.
SendTelemetry ==
    /\ pub["datalog"].at = "send" /\ pub["datalog"].job = "telemetry"
    /\ \/ /\ CanQueue
          /\ Queue(Numbered("telemetry"))
          /\ pub' = [pub EXCEPT !["datalog"].at = "mark",
                                !["datalog"].msg = Numbered("telemetry")]
          /\ UNCHANGED <<pendingId, pubMutex>>
       \/ ~CanQueue /\ Refused("datalog")
    /\ UNCHANGED <<mutex, evPuback, flags, handler, broker, history>>

MarkPending ==
    /\ pub["datalog"].at = "mark"
    /\ pendingId' = pub["datalog"].msg.id
    /\ pub' = [pub EXCEPT !["datalog"].at = "wait"]
    /\ UNCHANGED <<locks, evPuback, flags, handler, net, history>>

\* Availability is sent and recorded as pending in one section of s_mutex.
SendAvailability(p) ==
    /\ pub[p].at = "send" /\ pub[p].job # "telemetry"
    /\ ~mutex
    /\ \/ /\ connected /\ CanQueue
          /\ Queue(Numbered(pub[p].job))
          /\ pub' = [pub EXCEPT ![p].at = "wait", ![p].msg = Numbered(pub[p].job)]
          /\ pendingId' = nextId
          /\ UNCHANGED pubMutex
       \/ ~(connected /\ CanQueue) /\ Refused(p)
    /\ UNCHANGED <<mutex, evPuback, flags, handler, broker, history>>

\* xEventGroupWaitBits returns: the bit was set, or 8 s have passed.
PublishDone(p) ==
    /\ pub[p].at = "wait"
    /\ pub' = [pub EXCEPT ![p].at = "settle", ![p].ok = evPuback]
    /\ evPuback' = FALSE /\ pendingId' = -1 /\ pubMutex' = "none"
    /\ strays' = (strays \/ (~evPuback /\ handler.at = "published_set"))
    /\ UNCHANGED <<mutex, flags, handler, net, counted, timeEvents>>

\* What the datalog task makes of the result: an online state that was not
\* acknowledged stays requested, to be retried.
OnlineDoneUnasked(d) == d.job = "online" \* mutant
OnlineDone(d) == d.job = "online" /\ d.ok
Settle ==
    LET d == pub["datalog"]
    IN  /\ d.at = "settle" /\ ~mutex
        /\ counted' = IF d.ok /\ d.job = "telemetry" THEN counted \union {d.msg} ELSE counted
        /\ confirmed' = (confirmed \/ OnlineDone(d))
        /\ requested' = (requested /\ ~OnlineDone(d))
    /\ pub' = [pub EXCEPT !["datalog"] = IdlePublisher]
    /\ UNCHANGED <<locks, ack, connected, rollbackId, status, handler, world, net, strays,
                   timeEvents>>

\* mqtt_set_config goes on whether or not the broker knows: restart_client_locked
\* takes s_mutex and calls esp_mqtt_client_stop ...
SwapBegin ==
    /\ pub["web"].at = "settle" /\ ~mutex
    /\ mutex' = TRUE
    /\ pub' = [pub EXCEPT !["web"] = [IdlePublisher EXCEPT !.at = "stop"]]
    /\ UNCHANGED <<pubMutex, ack, flags, handler, net, history>>

\* ... which returns once no handler runs; then a new client replaces the old one.
SwapEnd ==
    /\ pub["web"].at = "stop" /\ handler.at = "idle"
    /\ mutex' = FALSE
    /\ connected' = FALSE
    /\ swaps' = swaps + 1 /\ session' = "down"
    /\ outbox' = <<>> /\ wire' = <<>> /\ acks' = <<>>
    /\ pub' = [pub EXCEPT !["web"] = IdlePublisher]
    /\ UNCHANGED <<pubMutex, ack, rollbackId, availability, status, handler, world, nextId,
                   broker, history>>

-----------------------------------------------------------------------------
(* mqtt_event_handler, run by the esp-mqtt task. *)

Goto(from, to) == handler.at = from /\ handler' = [handler EXCEPT !.at = to]
Return(from) == handler.at = from /\ handler' = IdleHandler

OnConnected ==
    /\ Goto("connected", "connected_request")
    /\ connected' = TRUE
    /\ UNCHANGED <<publishing, rollbackId, availability, status, world, net, history>>

RequestAvailability ==
    /\ handler.at = "connected_request" /\ ~mutex
    /\ handler' = [handler EXCEPT !.at = "connected_first", !.timeKnown = timeValid]
    /\ confirmed' = FALSE /\ requested' = TRUE
    /\ UNCHANGED <<publishing, connected, rollbackId, status, world, net, history>>

\* A first connection with the time known reserves the first-sync notification.
Reserved == ~everConnected /\ handler.timeKnown
ReserveTimeStatus ==
    /\ handler.at = "connected_first" /\ ~mutex
    /\ handler' = [handler EXCEPT !.at = "connected_status", !.first = ~everConnected]
    /\ everConnected' = TRUE
    /\ timePublished' = (timePublished \/ Reserved)
    /\ UNCHANGED <<publishing, connected, rollbackId, availability, statusTask, world, net,
                   history>>

\* publish_status_event, when there is a session: k is the reason it gives.
StatusEvent(k, firstTime) ==
    /\ connected /\ CanQueue
    /\ Queue(Numbered(k))
    /\ rollbackId' = IF k = "rollback" THEN nextId ELSE rollbackId
    /\ timeEvents' = IF firstTime THEN timeEvents + 1 ELSE timeEvents

NoStatusEvent ==
    /\ ~(connected /\ CanQueue)
    /\ UNCHANGED <<library, rollbackId, timeEvents>>

ConnectReason ==
    IF evidence THEN "rollback" ELSE IF handler.first THEN "boot" ELSE "reconnected"

\* A reservation is given back when its boot event could not be queued.
ConnectedStatus ==
    /\ ~mutex
    /\ LET firstTime == handler.first /\ handler.timeKnown
       IN  \/ StatusEvent(ConnectReason, firstTime) /\ Return("connected_status")
           \/ NoStatusEvent /\ firstTime /\ Goto("connected_status", "connected_undo")
           \/ NoStatusEvent /\ ~firstTime /\ Return("connected_status")
    /\ UNCHANGED <<publishing, connected, availability, status, world, broker, counted,
                   strays>>

UndoReservation ==
    /\ Return("connected_undo") /\ ~mutex
    /\ timePublished' = FALSE
    /\ UNCHANGED <<publishing, connected, rollbackId, availability, everConnected,
                   statusTask, world, net, history>>

OnDisconnected ==
    /\ Goto("disconnected", "disconnected_confirm")
    /\ connected' = FALSE
    /\ rollbackId' = -1
    /\ UNCHANGED <<publishing, availability, status, world, net, history>>

Unconfirm ==
    /\ Return("disconnected_confirm") /\ ~mutex
    /\ confirmed' = FALSE
    /\ UNCHANGED <<publishing, connected, rollbackId, requested, status, world, net,
                   history>>

OnPublished ==
    /\ Goto("published", "published_pending") /\ ~mutex
    /\ UNCHANGED <<publishing, flags, net, history>>

\* The comparison and the setting of EV_PUBACK are two steps, under no lock.
ForPendingAny == TRUE \* mutant
ForPending == handler.id = pendingId
ComparePending ==
    /\ Goto("published_pending", IF ForPending THEN "published_set" ELSE "published_rollback")
    /\ UNCHANGED <<publishing, flags, net, history>>

SetPuback ==
    /\ Goto("published_set", "published_rollback")
    /\ evPuback' = TRUE
    /\ UNCHANGED <<locks, pendingId, flags, pub, net, history>>

\* The rollback evidence is acknowledged, which fails when NVS does.
ForRollbackAny == rollbackId # -1 \* mutant
ForRollback == handler.id = rollbackId
CompareRollback ==
    /\ Return("published_rollback")
    /\ \/ ForRollback /\ rollbackId' = -1 /\ evidence' \in {FALSE, evidence}
       \/ ~ForRollback /\ UNCHANGED <<rollbackId, evidence>>
    /\ UNCHANGED <<publishing, connected, availability, status, timeValid, net, history>>

-----------------------------------------------------------------------------
(* status_task reports the time once it is known. *)

StatusTaskLooks ==
    /\ statusTask = "look" /\ ~mutex
    /\ everConnected /\ ~timePublished /\ timeValid
    /\ statusTask' = "publish"
    /\ UNCHANGED <<publishing, connected, rollbackId, availability, everConnected,
                   timePublished, handler, world, net, history>>

StatusTaskPublishes ==
    /\ statusTask = "publish" /\ ~mutex
    /\ \/ StatusEvent("time", TRUE) /\ statusTask' = "record"
       \/ NoStatusEvent /\ statusTask' = "look"
    /\ UNCHANGED <<publishing, connected, availability, everConnected, timePublished,
                   handler, world, broker, counted, strays>>

StatusTaskEnds ==
    /\ statusTask = "record" /\ ~mutex
    /\ timePublished' = TRUE
    /\ statusTask' = "deleted"
    /\ UNCHANGED <<publishing, connected, rollbackId, availability, everConnected, handler,
                   world, net, history>>

-----------------------------------------------------------------------------
(* The esp-mqtt library and the broker (external), and the clock. *)

\* A publisher that has been woken records its result, for which it needs no more
\* than s_mutex, before the several round trips of a new connection are over.
ConnectTakesTime ==
    \A p \in Publishers : pub[p].at # "settle" /\ ~(pub[p].at = "wait" /\ evPuback)

LibConnects ==
    /\ session = "down" /\ handler.at = "idle" /\ ConnectTakesTime
    /\ session' = "up" /\ wire' = outbox /\ acks' = <<>>
    /\ handler' = [IdleHandler EXCEPT !.at = "connected"]
    /\ UNCHANGED <<publishing, flags, swaps, nextId, outbox, broker, history>>

\* The session breaks, and the broker publishes the last will.
SessionBreaks ==
    /\ session = "up" /\ drops < MaxDrops
    /\ session' = "lost" /\ drops' = drops + 1
    /\ wire' = <<>> /\ acks' = <<>>
    /\ retained' = "offline"
    /\ UNCHANGED <<publishing, flags, handler, swaps, nextId, outbox, received, history>>

LibNoticesBreak ==
    /\ session = "lost" /\ handler.at = "idle"
    /\ session' = "down"
    /\ handler' = [IdleHandler EXCEPT !.at = "disconnected"]
    /\ UNCHANGED <<publishing, flags, swaps, nextId, outbox, wire, acks, broker, history>>

LibReceivesPuback ==
    /\ session = "up" /\ handler.at = "idle" /\ acks # <<>>
    /\ acks' = Tail(acks)
    /\ \E i \in DOMAIN outbox : outbox[i].id = Head(acks) /\ outbox' = RemoveAt(outbox, i)
    /\ handler' = [IdleHandler EXCEPT !.at = "published", !.id = Head(acks)]
    /\ UNCHANGED <<publishing, flags, swaps, session, nextId, wire, broker, history>>

\* The messages whose receipt the properties ask for.
Watched == [id : 1..MaxId, kind : {"telemetry", "rollback"}]
BrokerReceives ==
    /\ session = "up" /\ wire # <<>>
    /\ LET m == Head(wire)
       IN  /\ received' = received \union ({m} \intersect Watched)
           /\ acks' = Append(acks, m.id)
           /\ retained' = IF m.kind \in {"online", "offline"} THEN m.kind ELSE retained
    /\ wire' = Tail(wire)
    /\ UNCHANGED <<publishing, flags, handler, swaps, session, nextId, outbox, drops,
                   history>>

TimeBecomesValid ==
    /\ ~timeValid /\ timeValid' = TRUE
    /\ UNCHANGED <<publishing, connected, rollbackId, availability, status, handler,
                   evidence, net, history>>

-----------------------------------------------------------------------------

Init ==
    /\ mutex = FALSE /\ pubMutex = "none" /\ evPuback = FALSE /\ pendingId = -1
    /\ connected = FALSE /\ rollbackId = -1 /\ requested = FALSE /\ confirmed = FALSE
    /\ everConnected = FALSE /\ timePublished = FALSE /\ statusTask = "look"
    /\ pub = [p \in Publishers |-> IdlePublisher]
    /\ handler = IdleHandler
    /\ evidence \in BOOLEAN /\ timeValid = FALSE
    /\ swaps = 0 /\ session = "down" /\ nextId = 1
    /\ outbox = <<>> /\ wire = <<>> /\ acks = <<>>
    /\ retained = "offline" /\ received = {} /\ drops = 0
    /\ counted = {} /\ strays = FALSE /\ timeEvents = 0

PublisherNext ==
    \/ TelemetryBegin \/ MaintenanceTick \/ SetConfig
    \/ \E p \in Publishers : PublishLock(p) \/ SendAvailability(p) \/ PublishDone(p)
    \/ SendTelemetry \/ MarkPending \/ Settle
    \/ SwapBegin \/ SwapEnd

HandlerNext ==
    \/ OnConnected \/ RequestAvailability \/ ReserveTimeStatus \/ ConnectedStatus
    \/ UndoReservation \/ OnDisconnected \/ Unconfirm
    \/ OnPublished \/ ComparePending \/ SetPuback \/ CompareRollback

StatusTaskNext == StatusTaskLooks \/ StatusTaskPublishes \/ StatusTaskEnds

WorldNext ==
    \/ LibConnects \/ SessionBreaks \/ LibNoticesBreak \/ LibReceivesPuback
    \/ BrokerReceives \/ TimeBecomesValid

Next == PublisherNext \/ HandlerNext \/ StatusTaskNext \/ WorldNext

Spec == Init /\ [][Next]_vars

-----------------------------------------------------------------------------
(* Properties. *)

NeedsMutex == {"connected_request", "connected_first", "connected_status", "connected_undo",
               "disconnected_confirm", "published"}

Jobs == {"none", "telemetry", "online", "offline"}
Messages == [id : -1..MaxId, kind : Jobs \union {"rollback", "boot", "reconnected", "time"}]
PublisherSteps == {"idle", "lock", "send", "mark", "wait", "settle", "stop"}
HandlerSteps == NeedsMutex \union {"idle", "connected", "disconnected", "published_pending",
                                   "published_set", "published_rollback"}

\* Every variable has its type, and the two mutexes agree with where the tasks are.
TypeOK ==
    /\ pub \in [Publishers -> [at : PublisherSteps, job : Jobs, msg : Messages, ok : BOOLEAN]]
    /\ mutex \in BOOLEAN /\ mutex = (pub["web"].at = "stop")
    /\ pubMutex \in Publishers \union {"none"}
    /\ \A p \in Publishers : pubMutex = p <=> pub[p].at \in {"send", "mark", "wait"}
    /\ evPuback \in BOOLEAN /\ connected \in BOOLEAN
    /\ requested \in BOOLEAN /\ confirmed \in BOOLEAN
    /\ everConnected \in BOOLEAN /\ timePublished \in BOOLEAN
    /\ evidence \in BOOLEAN /\ timeValid \in BOOLEAN /\ strays \in BOOLEAN
    /\ pendingId \in -1..MaxId /\ rollbackId \in -1..MaxId
    /\ handler \in [at : HandlerSteps, id : -1..MaxId, first : BOOLEAN, timeKnown : BOOLEAN]
    /\ statusTask \in {"look", "publish", "record", "deleted"}
    /\ session \in {"up", "down", "lost"} /\ retained \in {"online", "offline"}
    /\ swaps \in Nat /\ drops \in 0..MaxDrops /\ timeEvents \in Nat
    /\ nextId \in 1..MaxId + 1
    /\ outbox \in Seq(Messages) /\ wire \in Seq(Messages) /\ acks \in Seq(1..MaxId)
    /\ Len(outbox) <= OutboxMax
    /\ received \subseteq Watched /\ counted \subseteq Messages

\* "success counted only on PUBACK" (README.md:93): the broker has every telemetry
\* message that mqtt_publish_telemetry reported as published.  The exception is real:
\* the handler compares the message id and sets EV_PUBACK in two steps under no lock,
\* and if the publisher gives up in between, its next publish takes the bit for its
\* own and may report a message that the broker does not have.
SuccessMeansReceived == strays \/ counted \subseteq received

\* Once no publish is under way and none is requested, a device that has a
\* session shows as online: neither the last will of an earlier session nor the
\* offline state published before a reconfiguration stays behind.
SettledOnline ==
    /\ connected /\ session = "up" /\ handler.at = "idle" /\ ~requested /\ ~strays
    /\ \A p \in Publishers : pub[p].at = "idle"
    => retained = "online"

\* A status event that is owed once is not repeated, and its evidence is not given up
\* early.  The first report of the time, over which the handler and status_task race,
\* is queued at most once ("the status task cannot manufacture a duplicate",
\* mqtt.c:196-215), and rollback evidence is only cleared once the broker has a status
\* event with it (mqtt.c:236-262).  That the first report is queued at all is not said.
OwedStatusOnce ==
    /\ [](timeEvents <= 1)
    /\ [][evidence /\ ~evidence' => \E m \in received : m.kind = "rollback"]_vars

\* "restart_client_locked() owns s_mutex for the whole client swap" without
\* deadlock: it never waits for a handler that waits for s_mutex.
SwapNeverDeadlocks == ~(mutex /\ handler.at \in NeedsMutex)
=============================================================================
