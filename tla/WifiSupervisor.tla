--------------------------- MODULE WifiSupervisor ---------------------------
(***************************************************************************)
(* The WiFi supervisor (main/wifi.c): one task that joins the stored home  *)
(* network and falls back to a SoftAP, the event handler that tells it, by *)
(* bits of an event group, what the driver reports, and wifi_set_credentials *)
(* of the web server, which writes two NVS keys and raises BIT_RECONFIG.   *)
(*                                                                         *)
(* The driver is external: it joins or fails at will, drops a link, lets a *)
(* DHCP lease run out, and posts its events in order.  Nothing is assumed  *)
(* of the network.  The AP's client counters are not modelled.             *)
(***************************************************************************)
EXTENDS Naturals, Sequences, FiniteSets

CONSTANTS
    Networks,           \* the home networks a user may save
    None,               \* no network: the empty SSID
    BOOT_MAX_ATTEMPTS,
    STEADY_MAX_ATTEMPTS,
    MaxSaves,           \* bounds the calls of wifi_set_credentials
    MaxDisturbances,    \* bounds dropped links and lost leases
    MaxEvents           \* bounds the events not yet handled

ASSUME AttemptsAssumption ==
    /\ None \notin Networks
    /\ BOOT_MAX_ATTEMPTS \in Nat \ {0}
    /\ STEADY_MAX_ATTEMPTS \in Nat \ {0}

ASSUME BoundsAssumption ==
    /\ MaxSaves \in Nat
    /\ MaxDisturbances \in Nat
    /\ MaxEvents \in Nat

VARIABLES
    nvs,      \* the stored keys "ssid" and "pass"
    creds,    \* s_ssid, s_pass
    bits,     \* s_events
    shown,    \* s_status: state and address
    task,     \* wifi_task: its place, the attempt, its limit, the bits it woke with
    radio,    \* external: the mode, the station's link, and may it join at all
    events,   \* external: the driver's events the handler has not seen
    save,     \* wifi_set_credentials, and history: did the last call return ESP_OK
    lateIp,   \* history: the address was reported after the last attempt's wait
    budget    \* the saves and disturbances left

vars == <<nvs, creds, bits, shown, task, radio, events, save, lateIp, budget>>

Ssids == Networks \cup {None}
Credentials == [ssid : Ssids, pass : Ssids]

Bits == {"got_ip", "disconnected", "reconfig"}
States == {"booting", "connecting", "connected", "ap"}
Addresses == {"none", "sta", "ap"}
Links == {"idle", "joining", "associated", "ip", "leaseless"}
Steps == {"load_ssid", "load_pass", "clear", "decide", "stop_sta", "start_sta",
          "join", "joined", "backoff", "steady", "stop_ap", "start_ap", "ap"}

-----------------------------------------------------------------------------
(* The driver. *)

\* A password opens only its own network.
Opens(c) == c.ssid # None /\ c.pass = c.ssid

Off == [mode |-> "off", link |-> "idle", opens |-> FALSE]

\* esp_wifi_connect: of no effect while the station joins or is joined.
WithConnect(r) ==
    IF r.mode = "sta" /\ r.link = "idle" THEN [r EXCEPT !.link = "joining"] ELSE r

\* esp_wifi_stop: a station that was associated is reported as disconnected.
StopEvents ==
    IF radio.link \in {"associated", "ip", "leaseless"} THEN <<"disconnected">> ELSE <<>>

Post(e) ==
    /\ Len(events) < MaxEvents
    /\ events' = Append(events, e)

Associates ==
    /\ radio.link = "joining"
    /\ radio.opens
    /\ radio' = [radio EXCEPT !.link = "associated"]
    /\ UNCHANGED <<nvs, creds, bits, shown, task, events, save, lateIp, budget>>

\* Wrong password, no such network, or a handshake that fails.
JoinFails ==
    /\ radio.link = "joining"
    /\ radio' = [radio EXCEPT !.link = "idle"]
    /\ Post("disconnected")
    /\ UNCHANGED <<nvs, creds, bits, shown, task, save, lateIp, budget>>

AcquiresAddress ==
    /\ radio.link \in {"associated", "leaseless"}
    /\ radio' = [radio EXCEPT !.link = "ip"]
    /\ Post("got_ip")
    /\ UNCHANGED <<nvs, creds, bits, shown, task, save, lateIp, budget>>

Disturb == budget' = [budget EXCEPT !.disturbances = @ - 1] /\ budget.disturbances > 0

LinkDrops ==
    /\ radio.link \in {"associated", "ip", "leaseless"}
    /\ Disturb
    /\ radio' = [radio EXCEPT !.link = "idle"]
    /\ Post("disconnected")
    /\ UNCHANGED <<nvs, creds, bits, shown, task, save, lateIp>>

\* The lease expires with the association kept: IP_EVENT_STA_LOST_IP, for which
\* wifi_init registers no handler.
LeaseLost ==
    /\ radio.link = "ip"
    /\ Disturb
    /\ radio' = [radio EXCEPT !.link = "leaseless"]
    /\ UNCHANGED <<nvs, creds, bits, shown, task, events, save, lateIp>>

Driver == Associates \/ JoinFails \/ AcquiresAddress \/ LinkDrops \/ LeaseLost

-----------------------------------------------------------------------------
(* The event handler. *)

\* Mutant: the handler leaves BIT_GOT_IP set when the station disconnects.
AfterDisconnectStale(b) == b \cup {"disconnected"}

AfterDisconnect(b) == (b \ {"got_ip"}) \cup {"disconnected"}

\* sta_connect_loop will not look at the bits again before it gives up.
PastLastWait ==
    \/ task.pc \in {"joined", "backoff"} /\ task.attempt = task.limit
    \/ task.pc = "stop_ap"

HandleEvent ==
    /\ events # <<>>
    /\ events' = Tail(events)
    /\ CASE Head(events) = "sta_start" ->
              radio' = WithConnect(radio) /\ UNCHANGED <<bits, shown, lateIp>>
         [] Head(events) = "disconnected" ->
              /\ shown' = [shown EXCEPT !.ip = "none"]
              /\ bits' = AfterDisconnect(bits)
              /\ UNCHANGED <<radio, lateIp>>
         [] Head(events) = "got_ip" ->
              /\ shown' = [shown EXCEPT !.ip = "sta"]
              /\ bits' = (bits \ {"disconnected"}) \cup {"got_ip"}
              /\ lateIp' = PastLastWait
              /\ UNCHANGED radio
    /\ UNCHANGED <<nvs, creds, task, save, budget>>

-----------------------------------------------------------------------------
(* wifi_set_credentials. *)

\* The user reaches the web server through the AP or the joined station.
Reachable == radio.mode = "ap" \/ radio.link = "ip"

SaveSsid(s) ==
    /\ save.pc = "idle"
    /\ Reachable
    /\ budget.saves > 0
    /\ budget' = [budget EXCEPT !.saves = @ - 1]
    /\ nvs' = [nvs EXCEPT !.ssid = s]
    /\ save' = [save EXCEPT !.pc = "pass", !.ssid = s, !.ok = FALSE]
    /\ UNCHANGED <<creds, bits, shown, task, radio, events, lateIp>>

SavePass ==
    /\ save.pc = "pass"
    /\ nvs' = [nvs EXCEPT !.pass = save.ssid]
    /\ save' = [save EXCEPT !.pc = "wake"]
    /\ UNCHANGED <<creds, bits, shown, task, radio, events, lateIp, budget>>

\* nvs_set_str fails on the second key: the caller is told, the first key stays.
SaveFails ==
    /\ save.pc = "pass"
    /\ save.ssid # None
    /\ save' = [save EXCEPT !.pc = "idle"]
    /\ UNCHANGED <<nvs, creds, bits, shown, task, radio, events, lateIp, budget>>

\* A save is overtaken when it returns while the supervisor, which has begun to
\* read the keys, has not yet cleared BIT_RECONFIG.
SaveWakes ==
    /\ save.pc = "wake"
    /\ bits' = bits \cup {"reconfig"}
    /\ save' = [save EXCEPT !.pc = "idle", !.ok = TRUE,
                            !.overtaken = task.pc \in {"load_pass", "clear"}]
    /\ UNCHANGED <<nvs, creds, shown, task, radio, events, lateIp, budget>>

SaverStep == SavePass \/ SaveFails \/ SaveWakes

-----------------------------------------------------------------------------
(* wifi_task. *)

At(pc) == task.pc = pc
Goto(pc) == task' = [task EXCEPT !.pc = pc]

\* nvs_load_creds reads one key after the other.
LoadSsid ==
    /\ At("load_ssid")
    /\ creds' = [creds EXCEPT !.ssid = nvs.ssid]
    /\ save' = [save EXCEPT !.overtaken = FALSE]
    /\ Goto("load_pass")
    /\ UNCHANGED <<nvs, bits, shown, radio, events, lateIp, budget>>

LoadPass ==
    /\ At("load_pass")
    /\ creds' = [creds EXCEPT !.pass = nvs.pass]
    /\ Goto("clear")
    /\ UNCHANGED <<nvs, bits, shown, radio, events, save, lateIp, budget>>

ClearReconfig ==
    /\ At("clear")
    /\ bits' = bits \ {"reconfig"}
    /\ Goto("decide")
    /\ UNCHANGED <<nvs, creds, shown, radio, events, save, lateIp, budget>>

Decide ==
    /\ At("decide")
    /\ \/ /\ creds.ssid = None
          /\ Goto("stop_ap")
          /\ UNCHANGED shown
       \/ /\ creds.ssid # None
          /\ shown' = [shown EXCEPT !.state = "connecting"]
          /\ Goto("stop_sta")
    /\ UNCHANGED <<nvs, creds, bits, radio, events, save, lateIp, budget>>

StopRadio ==
    /\ \/ At("stop_sta") /\ Goto("start_sta")
       \/ At("stop_ap") /\ Goto("start_ap")
    /\ Len(events) + Len(StopEvents) <= MaxEvents
    /\ radio' = Off
    /\ events' = events \o StopEvents
    /\ UNCHANGED <<nvs, creds, bits, shown, save, lateIp, budget>>

\* esp_wifi_start takes many milliseconds and the event loop outranks the task:
\* what the driver reported before is handled by then.
Settled == events = <<>>

StartSta ==
    /\ At("start_sta")
    /\ Settled
    /\ bits' = bits \ {"got_ip", "disconnected"}
    /\ radio' = [radio EXCEPT !.mode = "sta", !.opens = Opens(creds)]
    /\ Post("sta_start")
    /\ task' = [task EXCEPT !.pc = "join", !.attempt = 1, !.limit = BOOT_MAX_ATTEMPTS]
    /\ UNCHANGED <<nvs, creds, shown, save, lateIp, budget>>

StartAp ==
    /\ At("start_ap")
    /\ Settled
    /\ radio' = [radio EXCEPT !.mode = "ap"]
    /\ shown' = [state |-> "ap", ip |-> "ap"]
    /\ Goto("ap")
    /\ UNCHANGED <<nvs, creds, bits, events, save, lateIp, budget>>

\* The supervisor leaves the AP only for new credentials.
ApWait ==
    /\ At("ap")
    /\ "reconfig" \in bits
    /\ bits' = bits \ {"reconfig"}
    /\ Goto("load_ssid")
    /\ UNCHANGED <<nvs, creds, shown, radio, events, save, lateIp, budget>>

\* The wait returns the bits of the moment it ended; a timeout is seconds long, and
\* the event loop idle by then.
JoinWait ==
    /\ At("join")
    /\ bits # {} \/ Settled
    /\ task' = [task EXCEPT !.pc = "joined", !.woken = bits]
    /\ UNCHANGED <<nvs, creds, bits, shown, radio, events, save, lateIp, budget>>

JoinInterrupted ==
    /\ At("joined")
    /\ "reconfig" \in task.woken
    /\ Goto("load_ssid")
    /\ UNCHANGED <<nvs, creds, bits, shown, radio, events, save, lateIp, budget>>

Joined ==
    /\ At("joined")
    /\ "reconfig" \notin task.woken
    /\ "got_ip" \in task.woken
    /\ shown' = [shown EXCEPT !.state = "connected"]
    /\ Goto("steady")
    /\ UNCHANGED <<nvs, creds, bits, radio, events, save, lateIp, budget>>

\* Mutant: a failed attempt clears both bits, as start_sta does.
AfterFailureBoth(b) == b \ {"disconnected", "got_ip"}

AfterFailure(b) == b \ {"disconnected"}

JoinFailed ==
    /\ At("joined")
    /\ task.woken \cap {"reconfig", "got_ip"} = {}
    /\ bits' = AfterFailure(bits)
    /\ Goto("backoff")
    /\ UNCHANGED <<nvs, creds, shown, radio, events, save, lateIp, budget>>

BackoffInterrupted ==
    /\ At("backoff")
    /\ "reconfig" \in bits
    /\ Goto("load_ssid")
    /\ UNCHANGED <<nvs, creds, bits, shown, radio, events, save, lateIp, budget>>

\* Mutant: the attempts are not counted.
NextAttemptForever(t) == [t EXCEPT !.pc = "join"]

\* Mutant: one attempt too many.
NextAttemptOneMore(t) ==
    IF t.attempt <= t.limit THEN [t EXCEPT !.pc = "join", !.attempt = @ + 1]
                            ELSE [t EXCEPT !.pc = "stop_ap"]

\* The last attempt's association is started but not waited for.
NextAttempt(t) ==
    IF t.attempt < t.limit THEN [t EXCEPT !.pc = "join", !.attempt = @ + 1]
                           ELSE [t EXCEPT !.pc = "stop_ap"]

Retry ==
    /\ At("backoff")
    /\ "reconfig" \notin bits
    /\ Settled
    /\ radio' = WithConnect(radio)
    /\ task' = NextAttempt(task)
    /\ UNCHANGED <<nvs, creds, bits, shown, events, save, lateIp, budget>>

\* Mutant: a drop is dealt with before new credentials are looked at.
DropNoticedFirst(b) == "disconnected" \in b

DropNoticed(b) == "disconnected" \in b /\ "reconfig" \notin b

\* The wait clears both of its bits, whichever ended it.
Steady ==
    /\ At("steady")
    /\ bits \cap {"disconnected", "reconfig"} # {}
    /\ bits' = bits \ {"disconnected", "reconfig"}
    /\ \/ /\ ~DropNoticed(bits)
          /\ Goto("load_ssid")
          /\ UNCHANGED <<shown, radio>>
       \/ /\ DropNoticed(bits)
          /\ shown' = [shown EXCEPT !.state = "connecting"]
          /\ radio' = WithConnect(radio)
          /\ task' = [task EXCEPT !.pc = "join", !.attempt = 1, !.limit = STEADY_MAX_ATTEMPTS]
    /\ UNCHANGED <<nvs, creds, events, save, lateIp, budget>>

TaskStep ==
    \/ LoadSsid \/ LoadPass \/ ClearReconfig \/ Decide
    \/ StopRadio \/ StartSta \/ StartAp \/ ApWait
    \/ JoinWait \/ JoinInterrupted \/ Joined \/ JoinFailed
    \/ BackoffInterrupted \/ Retry \/ Steady

-----------------------------------------------------------------------------
Init ==
    /\ nvs \in {[ssid |-> s, pass |-> s] : s \in Ssids}
    /\ creds = [ssid |-> None, pass |-> None]
    /\ bits = {}
    /\ shown = [state |-> "booting", ip |-> "none"]
    /\ task = [pc |-> "load_ssid", attempt |-> 1, limit |-> BOOT_MAX_ATTEMPTS, woken |-> {}]
    /\ radio = Off
    /\ events = <<>>
    /\ save = [pc |-> "idle", ssid |-> None, ok |-> FALSE, overtaken |-> FALSE]
    /\ lateIp = FALSE
    /\ budget = [saves |-> MaxSaves, disturbances |-> MaxDisturbances]

Next ==
    \/ TaskStep
    \/ HandleEvent
    \/ SaverStep
    \/ \E s \in Ssids : SaveSsid(s)
    \/ Driver

Spec == Init /\ [][Next]_vars

\* Both tasks and the event loop are scheduled and every wait of a join has a
\* timeout.  Nothing is assumed of the driver: the network may never answer.
FairSpec ==
    /\ Spec
    /\ WF_vars(TaskStep)
    /\ WF_vars(HandleEvent)
    /\ WF_vars(SaverStep)

-----------------------------------------------------------------------------
(* Properties. *)

TypeOK ==
    /\ nvs \in Credentials
    /\ creds \in Credentials
    /\ bits \subseteq Bits
    /\ shown \in [state : States, ip : Addresses]
    /\ task \in [pc : Steps, attempt : 1..BOOT_MAX_ATTEMPTS + STEADY_MAX_ATTEMPTS,
                 limit : {BOOT_MAX_ATTEMPTS, STEADY_MAX_ATTEMPTS}, woken : SUBSET Bits]
    /\ task.attempt <= task.limit
    /\ radio \in [mode : {"off", "sta", "ap"}, link : Links, opens : BOOLEAN]
    /\ radio.mode # "sta" => radio.link = "idle"
    /\ events \in Seq({"sta_start", "disconnected", "got_ip"})
    /\ Len(events) <= MaxEvents
    /\ save \in [pc : {"idle", "pass", "wake"}, ssid : Ssids,
                 ok : BOOLEAN, overtaken : BOOLEAN]
    /\ lateIp \in BOOLEAN
    /\ budget \in [saves : 0..MaxSaves, disturbances : 0..MaxDisturbances]

\* What the web UI shows is so whenever the supervisor rests and no report of the
\* driver is on its way: an AP has the AP's address, a joined station has one of
\* its own (a lease that ran out excepted), and a station that has none has been
\* reported to the supervisor by BIT_DISCONNECTED.
ShownIsTrue ==
    events = <<>> =>
        /\ At("ap") => /\ radio.mode = "ap"
                       /\ shown = [state |-> "ap", ip |-> "ap"]
        /\ At("steady") /\ "disconnected" \notin bits =>
               /\ radio.link \in {"ip", "leaseless"}
               /\ shown = [state |-> "connected", ip |-> "sta"]

\* The supervisor gives up a station whose address was reported only when the
\* saved network was cleared, or when the report came after the last attempt's wait:
\* sta_connect_loop does not look at BIT_GOT_IP again.
LinkNotAbandoned ==
    [][At("stop_ap") /\ StopRadio /\ radio.link = "ip" /\ events = <<>>
         => lateIp \/ creds.ssid = None]_vars

\* A station whose link is down, or not up yet, gets an address, or its owner gets the
\* SoftAP: whatever the network does, the gateway does not stay out of reach, and a
\* link that is lost is not shown as joined for ever.  The exception is a link that is
\* kept while its address is lost ("leaseless"): no handler is registered for
\* IP_EVENT_STA_LOST_IP (wifi.c:392-395), and for as long as that link holds there is
\* neither an address nor a SoftAP.
ControlPlaneReturns ==
    /\ radio.link \notin {"ip", "leaseless"} ~> radio.mode = "ap" \/ radio.link = "ip"
    /\ shown.state = "connected" /\ radio.link \in {"idle", "joining"} ~>
           shown.state # "connected" \/ radio.link \in {"associated", "ip", "leaseless"}

\* The last save returned ESP_OK and the supervisor works with other credentials
\* (without an SSID it is the AP's business, whatever the password).
Owed ==
    /\ save.ok
    /\ creds # nvs
    /\ ~(creds.ssid = None /\ nvs.ssid = None)

\* Credentials that were saved are taken over by the supervisor, whatever it is
\* doing: "Persist new home-WiFi credentials to NVS and re-evaluate the connection:
\* the supervisor will attempt STA" (wifi.h:51-52).  The exception is real: a save that
\* returns while the supervisor is between reading the keys (wifi.c:313) and clearing
\* BIT_RECONFIG (314) is wiped out, and the old pair stays in use.
SavedIsApplied ==
    Owed /\ ~save.overtaken ~> ~Owed \/ save.overtaken
=============================================================================
