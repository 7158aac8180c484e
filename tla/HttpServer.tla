----------------------------- MODULE HttpServer -----------------------------
(***************************************************************************)
(* The web server of main/webui.c: one task of the HTTP library that waits *)
(* in select(), runs the work queued for it, and then one handler for each *)
(* session that has a request; and the watchdog task, which queues a       *)
(* heartbeat as such work every 10 s and calls the server stalled when one *)
(* has waited for 60 s.                                                    *)
(*                                                                         *)
(* The library is external.  Time is counted in passes of the watchdog.    *)
(***************************************************************************)
EXTENDS Naturals

CONSTANTS
    StallPasses,    \* WEBUI_WATCHDOG_STALL_MS
    SlowPasses      \* the slowest legitimate handler, /api/ping: 40 s

ASSUME PassesAssumption ==
    /\ StallPasses \in Nat \ {0} /\ SlowPasses \in Nat
    /\ SlowPasses < StallPasses

VARIABLES
    server,     \* external: in select(), in a handler, or wedged in one;
                \* for how many passes; and was a handler run before it without a select()
    heartbeat,  \* heartbeat_pending, heartbeat_stalled and the time since heartbeat_queued_us
    work,       \* external: is heartbeat_work queued
    watchdog    \* watchdog_task: asleep, or about to queue the heartbeat

vars == <<server, heartbeat, work, watchdog>>

Selecting == [at |-> "select", held |-> 0, crowded |-> FALSE]
Wedged == server.at = "wedged"

-----------------------------------------------------------------------------
(* The server task *)

\* A session has a request: observed_handler runs.  Work that is queued by the
\* time select() returns goes first.
RequestArrives ==
    /\ server.at = "select"
    /\ ~work
    /\ server' = [Selecting EXCEPT !.at = "handler"]
    /\ UNCHANGED <<heartbeat, work, watchdog>>

\* Another session had one as well: its handler runs before the next select().
NextSession ==
    /\ server.at = "handler"
    /\ server' = [at |-> "handler", held |-> 0, crowded |-> TRUE]
    /\ UNCHANGED <<heartbeat, work, watchdog>>

HandlerReturns ==
    /\ server.at = "handler"
    /\ server' = Selecting
    /\ UNCHANGED <<heartbeat, work, watchdog>>

\* A handler that does not return, and one that does after all.
HandlerWedges ==
    /\ server.at = "handler"
    /\ server' = [server EXCEPT !.at = "wedged", !.held = 0]
    /\ UNCHANGED <<heartbeat, work, watchdog>>

WedgedReturns ==
    /\ Wedged
    /\ server' = Selecting
    /\ UNCHANGED <<heartbeat, work, watchdog>>

HeartbeatWork ==
    /\ server.at = "select"
    /\ work
    /\ work' = FALSE
    /\ heartbeat' = [heartbeat EXCEPT !.pending = FALSE]
    /\ UNCHANGED <<server, watchdog>>

-----------------------------------------------------------------------------
(* watchdog_task *)

\* 10 s pass; a server that waits in select() has run its work long since, and a
\* handler that is not wedged has returned by its limit.
PassDue ==
    /\ watchdog = "sleep"
    /\ server.at = "select" => ~work
    /\ server.at = "handler" => server.held < SlowPasses

Waited == IF heartbeat.waited < StallPasses THEN heartbeat.waited + 1 ELSE StallPasses

StillPendingEarly == \* mutant: the threshold is that of the slowest handler
    [heartbeat EXCEPT !.waited = Waited, !.stalled = @ \/ Waited >= SlowPasses]
StillPending == [heartbeat EXCEPT !.waited = Waited,
                                  !.stalled = @ \/ Waited >= StallPasses]
Requeued == [pending |-> TRUE, stalled |-> FALSE, waited |-> 0]

WatchdogPass ==
    /\ PassDue
    /\ server' = IF server.at = "handler" THEN [server EXCEPT !.held = @ + 1] ELSE server
    /\ IF heartbeat.pending
       THEN heartbeat' = StillPending /\ UNCHANGED watchdog
       ELSE heartbeat' = Requeued /\ watchdog' = "queue"
    /\ UNCHANGED work

QueueHeartbeat ==
    /\ watchdog = "queue"
    /\ work' = TRUE
    /\ watchdog' = "sleep"
    /\ UNCHANGED <<server, heartbeat>>

\* httpd_queue_work fails: there is no heartbeat to wait for.
QueueFails ==
    /\ watchdog = "queue"
    /\ heartbeat' = [heartbeat EXCEPT !.pending = FALSE]
    /\ watchdog' = "sleep"
    /\ UNCHANGED <<server, work>>

-----------------------------------------------------------------------------

Init ==
    /\ server = Selecting
    /\ heartbeat = [pending |-> FALSE, stalled |-> FALSE, waited |-> 0]
    /\ work = FALSE
    /\ watchdog = "sleep"

ServerTask ==
    RequestArrives \/ NextSession \/ HandlerReturns \/ HandlerWedges \/ WedgedReturns
    \/ HeartbeatWork
WatchdogTask == WatchdogPass \/ QueueHeartbeat \/ QueueFails

Next == ServerTask \/ WatchdogTask

\* Both tasks get to run, a handler that is not wedged returns, and queueing the
\* heartbeat does not fail for ever.  That a wedged handler returns is not assumed.
Fairness ==
    /\ WF_vars(HandlerReturns) /\ WF_vars(HeartbeatWork)
    /\ WF_vars(WatchdogPass) /\ SF_vars(QueueHeartbeat)

Spec == Init /\ [][Next]_vars /\ Fairness

-----------------------------------------------------------------------------
(* Properties *)

\* "The threshold sits well above the slowest legitimate handler, so only a
\* genuinely wedged server task trips it" (webui.c:105-108), and every wedged one
\* does, and has recovered once it is back.  The exception is real: handlers of
\* several sessions that run in one round are within the limit each and together
\* are not, and the server is called unresponsive for being busy.
WatchdogTells ==
    /\ [][~heartbeat.stalled /\ heartbeat'.stalled => Wedged \/ server.crowded]_vars
    /\ <>[]Wedged => <>[]heartbeat.stalled
    /\ <>[](server.at = "select") => <>[]~heartbeat.stalled
=============================================================================
