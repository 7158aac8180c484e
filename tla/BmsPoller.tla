------------------------------ MODULE BmsPoller ------------------------------
(***************************************************************************)
(* main/bms.c: bms_task polls the battery over a UART, or makes readings   *)
(* up in simulation mode, and publishes what it read; the web server       *)
(* changes the pins, the mode and whether to poll at all through           *)
(* bms_set_options.  All of it is shared under s_mutex.                    *)
(*                                                                         *)
(* One action is one critical section.  A reading is known by the wiring   *)
(* it was taken on, or Sim.                                                *)
(***************************************************************************)
EXTENDS Naturals

CONSTANTS
    Pins,       \* the pairs of GPIOs the UART can be put on
    Sim,        \* where a simulated reading comes from
    None,       \* no UART, no reading
    Stored      \* the options NVS may hold when the task starts

ASSUME OriginAssumption == Sim \notin Pins /\ None \notin Pins /\ Sim # None

VARIABLES
    options,    \* enabled, sim, pins of s_status
    reconfig,   \* s_reconfig
    shown,      \* comm_ok and ever_ok of s_status
    uart,       \* the pins s_bms was built on
    poller,     \* where bms_task is, the pins it polls or the origin of its reading,
                \* and the time its snapshot was stamped with
    wired,      \* the pins the battery is connected to
    latest,     \* history: origin of the reading that is shown
    overtaken   \* history: the pins were changed under a reading, and none was taken since

bmsVars == <<options, reconfig, shown, uart, poller, wired, latest, overtaken>>

Origins == Pins \union {Sim}
Options == [enabled : BOOLEAN, sim : BOOLEAN, pins : Pins]
ASSUME StoredAssumption == Stored \subseteq Options
Silent == [comm |-> FALSE, ever |-> FALSE]

-----------------------------------------------------------------------------
(* bms_task *)

\* The task takes the options and the request to rebuild the UART in one
\* section, and drops the UART if it is to be rebuilt or not used.
TakenKeepingUart == \* mutant: the UART is dropped for the simulation only
    /\ reconfig' = FALSE
    /\ uart' = IF options.sim THEN None ELSE uart
Taken ==
    /\ reconfig' = FALSE
    /\ uart' = IF reconfig \/ options.sim THEN None ELSE uart

TakeOptions ==
    /\ poller.at = "top"
    /\ Taken
    /\ poller' = IF ~options.enabled THEN poller
                 ELSE IF options.sim THEN [poller EXCEPT !.at = "publish", !.from = Sim]
                 ELSE [poller EXCEPT !.at = "poll", !.from = options.pins]
    /\ UNCHANGED <<options, shown, wired, latest, overtaken>>

\* Without a UART one is built on the pins that were taken; if that fails the
\* task sleeps and starts over.
Polled == IF uart = None THEN poller.from ELSE uart
UartFails ==
    /\ poller.at = "poll"
    /\ uart = None
    /\ poller' = [poller EXCEPT !.at = "top"]
    /\ UNCHANGED <<options, reconfig, shown, uart, wired, latest, overtaken>>

\* readMeasurements, and the section that counts its outcome.
PollAnswered ==
    /\ poller.at = "poll"
    /\ Polled = wired
    /\ uart' = Polled
    /\ poller' = [poller EXCEPT !.at = "publish", !.from = Polled]
    /\ UNCHANGED <<options, reconfig, shown, wired, latest, overtaken>>

PollUnanswered ==
    /\ poller.at = "poll"
    /\ uart' = Polled
    /\ shown' = [shown EXCEPT !.comm = FALSE]
    /\ poller' = [poller EXCEPT !.at = "top"]
    /\ UNCHANGED <<options, reconfig, wired, latest, overtaken>>

\* The section of publish_reading, which also stamps the snapshot for datalog_submit.
PublishReading(now) ==
    /\ poller.at = "publish"
    /\ shown' = [comm |-> TRUE, ever |-> TRUE]
    /\ latest' = poller.from
    /\ overtaken' = (overtaken /\ poller.from \notin {options.pins, Sim})
    /\ poller' = [poller EXCEPT !.at = "submit", !.stamp = now]
    /\ UNCHANGED <<options, reconfig, uart, wired>>

\* datalog_submit has returned; the task sleeps for 10 s.
SubmitEnds ==
    /\ poller.at = "submit"
    /\ poller' = [poller EXCEPT !.at = "top", !.stamp = 0]
    /\ UNCHANGED <<options, reconfig, shown, uart, wired, latest, overtaken>>

-----------------------------------------------------------------------------
(* bms_set_options, on the web server's task *)

\* What changing the pins does to what is shown.
Forgotten(o) == IF o.pins # options.pins THEN Silent ELSE shown

SetOptions(o) ==
    /\ o # options
    /\ options' = o
    /\ reconfig' = (reconfig \/ o.pins # options.pins)
    /\ shown' = Forgotten(o)
    /\ overtaken' = IF o.pins = options.pins THEN overtaken
                    ELSE poller.at \in {"poll", "publish"}
    /\ UNCHANGED <<uart, poller, wired, latest>>

-----------------------------------------------------------------------------

BmsInit ==
    /\ options \in Stored
    /\ reconfig = FALSE
    /\ shown = Silent
    /\ uart = None
    /\ poller = [at |-> "top", from |-> options.pins, stamp |-> 0]
    /\ wired \in Pins
    /\ latest = None
    /\ overtaken = FALSE

\* Every variable has its type, and a battery that answers has been detected.
BmsTypeOK ==
    /\ options \in Options
    /\ reconfig \in BOOLEAN /\ overtaken \in BOOLEAN
    /\ shown \in [comm : BOOLEAN, ever : BOOLEAN]
    /\ shown.comm => shown.ever
    /\ uart \in Pins \union {None}
    /\ poller \in [at : {"top", "poll", "publish", "submit"}, from : Origins, stamp : Nat]
    /\ wired \in Pins
    /\ latest \in Origins \union {None}

\* "forget prior comms, so the UI returns to not detected and flips to online
\* only if the new wiring actually talks" (bms.c:76-78): what is shown as answering
\* was read on the pins that are configured, or simulated.  The exception is real:
\* a reading that was under way when the pins changed is published after the reset,
\* and the battery counts as detected on pins that may not be wired at all.
OnlineMeansTalks ==
    shown.ever /\ ~overtaken => latest \in {options.pins, Sim}
=============================================================================
