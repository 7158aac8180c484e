---------------------------- MODULE StoreForward ----------------------------
(***************************************************************************)
(* What the telemetry spool of main/datalog.c promises, without files,     *)
(* offsets, ticks or reboots: a row accepted into the store is owed to the *)
(* broker until the broker has it.  Deliveries may repeat (QoS 1 is        *)
(* at-least-once), and the only rows ever given up are the backlog that is *)
(* sacrificed when it exceeds its cap.                                     *)
(***************************************************************************)
EXTENDS FiniteSets, Naturals

CONSTANTS
    Rows,       \* the telemetry rows
    Capacity    \* the backlog may be sacrificed once it holds more rows than this

VARIABLES
    accepted,   \* rows the store took responsibility for
    delivered,  \* rows the broker has received at least once
    owed,       \* rows that will still be (re)sent
    forfeited   \* rows given up when the backlog exceeded its cap

vars == <<accepted, delivered, owed, forfeited>>

Init ==
    /\ accepted = {}
    /\ delivered = {}
    /\ owed = {}
    /\ forfeited = {}

\* The store takes a row it did not hold before.
Accept(r) ==
    /\ r \notin accepted
    /\ accepted' = accepted \union {r}
    /\ owed' = owed \union {r}
    /\ UNCHANGED <<delivered, forfeited>>

\* The broker receives a row; the store may learn of it and settle the debt.
Deliver(r) ==
    /\ delivered' = delivered \union {r}
    /\ owed' \in {owed, owed \ {r}}
    /\ UNCHANGED <<accepted, forfeited>>

\* A restart forgets that some rows were already settled: they are sent again.
Reopen(R) ==
    /\ R \subseteq accepted \intersect delivered
    /\ owed' = owed \union R
    /\ UNCHANGED <<accepted, delivered, forfeited>>

\* The backlog is over its cap and is given up as a whole.
Sacrifice ==
    /\ Cardinality(owed) > Capacity
    /\ forfeited' = forfeited \union owed
    /\ owed' = {}
    /\ UNCHANGED <<accepted, delivered>>

Next ==
    \/ \E r \in Rows : Accept(r) \/ Deliver(r)
    \/ \E R \in SUBSET Rows : Reopen(R)
    \/ Sacrifice

Spec == Init /\ [][Next]_vars
=============================================================================
