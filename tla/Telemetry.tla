------------------------------ MODULE Telemetry ------------------------------
(***************************************************************************)
(* The way of a reading from the battery to a file and to the broker:      *)
(* BmsPoller stamps it with the clock of TimeSync and submits it to        *)
(* Datalog, which names its files after the same clock.  The three tasks,  *)
(* the web server and the SNTP client run interleaved.                     *)
(***************************************************************************)
EXTENDS BmsPoller, TimeSync, Datalog

CONSTANT MaxDisturbances    \* bound: events of the world and faults, of any kind together

ASSUME DisturbancesAssumption == MaxDisturbances \in Nat

VARIABLE disturbances       \* how many there have been

vars == <<bmsVars, timeVars, datalogVars, disturbances>>

Routine == UNCHANGED disturbances
Disturbance ==
    /\ disturbances < MaxDisturbances
    /\ disturbances' = disturbances + 1

-----------------------------------------------------------------------------
BmsTask ==
    /\ Routine
    /\ \/ /\ TakeOptions \/ UartFails \/ PollAnswered \/ PollUnanswered \/ PublishReading(Today)
          /\ UNCHANGED datalogVars
       \/ /\ status.rows < MaxRows
          /\ SubmitEnds
          /\ Submit(NextRow(poller.stamp))
    /\ UNCHANGED timeVars

WebServer ==
    /\ Disturbance
    /\ \E o \in Options : SetOptions(o)
    /\ UNCHANGED <<timeVars, datalogVars>>

Clock ==
    /\ \/ Routine /\ (TimesyncTask \/ OnSntpSync \/ ClockCatchesUp \/ FixAges)
       \/ Disturbance /\ (SntpSetsClock \/ GnssFix \/ Midnight)
    /\ UNCHANGED <<bmsVars, datalogVars>>

DatalogTask ==
    /\ \/ /\ Routine
          /\ \/ TakeUnbuffered \/ TakeBuffered \/ OverflowFlush(Today) \/ ReceiveTimesOut
             \/ PublishAcked \/ SpoolAbsent \/ SpoolOverCap \/ SpoolAppends
             \/ TimedFlush(Today) \/ NotDue \/ Replay \/ TickEnds
       \/ /\ Disturbance
          /\ \/ OverflowFlushFails(Today) \/ TimedFlushFails(Today)
             \/ PublishFails \/ SpoolFails
    /\ UNCHANGED <<bmsVars, timeVars>>

Init == BmsInit /\ TimeInit /\ DatalogInit /\ disturbances = 0
Next == BmsTask \/ WebServer \/ Clock \/ DatalogTask
Spec == Init /\ [][Next]_vars

-----------------------------------------------------------------------------
(* Properties *)

Row == [id : Ids, stamp : 0..MaxDay]

\* Every variable has its type, the queue and the buffer stay within their sizes, and
\* the datalog task has a row in hand just while it publishes or spools one.
TypeOK ==
    /\ BmsTypeOK
    /\ TimeTypeOK
    /\ queue \in Seq(Row) /\ Len(queue) <= QueueDepth
    /\ buffer \in Seq(Row) /\ Len(buffer) <= BufferRows
    /\ datalog \in [at : {"receive", "publish", "spool", "flush", "replay"}, row : Row \union {NoRow}]
    /\ datalog.row = NoRow <=> datalog.at \notin {"publish", "spool"}
    /\ sdFull \in BOOLEAN /\ mounted \in BOOLEAN
    /\ status \in [rows : 0..MaxRows, sdFailed : BOOLEAN]
    /\ \A rows \in {dropped, live, spoolFailed, accepted, delivered, owed, forfeited} :
          rows \subseteq Ids
    /\ csv \subseteq [day : 0..MaxDay, row : Row]
    /\ disturbances \in 0..MaxDisturbances

\* "Rows before first sync carry timestamp 0" and go to unsynced.csv; no row is
\* stamped later than the day of the file it is in, whenever the clock is set,
\* midnight falls or a flush is due.  The exception is real: SNTP synchronises
\* between timesync_task's look at the source (timesync.c:131) and its settimeofday,
\* which then sets the clock back to the age of the fix.
FiledInTime ==
    crossed \/ \A entry \in csv : entry.row.stamp <= entry.day

\* Where a row can be.
Underway == {queue[n].id : n \in DOMAIN queue} \union (IF InHand = NoRow THEN {} ELSE {InHand.id})
Handled == (1..status.rows) \ (Underway \union dropped)
OnCard == {entry.row.id : entry \in csv} \union {buffer[n].id : n \in DOMAIN buffer}
Lost == Handled \ (OnCard \union delivered \union owed)

\* A row that was handled and is neither on the card, nor with the broker, nor
\* owed to it has left a trace in what /api/status shows: the daily file failed
\* (sd_write_failures, or sd_ok false), and the spool failed, or gave up its backlog,
\* or there is no card, and the row is counted exactly once.
RowsLeaveATrace ==
    /\ Lost # {} => status.sdFailed \/ ~mounted
    /\ mounted => Lost \subseteq spoolFailed \union forfeited
    /\ mounted => Handled = live \union accepted \union spoolFailed
    /\ live \intersect (accepted \union spoolFailed) = {} /\ accepted \intersect spoolFailed = {}
=============================================================================
