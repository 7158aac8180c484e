------------------------------- MODULE Datalog -------------------------------
(***************************************************************************)
(* The telemetry pipeline of main/datalog.c around the spool: snapshots    *)
(* are queued by datalog_submit; the datalog task buffers each as a CSV    *)
(* row for the daily file on the SD card, offers it to the broker, and     *)
(* spools what the broker did not take.  The buffer is flushed when a row  *)
(* does not fit and when its first row is 30 s old.                        *)
(*                                                                         *)
(* The spool is used by what it promises: accepted, delivered, owed and    *)
(* forfeited are the variables of StoreForward, and the steps that touch   *)
(* it are StoreForward's.  A row carries the day it was stamped with and   *)
(* the clock is an input, so that a file is known by the day in its name   *)
(* and unsynced.csv is the file of day 0.                                  *)
(***************************************************************************)
EXTENDS Naturals, Sequences, FiniteSets

CONSTANTS
    MaxRows,        \* bound: this many snapshots are submitted
    QueueDepth,     \* QUEUE_DEPTH
    BufferRows,     \* the rows that fit into SD_BUF_SIZE
    SpoolCapacity,  \* SPOOL_MAX_BYTES, in rows
    NoRow           \* no row in hand

ASSUME SizesAssumption ==
    /\ MaxRows \in Nat /\ SpoolCapacity \in Nat
    /\ QueueDepth \in Nat \ {0} /\ BufferRows \in Nat \ {0}
ASSUME NoRowAssumption == NoRow \notin [id : Nat, stamp : Nat]

VARIABLES
    queue,          \* s_queue
    datalog,        \* where the datalog task is, and the row it has in hand
    buffer,         \* s_sd_buf
    sdFull,         \* s_sd_full, and the cached answer of sd_check_space
    mounted,        \* sdcard_mounted(), decided when the board boots
    status,         \* s_status: rows, and sd_write_failures as whether there were any
    \* the counters of s_status that follow a row, as the rows they count
    dropped,        \* dropped
    live,           \* mqtt_rows
    spoolFailed,    \* spool_append_failures
    \* the spool and the broker
    accepted, delivered, owed, forfeited,
    \* history
    csv             \* the rows on the card, each with the day of its file

spool == <<accepted, delivered, owed, forfeited>>
counted == <<dropped, live, spoolFailed>>
sd == <<buffer, sdFull, status, csv>>
datalogVars == <<queue, datalog, buffer, sdFull, mounted, status, counted, spool, csv>>

Ids == 1..MaxRows
SF == INSTANCE StoreForward WITH Rows <- Ids, Capacity <- SpoolCapacity

InHand == datalog.row
To(place) == datalog' = [datalog EXCEPT !.at = place]
Done == datalog' = [at |-> "flush", row |-> NoRow]

-----------------------------------------------------------------------------
(* datalog_submit, on the task of the producer *)

\* The snapshot is counted, and queued if there is room.
SubmitFits(row) ==
    /\ Len(queue) < QueueDepth
    /\ queue' = Append(queue, row)
    /\ status' = [status EXCEPT !.rows = row.id]
    /\ UNCHANGED <<datalog, buffer, sdFull, mounted, counted, spool, csv>>

\* xQueueSend does not wait: the snapshot is dropped, and counted as such.
SubmitFull(row) ==
    /\ Len(queue) = QueueDepth
    /\ dropped' = dropped \union {row.id}
    /\ status' = [status EXCEPT !.rows = row.id]
    /\ UNCHANGED <<queue, datalog, buffer, sdFull, mounted, live, spoolFailed,
                   spool, csv>>

Submit(row) == SubmitFits(row) \/ SubmitFull(row)
NextRow(stamp) == [id |-> status.rows + 1, stamp |-> stamp]

-----------------------------------------------------------------------------
(* sd_flush: what becomes of the buffered rows; the caller empties the      *)
(* buffer.  sd_check_space asks the card at most every 600 s, longer than   *)
(* any row stays buffered, so once it has said no every flush is told no.   *)

Filed(today, n) == {[day |-> today, row |-> buffer[m]] : m \in 1..n}

FlushWrites(today) ==
    /\ ~sdFull
    /\ csv' = csv \union Filed(today, Len(buffer))
    /\ UNCHANGED <<sdFull, status>>

\* The file cannot be opened, the write is short or the close fails: what was
\* written may stay, the rows are discarded and the failure is counted.
WriteFails(today) ==
    /\ ~sdFull
    /\ \E n \in 0..Len(buffer) : csv' = csv \union Filed(today, n)
    /\ status' = [status EXCEPT !.sdFailed = TRUE]
    /\ UNCHANGED sdFull

\* The card has less than SD_MIN_FREE_BYTES left, or does not tell: none then.
CardFull ==
    /\ sdFull' = TRUE
    /\ status' = [status EXCEPT !.sdFailed = TRUE]
    /\ UNCHANGED csv

FlushFailsSilently(today) == \* mutant: a short write is not counted
    \/ ~sdFull /\ UNCHANGED <<csv, sdFull, status>>
    \/ CardFull
FlushFails(today) == WriteFails(today) \/ CardFull

-----------------------------------------------------------------------------
(* The datalog task *)

\* xQueueReceive, and what sd_append does with the row but for the buffer.
Receive ==
    /\ datalog.at = "receive"
    /\ queue # <<>>
    /\ queue' = Tail(queue)
    /\ datalog' = [at |-> "publish", row |-> Head(queue)]
    /\ UNCHANGED <<mounted, counted, spool>>

\* Without a card, or once it is full, the row is not buffered.
Logging == mounted /\ ~sdFull
TakeUnbuffered ==
    /\ ~Logging
    /\ Receive
    /\ UNCHANGED sd

FitsOneMore == Len(buffer) <= BufferRows \* mutant: the bound is off by one
Fits == Len(buffer) < BufferRows
TakeBuffered ==
    /\ Logging /\ Fits
    /\ Receive
    /\ buffer' = Append(buffer, Head(queue))
    /\ UNCHANGED <<sdFull, status, csv>>

\* A row that does not fit makes room by a flush of the rows before it, and is
\* buffered whatever became of them.
TakeFlushing ==
    /\ Logging /\ ~Fits
    /\ Receive
    /\ buffer' = <<Head(queue)>>

OverflowFlush(today) == TakeFlushing /\ FlushWrites(today)
OverflowFlushFails(today) == TakeFlushing /\ FlushFails(today)

\* xQueueReceive times out after 500 ms.
ReceiveTimesOut ==
    /\ datalog.at = "receive"
    /\ queue = <<>>
    /\ To("flush")
    /\ UNCHANGED <<queue, sd, mounted, counted, spool>>

\* mqtt_publish_telemetry: success is counted only on a PUBACK; a failure may
\* leave the row with the broker all the same.
PublishAcked ==
    /\ datalog.at = "publish"
    /\ SF!Deliver(InHand.id) /\ UNCHANGED owed
    /\ live' = live \union {InHand.id}
    /\ Done
    /\ UNCHANGED <<queue, sd, mounted, dropped, spoolFailed>>

PublishFails ==
    /\ datalog.at = "publish"
    /\ delivered' \in {delivered, delivered \union {InHand.id}}
    /\ To("spool")
    /\ UNCHANGED <<queue, sd, mounted, counted, accepted, owed, forfeited>>

\* spool_append without a card: the row is not spooled, nor counted.
SpoolAbsent ==
    /\ datalog.at = "spool"
    /\ ~mounted
    /\ Done
    /\ UNCHANGED <<queue, sd, mounted, counted, spool>>

\* A backlog over its cap is given up before the row is appended.
SpoolOverCap ==
    /\ datalog.at = "spool"
    /\ mounted
    /\ SF!Sacrifice
    /\ UNCHANGED <<queue, datalog, sd, mounted, counted>>

WithinCap == Cardinality(owed) <= SpoolCapacity

SpoolAppends ==
    /\ datalog.at = "spool"
    /\ mounted /\ WithinCap
    /\ SF!Accept(InHand.id)
    /\ Done
    /\ UNCHANGED <<queue, sd, mounted, counted>>

SpoolFails ==
    /\ datalog.at = "spool"
    /\ mounted /\ WithinCap
    /\ spoolFailed' = spoolFailed \union {InHand.id}
    /\ Done
    /\ UNCHANGED <<queue, sd, mounted, dropped, live, spool>>

\* The buffer is flushed when its first row is older than SD_FLUSH_MS.
FlushDue ==
    /\ datalog.at = "flush"
    /\ buffer # <<>>
    /\ buffer' = <<>>
    /\ To("replay")
    /\ UNCHANGED <<queue, mounted, counted, spool>>

TimedFlush(today) == FlushDue /\ FlushWrites(today)
TimedFlushFails(today) == FlushDue /\ FlushFails(today)

NotDue ==
    /\ datalog.at = "flush"
    /\ To("replay")
    /\ UNCHANGED <<queue, sd, mounted, counted, spool>>

\* spool_replay_tick, one publish of it; a row it settles is gone from the spool.
Replay ==
    /\ datalog.at = "replay"
    /\ \E r \in owed : SF!Deliver(r)
    /\ UNCHANGED <<queue, datalog, sd, mounted, counted>>

\* The tick ends, and mqtt_maintenance_tick runs, which has no part in this.
TickEnds ==
    /\ datalog.at = "replay"
    /\ To("receive")
    /\ UNCHANGED <<queue, sd, mounted, counted, spool>>

-----------------------------------------------------------------------------

DatalogInit ==
    /\ queue = <<>> /\ buffer = <<>>
    /\ datalog = [at |-> "receive", row |-> NoRow]
    /\ sdFull = FALSE
    /\ mounted \in BOOLEAN
    /\ status = [rows |-> 0, sdFailed |-> FALSE]
    /\ dropped = {} /\ live = {} /\ spoolFailed = {}
    /\ csv = {}
    /\ SF!Init
=============================================================================
