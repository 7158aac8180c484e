--------------------------- MODULE TelemetryProofs ---------------------------
(***************************************************************************)
(* For any number of rows, days, wirings and disturbances and any sizes of *)
(* queue, buffer and spool, the telemetry pipeline of main/bms.c,          *)
(* main/timesync.c and main/datalog.c files rows in time, leaves a trace   *)
(* of a row it loses, and shows as detected only a battery that talks.     *)
(***************************************************************************)
EXTENDS Telemetry, TLAPS, SequenceTheorems

\* The UART is on the configured pins or will be dropped, and what is polled or
\* about to be published was read there, unless the pins changed meanwhile.
PollerInv ==
    /\ poller.at = "poll" => poller.from \in Pins
    /\ \/ reconfig
       \/ /\ uart \in {None, options.pins}
          /\ poller.at = "poll" => poller.from = options.pins
    /\ poller.at \in {"poll", "publish"} /\ reconfig => overtaken
    /\ poller.at = "publish" /\ ~overtaken => poller.from \in {options.pins, Sim}

\* Whoever is about to name a source has set the clock, and the clock is only
\* seeded while it has no source.
ClockInv ==
    /\ seeding = "record" \/ sntp = "call" => clock # 0
    /\ seeding = "seed" /\ ~crossed => source = "none"

\* No row that is still to be filed is stamped later than the clock.
StampInv ==
    /\ poller.stamp <= MaxDay
    /\ ~crossed =>
          /\ poller.stamp <= Today
          /\ \A n \in 1..Len(queue) : queue[n].stamp <= Today
          /\ \A n \in 1..Len(buffer) : buffer[n].stamp <= Today

\* Rows are queued and taken in the order of their numbers, which are drawn once.
OrderInv ==
    /\ \A n \in 1..Len(queue) : queue[n].id <= status.rows
    /\ \A m, n \in 1..Len(queue) : m < n => queue[m].id < queue[n].id
    /\ InHand # NoRow => /\ InHand.id <= status.rows
                         /\ \A n \in 1..Len(queue) : InHand.id < queue[n].id

\* A dropped row is nowhere else, and a row is counted once, when it was handled.
CountInv ==
    /\ \A r \in dropped : r <= status.rows /\ r \notin Underway
    /\ live \union accepted \union spoolFailed \subseteq Handled
    /\ mounted => Handled = live \union accepted \union spoolFailed
    /\ live \intersect (accepted \union spoolFailed) = {} /\ accepted \intersect spoolFailed = {}

\* Until the daily file fails, every row that was taken from the queue is in it or
\* in the buffer.
CardInv ==
    /\ sdFull => status.sdFailed
    /\ mounted /\ ~status.sdFailed =>
          /\ Handled \subseteq OnCard
          /\ InHand # NoRow => InHand.id \in OnCard

\* What the spool promises, and the counter of rows published live.
SpoolInv ==
    /\ accepted \subseteq delivered \union owed \union forfeited
    /\ live \subseteq delivered

\* The inductive invariant.
IInv ==
    /\ TypeOK /\ PollerInv /\ OnlineMeansTalks
    /\ ClockInv /\ StampInv /\ FiledInTime
    /\ OrderInv /\ CountInv /\ CardInv /\ SpoolInv

-----------------------------------------------------------------------------
(* The poller *)

\* Every step of the poller and of the web server keeps the poller's invariant.
LEMMA PollerStep ==
    ASSUME BmsTypeOK, PollerInv, OnlineMeansTalks, Today \in Nat,
           \/ TakeOptions \/ UartFails \/ PollAnswered \/ PollUnanswered
           \/ PublishReading(Today) \/ SubmitEnds
           \/ \E o \in Options : SetOptions(o)
           \/ UNCHANGED bmsVars
    PROVE  BmsTypeOK' /\ PollerInv' /\ OnlineMeansTalks'
  <1> USE OriginAssumption DEF BmsTypeOK, PollerInv, OnlineMeansTalks, Options, Origins
  <1>1. CASE TakeOptions
    BY <1>1 DEF TakeOptions, Taken
  <1>2. CASE UartFails
    BY <1>2 DEF UartFails
  <1>3. CASE PollAnswered
    BY <1>3 DEF PollAnswered, Polled
  <1>4. CASE PollUnanswered
    BY <1>4 DEF PollUnanswered, Polled
  <1>5. CASE PublishReading(Today)
    BY <1>5 DEF PublishReading
  <1>6. CASE SubmitEnds
    BY <1>6 DEF SubmitEnds
  <1>7. ASSUME NEW o \in Options, SetOptions(o)
        PROVE  BmsTypeOK' /\ PollerInv' /\ OnlineMeansTalks'
    <2>1. reconfig' \in BOOLEAN
      BY <1>7, Zenon DEF SetOptions
    <2>2. overtaken' \in BOOLEAN
      <3>1. (poller.at \in {"poll", "publish"}) \in BOOLEAN /\ overtaken \in BOOLEAN
        OBVIOUS
      <3> QED
        BY <1>7, <3>1, Zenon DEF SetOptions
    <2>3. /\ reconfig' <=> reconfig \/ o.pins # options.pins
          /\ overtaken' <=> IF o.pins = options.pins THEN overtaken
                            ELSE poller.at \in {"poll", "publish"}
      BY <1>7, Zenon DEF SetOptions
    <2>4. /\ options' = o /\ shown' = Forgotten(o)
          /\ UNCHANGED <<uart, poller, wired, latest>>
      BY <1>7 DEF SetOptions
    <2>5. BmsTypeOK'
      BY <2>1, <2>2, <2>4 DEF Forgotten, Silent
    <2>6. PollerInv'
      BY <2>3, <2>4
    <2>7. OnlineMeansTalks'
      BY <2>3, <2>4 DEF Forgotten, Silent
    <2> QED
      BY <2>5, <2>6, <2>7
  <1>8. CASE UNCHANGED bmsVars
    BY <1>8 DEF bmsVars
  <1> QED
    BY <1>1, <1>2, <1>3, <1>4, <1>5, <1>6, <1>7, <1>8

-----------------------------------------------------------------------------
(* The wall clock *)

\* Every step of the clock keeps its invariant, and moves what it tells backwards
\* only where SNTP has crossed the seed.
LEMMA ClockStep ==
    ASSUME TimeTypeOK, ClockInv,
           \/ TimesyncTask \/ OnSntpSync \/ ClockCatchesUp \/ FixAges
           \/ SntpSetsClock \/ GnssFix \/ Midnight
           \/ UNCHANGED timeVars
    PROVE  TimeTypeOK' /\ ClockInv' /\ (crossed' \/ (~crossed /\ Today <= Today'))
  <1> USE DayAssumption DEF TimeTypeOK, ClockInv, Sources, Today, ClockValid
  <1>1. CASE Look
    <2>1. sntpStarted' \in BOOLEAN
      BY <1>1, Zenon DEF Look
    <2> QED
      BY <1>1, <2>1 DEF Look, Seeded
  <1>2. CASE NoFix
    BY <1>2 DEF NoFix
  <1>3. CASE SeedClock
    BY <1>3 DEF SeedClock
  <1>4. CASE RecordSeed
    BY <1>4 DEF RecordSeed
  <1>5. CASE OnSntpSync
    <2>1. crossed' \in BOOLEAN /\ (crossed' <=> crossed \/ seeding = "seed")
      BY <1>5, Zenon DEF OnSntpSync
    <2>2. /\ sntp = "call" /\ source' = "sntp" /\ sntp' = "idle"
          /\ UNCHANGED <<sntpStarted, seeding, clock, day, fix>>
      BY <1>5 DEF OnSntpSync
    <2> QED
      BY <2>1, <2>2
  <1>6. CASE ClockCatchesUp
    BY <1>6 DEF ClockCatchesUp
  <1>7. CASE FixAges
    BY <1>7 DEF FixAges
  <1>8. CASE SntpSetsClock
    BY <1>8 DEF SntpSetsClock
  <1>9. CASE GnssFix
    BY <1>9 DEF GnssFix
  <1>10. CASE Midnight
    BY <1>10 DEF Midnight
  <1>11. CASE UNCHANGED timeVars
    BY <1>11 DEF timeVars
  <1> QED
    BY <1>1, <1>2, <1>3, <1>4, <1>5, <1>6, <1>7, <1>8, <1>9, <1>10, <1>11 DEF TimesyncTask

-----------------------------------------------------------------------------
(* The types of the pipeline *)

\* The part of TypeOK that speaks of Datalog.
PipeTypeOK ==
    /\ queue \in Seq(Row) /\ Len(queue) <= QueueDepth
    /\ buffer \in Seq(Row) /\ Len(buffer) <= BufferRows
    /\ datalog \in [at : {"receive", "publish", "spool", "flush", "replay"},
                    row : Row \union {NoRow}]
    /\ datalog.row = NoRow <=> datalog.at \notin {"publish", "spool"}
    /\ sdFull \in BOOLEAN /\ mounted \in BOOLEAN
    /\ status \in [rows : 0..MaxRows, sdFailed : BOOLEAN]
    /\ dropped \subseteq Ids /\ live \subseteq Ids /\ spoolFailed \subseteq Ids
    /\ accepted \subseteq Ids /\ delivered \subseteq Ids
    /\ owed \subseteq Ids /\ forfeited \subseteq Ids
    /\ csv \subseteq [day : 0..MaxDay, row : Row]

\* A row is not the value that stands for none.
LEMMA RowsAreRows == NoRow \notin Row
  BY NoRowAssumption, SizesAssumption, DayAssumption DEF Row, Ids

\* What sd_flush does, whether it works or not: it files only what is buffered,
\* and what it does not file is counted.
LEMMA FlushEffect ==
    ASSUME PipeTypeOK, NEW today \in 0..MaxDay, FlushWrites(today) \/ FlushFails(today)
    PROVE  /\ csv \subseteq csv' /\ csv' \subseteq csv \union Filed(today, Len(buffer))
           /\ csv' \subseteq [day : 0..MaxDay, row : Row]
           /\ status' \in [rows : 0..MaxRows, sdFailed : BOOLEAN]
           /\ status'.rows = status.rows /\ (status.sdFailed => status'.sdFailed)
           /\ sdFull' \in BOOLEAN /\ (sdFull' => sdFull \/ status'.sdFailed)
           /\ status'.sdFailed \/ csv' = csv \union Filed(today, Len(buffer))
  <1>0. Len(buffer) \in Nat /\ \A m \in 1..Len(buffer) : buffer[m] \in Row
    BY LenProperties, ElementOfSeq DEF PipeTypeOK
  <1>a. Filed(today, Len(buffer)) \subseteq [day : 0..MaxDay, row : Row]
    BY <1>0 DEF Filed
  <1>1. CASE FlushWrites(today)
    BY <1>1, <1>a DEF FlushWrites, PipeTypeOK
  <1>2. CASE WriteFails(today)
    <2>1. PICK n \in 0..Len(buffer) : csv' = csv \union Filed(today, n)
      BY <1>2 DEF WriteFails
    <2>2. Filed(today, n) \subseteq Filed(today, Len(buffer))
      BY <1>0 DEF Filed
    <2> QED
      BY <1>2, <1>a, <2>1, <2>2 DEF WriteFails, PipeTypeOK
  <1>3. CASE CardFull
    BY <1>3 DEF CardFull, PipeTypeOK
  <1> QED
    BY <1>1, <1>2, <1>3 DEF FlushFails

\* A row that is taken from the queue is its first, and the rest stays as it was.
LEMMA ReceiveEffect ==
    ASSUME PipeTypeOK, Receive
    PROVE  /\ Len(queue) \in Nat \ {0} /\ Len(queue') = Len(queue) - 1
           /\ queue' \in Seq(Row)
           /\ \A n \in 1..Len(queue') : n + 1 \in 1..Len(queue) /\ queue'[n] = queue[n + 1]
           /\ queue[1] \in Row /\ Head(queue) = queue[1]
           /\ InHand = NoRow /\ InHand' = queue[1] /\ datalog'.at = "publish"
           /\ datalog' \in [at : {"publish"}, row : Row]
  <1>1. queue \in Seq(Row) /\ queue # <<>> /\ queue' = Tail(queue)
    BY DEF Receive, PipeTypeOK
  <1>2. Len(queue) \in Nat \ {0} /\ queue[1] \in Row
    BY <1>1, EmptySeq, LenProperties, ElementOfSeq
  <1>3. /\ Head(queue) = queue[1] /\ Tail(queue) \in Seq(Row)
        /\ Len(Tail(queue)) = Len(queue) - 1
        /\ \A n \in 1..Len(Tail(queue)) : Tail(queue)[n] = queue[n + 1]
    BY <1>1, HeadTailProperties
  <1>4. \A n \in 1..Len(queue') : n + 1 \in 1..Len(queue)
    BY <1>1, <1>2, <1>3
  <1> QED
    BY <1>1, <1>2, <1>3, <1>4 DEF Receive, InHand, PipeTypeOK

\* Every step of the datalog task keeps the types of the pipeline.
LEMMA PipeTypeStep ==
    ASSUME PipeTypeOK, DatalogTask, Today \in 0..MaxDay
    PROVE  PipeTypeOK'
  <1> DEFINE Places == {"receive", "publish", "spool", "flush", "replay"}
  <1>0. /\ Len(buffer) \in Nat /\ InHand \in Row \union {NoRow}
        /\ InHand \in Row => InHand.id \in Ids
    BY LenProperties DEF PipeTypeOK, Row, InHand
  <1>1. ASSUME Receive, buffer' \in Seq(Row), Len(buffer') <= BufferRows,
               csv' \subseteq [day : 0..MaxDay, row : Row],
               status' \in [rows : 0..MaxRows, sdFailed : BOOLEAN], sdFull' \in BOOLEAN
        PROVE  PipeTypeOK'
    <2>1. /\ queue' \in Seq(Row) /\ Len(queue') <= QueueDepth
      BY <1>1, ReceiveEffect, SizesAssumption DEF PipeTypeOK
    <2>2. /\ datalog' \in [at : Places, row : Row \union {NoRow}]
          /\ datalog'.row # NoRow /\ datalog'.at = "publish"
      BY <1>1, ReceiveEffect, RowsAreRows
    <2>3. UNCHANGED <<mounted, counted, spool>>
      BY <1>1 DEF Receive
    <2> QED
      BY <1>1, <2>1, <2>2, <2>3 DEF PipeTypeOK, counted, spool
  <1>2. CASE TakeUnbuffered
    BY <1>1, <1>2 DEF TakeUnbuffered, sd, PipeTypeOK
  <1>3. CASE TakeBuffered
    <2>1. Receive /\ Head(queue) \in Row /\ buffer' = Append(buffer, Head(queue))
      BY <1>3, ReceiveEffect DEF TakeBuffered
    <2>2. buffer' \in Seq(Row) /\ Len(buffer') = Len(buffer) + 1
      BY <2>1, AppendProperties DEF PipeTypeOK
    <2>3. Len(buffer') <= BufferRows
      BY <1>0, <1>3, <2>2, SizesAssumption DEF TakeBuffered, Fits
    <2> QED
      BY <1>1, <1>3, <2>1, <2>2, <2>3 DEF TakeBuffered, PipeTypeOK
  <1>4. CASE OverflowFlush(Today) \/ OverflowFlushFails(Today)
    <2>1. Receive /\ buffer' = <<Head(queue)>> /\ Head(queue) \in Row
      BY <1>4, ReceiveEffect DEF OverflowFlush, OverflowFlushFails, TakeFlushing
    <2>2. buffer' \in Seq(Row) /\ Len(buffer') <= BufferRows
      BY <2>1, SizesAssumption
    <2> QED
      BY <1>1, <1>4, <2>1, <2>2, FlushEffect DEF OverflowFlush, OverflowFlushFails
  <1>5. ASSUME UNCHANGED <<queue, sd, mounted>>, datalog' = [datalog EXCEPT !.at = "spool"],
               datalog.at = "publish",
               UNCHANGED counted, UNCHANGED <<accepted, owed, forfeited>>, delivered' \subseteq Ids
        PROVE  PipeTypeOK'
    BY <1>5 DEF PipeTypeOK, sd, counted
  <1>6. ASSUME UNCHANGED <<queue, sd, mounted, dropped>>, Done,
               live' \subseteq Ids, spoolFailed' \subseteq Ids, accepted' \subseteq Ids,
               delivered' \subseteq Ids, owed' \subseteq Ids, forfeited' \subseteq Ids
        PROVE  PipeTypeOK'
    BY <1>6 DEF PipeTypeOK, sd, Done
  <1>7. ASSUME UNCHANGED <<queue, mounted, counted>>,
               \/ UNCHANGED datalog
               \/ /\ datalog.at \notin {"publish", "spool"}
                  /\ \E place \in {"receive", "flush", "replay"} :
                        datalog' = [datalog EXCEPT !.at = place],
               buffer' \in {buffer, <<>>}, csv' \subseteq [day : 0..MaxDay, row : Row],
               status' \in [rows : 0..MaxRows, sdFailed : BOOLEAN], sdFull' \in BOOLEAN,
               accepted' \subseteq Ids, delivered' \subseteq Ids,
               owed' \subseteq Ids, forfeited' \subseteq Ids
        PROVE  PipeTypeOK'
    <2>1. buffer' \in Seq(Row) /\ Len(buffer') <= BufferRows
      <3>1. <<>> \in Seq(Row) /\ Len(<<>>) = 0 /\ 0 <= BufferRows
        BY SizesAssumption, EmptySeq
      <3> QED
        BY <1>7, <3>1 DEF PipeTypeOK
    <2>2. /\ datalog' \in [at : Places, row : Row \union {NoRow}]
          /\ datalog'.row = NoRow <=> datalog'.at \notin {"publish", "spool"}
      BY <1>7 DEF PipeTypeOK
    <2> QED
      BY <1>7, <2>1, <2>2 DEF PipeTypeOK, counted
  <1>8. CASE ReceiveTimesOut
    BY <1>7, <1>8 DEF ReceiveTimesOut, To, sd, spool, PipeTypeOK
  <1>9. CASE PublishAcked
    BY <1>0, <1>6, <1>9 DEF PublishAcked, SF!Deliver, PipeTypeOK, InHand
  <1>10. CASE PublishFails
    BY <1>0, <1>5, <1>10 DEF PublishFails, To, PipeTypeOK, InHand
  <1>11. CASE SpoolAbsent
    BY <1>6, <1>11 DEF SpoolAbsent, counted, spool, PipeTypeOK
  <1>12. CASE SpoolOverCap
    BY <1>7, <1>12 DEF SpoolOverCap, SF!Sacrifice, sd, PipeTypeOK
  <1>13. CASE SpoolAppends
    BY <1>0, <1>6, <1>13 DEF SpoolAppends, SF!Accept, counted, PipeTypeOK, InHand
  <1>14. CASE SpoolFails
    BY <1>0, <1>6, <1>14 DEF SpoolFails, spool, PipeTypeOK, InHand
  <1>15. CASE TimedFlush(Today) \/ TimedFlushFails(Today)
    BY <1>7, <1>15, FlushEffect DEF TimedFlush, TimedFlushFails, FlushDue, To, spool, PipeTypeOK
  <1>16. CASE NotDue
    BY <1>7, <1>16 DEF NotDue, To, sd, spool, PipeTypeOK
  <1>17. CASE Replay
    BY <1>7, <1>17 DEF Replay, SF!Deliver, sd, PipeTypeOK
  <1>18. CASE TickEnds
    BY <1>7, <1>18 DEF TickEnds, To, sd, spool, PipeTypeOK
  <1> QED
    BY <1>2, <1>3, <1>4, <1>8, <1>9, <1>10, <1>11, <1>12, <1>13, <1>14, <1>15, <1>16,
       <1>17, <1>18 DEF DatalogTask

\* The queue takes a snapshot at its end.
LEMMA SubmitFitsEffect ==
    ASSUME PipeTypeOK, NEW row \in Row, SubmitFits(row)
    PROVE  /\ queue' \in Seq(Row) /\ Len(queue) \in Nat /\ Len(queue') = Len(queue) + 1
           /\ \A n \in 1..Len(queue) : queue'[n] = queue[n]
           /\ queue'[Len(queue) + 1] = row
  BY AppendProperties, LenProperties DEF SubmitFits, PipeTypeOK

\* The poller submits its snapshot: the types of the pipeline are kept.
LEMMA SubmitTypeStep ==
    ASSUME PipeTypeOK, NEW row \in Row, row.id = status.rows + 1, Submit(row)
    PROVE  PipeTypeOK'
  <1>1. row.id \in Ids /\ [status EXCEPT !.rows = row.id] \in [rows : 0..MaxRows, sdFailed : BOOLEAN]
    <2>1. row.id \in Ids
      BY DEF Row
    <2>2. row.id \in 0..MaxRows
      BY <2>1, SizesAssumption DEF Ids
    <2> QED
      BY <2>1, <2>2 DEF PipeTypeOK
  <1>2. CASE SubmitFits(row)
    <2>1. queue' \in Seq(Row) /\ Len(queue') <= QueueDepth
      BY <1>2, SubmitFitsEffect, SizesAssumption DEF SubmitFits
    <2> QED
      BY <1>1, <1>2, <2>1 DEF SubmitFits, PipeTypeOK, counted, spool
  <1>3. CASE SubmitFull(row)
    BY <1>1, <1>3 DEF SubmitFull, PipeTypeOK, counted, spool
  <1> QED
    BY <1>2, <1>3 DEF Submit

\* The step of the poller that submits is the only one of its steps that changes the
\* pipeline, and what it submits is a row with the next number.
LEMMA BmsTaskStep ==
    ASSUME TypeOK, StampInv, BmsTask
    PROVE  \/ UNCHANGED datalogVars
           \/ /\ NextRow(poller.stamp) \in Row /\ NextRow(poller.stamp).id = status.rows + 1
              /\ NextRow(poller.stamp).stamp = poller.stamp
              /\ status.rows \in Nat
              /\ poller' = [poller EXCEPT !.at = "top", !.stamp = 0]
              /\ Submit(NextRow(poller.stamp))
  <1>1. SUFFICES ASSUME status.rows < MaxRows, SubmitEnds, Submit(NextRow(poller.stamp))
                 PROVE  /\ NextRow(poller.stamp) \in Row
                        /\ NextRow(poller.stamp).id = status.rows + 1
                        /\ NextRow(poller.stamp).stamp = poller.stamp
                        /\ status.rows \in Nat
    BY DEF BmsTask, SubmitEnds
  <1>2. status.rows \in Nat /\ poller.stamp \in 0..MaxDay
    BY DayAssumption DEF TypeOK, BmsTypeOK, StampInv
  <1> QED
    BY <1>1, <1>2, SizesAssumption DEF NextRow, Row, Ids

\* What the clock tells is a day or 0.
LEMMA TodayType ==
    ASSUME TimeTypeOK
    PROVE  Today \in 0..MaxDay
  BY DayAssumption DEF TimeTypeOK, Today

\* Every step keeps every variable in its type, and the invariants of poller and clock.
LEMMA TypeStep ==
    ASSUME TypeOK, PollerInv, OnlineMeansTalks, ClockInv, StampInv, [Next]_vars
    PROVE  /\ TypeOK' /\ PollerInv' /\ OnlineMeansTalks' /\ ClockInv'
           /\ crossed' \/ (~crossed /\ Today <= Today')
  <1>1. BmsTypeOK /\ TimeTypeOK /\ PipeTypeOK /\ disturbances \in 0..MaxDisturbances
    BY DEF TypeOK, PipeTypeOK
  <1>2. Today \in 0..MaxDay /\ Today \in Nat
    BY <1>1, TodayType, DayAssumption
  <1>3. BmsTypeOK' /\ PollerInv' /\ OnlineMeansTalks'
    BY <1>1, <1>2, PollerStep DEF Next, BmsTask, WebServer, Clock, DatalogTask, vars
  <1>4. TimeTypeOK' /\ ClockInv' /\ (crossed' \/ (~crossed /\ Today <= Today'))
    BY <1>1, ClockStep DEF Next, BmsTask, WebServer, Clock, DatalogTask, vars
  <1>5. PipeTypeOK'
    <2>1. CASE BmsTask
      BY <1>1, <2>1, BmsTaskStep, SubmitTypeStep DEF PipeTypeOK, datalogVars, counted, spool
    <2>2. CASE DatalogTask
      BY <1>1, <1>2, <2>2, PipeTypeStep
    <2>3. CASE UNCHANGED datalogVars
      BY <1>1, <2>3 DEF PipeTypeOK, datalogVars, counted, spool
    <2> QED
      BY <2>1, <2>2, <2>3 DEF Next, WebServer, Clock, vars
  <1>6. disturbances' \in 0..MaxDisturbances
    BY <1>1, DisturbancesAssumption
       DEF Next, BmsTask, WebServer, Clock, DatalogTask, Routine, Disturbance, vars
  <1> QED
    BY <1>3, <1>4, <1>5, <1>6 DEF TypeOK, PipeTypeOK

-----------------------------------------------------------------------------
(* Stamps *)

\* A row is stamped, queued, buffered and filed with a clock that only moves forward.
LEMMA StampStep ==
    ASSUME TypeOK, PollerInv, OnlineMeansTalks, ClockInv, StampInv, FiledInTime, [Next]_vars
    PROVE  StampInv' /\ FiledInTime'
  <1>0. /\ TypeOK' /\ (crossed' \/ (~crossed /\ Today <= Today'))
        /\ BmsTypeOK /\ TimeTypeOK /\ PipeTypeOK /\ PipeTypeOK' /\ TimeTypeOK'
    BY TypeStep DEF TypeOK, PipeTypeOK
  <1>a. Today \in 0..MaxDay /\ Today' \in 0..MaxDay /\ MaxDay \in Nat
    <2>1. TimeTypeOK => Today \in 0..MaxDay
      BY TodayType
    <2>2. (TimeTypeOK => Today \in 0..MaxDay)'
      BY DayAssumption DEF TimeTypeOK, Today
    <2> QED
      BY <1>0, <2>1, <2>2, DayAssumption
  <1>b. /\ Len(queue) \in Nat /\ Len(buffer) \in Nat /\ Len(queue') \in Nat /\ Len(buffer') \in Nat
        /\ \A n \in 1..Len(queue) : queue[n].stamp \in Nat
        /\ \A n \in 1..Len(buffer) : buffer[n].stamp \in Nat
        /\ poller.stamp \in Nat
    <2>1. /\ \A n \in 1..Len(queue) : queue[n] \in Row
          /\ \A n \in 1..Len(buffer) : buffer[n] \in Row
      BY <1>0, ElementOfSeq DEF PipeTypeOK
    <2> QED
      BY <1>0, <2>1, LenProperties, DayAssumption DEF PipeTypeOK, BmsTypeOK, Row
  <1> DEFINE Stamped ==
               /\ \A n \in 1..Len(queue) : queue[n].stamp <= Today
               /\ \A n \in 1..Len(buffer) : buffer[n].stamp <= Today
             Filing == \A entry \in csv : entry.row.stamp <= entry.day
  <1>c. poller'.stamp <= MaxDay /\ (~crossed' => poller'.stamp <= Today')
    <2>1. poller'.stamp \in {poller.stamp, Today, 0}
      <3>1. ASSUME NEW x \in {"top", "poll", "publish", "submit"}
            PROVE  /\ [poller EXCEPT !.at = x].stamp = poller.stamp
                   /\ \A y : [poller EXCEPT !.at = x, !.from = y].stamp = poller.stamp
                   /\ \A y : [poller EXCEPT !.at = x, !.stamp = y].stamp = y
        BY <1>0 DEF BmsTypeOK
      <3> QED
        BY <1>0, <3>1 DEF BmsTypeOK, Next, BmsTask, WebServer, Clock, DatalogTask, vars, bmsVars, TakeOptions,
              UartFails, PollAnswered, PollUnanswered, PublishReading, SubmitEnds, SetOptions
    <2> QED
      BY <1>0, <1>a, <1>b, <2>1 DEF StampInv
  <1>d. SUFFICES ASSUME ~crossed', Stamped, Filing, ~crossed, Today <= Today',
                        poller.stamp <= Today
                 PROVE  Stamped' /\ Filing'
    BY <1>0, <1>c DEF StampInv, FiledInTime
  \* Rows that stay where they are.
  <1>e. /\ queue' = queue => \A n \in 1..Len(queue') : queue'[n].stamp <= Today'
        /\ buffer' = buffer => \A n \in 1..Len(buffer') : buffer'[n].stamp <= Today'
    BY <1>a, <1>b, <1>d
  <1>f. CASE UNCHANGED datalogVars
    BY <1>d, <1>e, <1>f DEF datalogVars
  <1>1. CASE BmsTask
    <2> DEFINE row == NextRow(poller.stamp)
    <2>1. SUFFICES ASSUME row \in Row, row.stamp = poller.stamp, Submit(row)
                   PROVE  Stamped' /\ Filing'
      BY <1>1, <1>f, BmsTaskStep
    <2> HIDE DEF row
    <2>2. CASE SubmitFits(row)
      <3>1. \A n \in 1..Len(queue') : n \in 1..Len(queue) \/ n = Len(queue) + 1
        BY <1>0, <1>b, <2>1, <2>2, SubmitFitsEffect
      <3>2. \A n \in 1..Len(queue') : queue'[n].stamp <= Today'
        BY <1>0, <1>a, <1>b, <1>d, <2>1, <2>2, <3>1, SubmitFitsEffect
      <3> QED
        BY <1>d, <1>e, <2>2, <3>2 DEF SubmitFits
    <2>3. CASE SubmitFull(row)
      BY <1>d, <1>e, <2>3 DEF SubmitFull
    <2> QED
      BY <2>1, <2>2, <2>3 DEF Submit
  <1>2. CASE DatalogTask
    <2>1. ASSUME Receive
          PROVE  /\ \A n \in 1..Len(queue') : queue'[n].stamp <= Today'
                 /\ Head(queue).stamp <= Today' /\ Head(queue) \in Row
      <3>1. \A n \in 1..Len(queue) : queue[n].stamp <= Today'
        BY <1>a, <1>b, <1>d
      <3>2. /\ 1 \in 1..Len(queue) /\ Head(queue) = queue[1] /\ queue[1] \in Row
            /\ \A n \in 1..Len(queue') : n + 1 \in 1..Len(queue) /\ queue'[n] = queue[n + 1]
        BY <1>0, <2>1, ReceiveEffect
      <3> QED
        BY <3>1, <3>2
    <2>2. ASSUME FlushWrites(Today) \/ FlushFails(Today) PROVE Filing'
      <3>1. csv' \subseteq csv \union Filed(Today, Len(buffer))
        BY <1>0, <1>a, <2>2, FlushEffect
      <3>2. \A entry \in Filed(Today, Len(buffer)) : entry.row.stamp <= entry.day
        BY <1>d DEF Filed
      <3> QED
        BY <1>d, <3>1, <3>2
    <2>3. CASE TakeUnbuffered
      BY <1>d, <1>e, <2>1, <2>3 DEF TakeUnbuffered, sd
    <2>4. CASE TakeBuffered
      <3>1. Receive /\ buffer' = Append(buffer, Head(queue)) /\ csv' = csv
        BY <2>4 DEF TakeBuffered
      <3>2. /\ Len(buffer') = Len(buffer) + 1
            /\ \A n \in 1..Len(buffer) : buffer'[n] = buffer[n]
            /\ buffer'[Len(buffer) + 1] = Head(queue)
        BY <1>0, <2>1, <3>1, AppendProperties DEF PipeTypeOK
      <3>3. \A n \in 1..Len(buffer') : n \in 1..Len(buffer) \/ n = Len(buffer) + 1
        BY <1>b, <3>2
      <3>4. \A n \in 1..Len(buffer') : buffer'[n].stamp <= Today'
        BY <1>a, <1>b, <1>d, <2>1, <3>1, <3>2, <3>3
      <3> QED
        BY <1>d, <2>1, <3>1, <3>4
    <2>5. CASE OverflowFlush(Today) \/ OverflowFlushFails(Today)
      <3>1. Receive /\ buffer' = <<Head(queue)>> /\ Filing'
        BY <2>2, <2>5 DEF OverflowFlush, OverflowFlushFails, TakeFlushing
      <3>2. \A n \in 1..Len(buffer') : buffer'[n].stamp <= Today'
        BY <2>1, <3>1
      <3> QED
        BY <2>1, <3>1, <3>2
    <2>6. CASE TimedFlush(Today) \/ TimedFlushFails(Today)
      <3>1. buffer' = <<>> /\ queue' = queue /\ Filing'
        BY <2>2, <2>6 DEF TimedFlush, TimedFlushFails, FlushDue
      <3> QED
        BY <1>e, <3>1
    <2>7. CASE UNCHANGED <<queue, buffer, csv>>
      BY <1>d, <1>e, <2>7
    <2> QED
      BY <1>2, <2>3, <2>4, <2>5, <2>6, <2>7
         DEF DatalogTask, ReceiveTimesOut, PublishAcked, PublishFails, SpoolAbsent, SpoolOverCap,
             SpoolAppends, SpoolFails, NotDue, Replay, TickEnds, sd
  <1> QED
    BY <1>1, <1>2, <1>f DEF Next, WebServer, Clock, vars

-----------------------------------------------------------------------------
(* Numbers *)

\* The numbers of the queue and of the row in hand.
LEMMA Numbers ==
    ASSUME PipeTypeOK
    PROVE  /\ Len(queue) \in Nat /\ status.rows \in Nat
           /\ \A n \in 1..Len(queue) : queue[n].id \in Nat
           /\ InHand \in Row \union {NoRow} /\ NoRow \notin Row
           /\ InHand # NoRow => InHand.id \in Nat
           /\ Underway = {queue[n].id : n \in 1..Len(queue)}
                            \union (IF InHand = NoRow THEN {} ELSE {InHand.id})
  <1>1. \A n \in 1..Len(queue) : queue[n] \in Row
    BY ElementOfSeq DEF PipeTypeOK
  <1>2. Len(queue) \in Nat /\ DOMAIN queue = 1..Len(queue)
    BY LenProperties DEF PipeTypeOK
  <1>3. status.rows \in Nat /\ InHand \in Row \union {NoRow}
    BY DEF PipeTypeOK, InHand
  <1>4. \A r \in Row : r.id \in Nat
    BY DEF Row, Ids
  <1> QED
    BY <1>1, <1>2, <1>3, <1>4, RowsAreRows DEF Underway

\* A row that is taken from the queue is under way as before.
LEMMA ReceiveUnderway ==
    ASSUME PipeTypeOK, PipeTypeOK', OrderInv, Receive, status'.rows = status.rows
    PROVE  OrderInv' /\ Underway' = Underway /\ Handled' = Handled
  <1>1. /\ Len(queue) \in Nat \ {0} /\ Len(queue') = Len(queue) - 1
        /\ \A n \in 1..Len(queue') : n + 1 \in 1..Len(queue) /\ queue'[n] = queue[n + 1]
        /\ InHand = NoRow /\ InHand' = queue[1] /\ queue[1] \in Row
    BY ReceiveEffect
  <1>2. \A n \in 1..Len(queue) : n = 1 \/ (n - 1 \in 1..Len(queue') /\ queue'[n - 1] = queue[n])
    BY <1>1
  <1>3. /\ Underway = {queue[n].id : n \in 1..Len(queue)}
        /\ NoRow \notin Row
    BY <1>1, Numbers
  <1>4. /\ DOMAIN queue' = 1..Len(queue')
        /\ Underway' = {queue'[n].id : n \in 1..Len(queue')} \union {queue[1].id}
    <2>1. DOMAIN queue' = 1..Len(queue')
      BY LenProperties DEF PipeTypeOK
    <2> QED
      BY <1>1, <1>3, <2>1 DEF Underway
  <1>5. Underway' = Underway
    <2>1. ASSUME NEW n \in 1..Len(queue) PROVE queue[n].id \in Underway'
      BY <1>1, <1>2, <1>4
    <2>2. ASSUME NEW n \in 1..Len(queue') PROVE queue'[n].id \in Underway
      BY <1>1, <1>3
    <2>3. queue[1].id \in Underway
      BY <1>1, <1>3
    <2> QED
      BY <1>3, <1>4, <2>1, <2>2, <2>3
  <1>6. OrderInv'
    <2>1. \A n \in 1..Len(queue') : queue'[n].id <= status'.rows
      BY <1>1 DEF OrderInv
    <2>2. ASSUME NEW m \in 1..Len(queue'), NEW n \in 1..Len(queue'), m < n
          PROVE  queue'[m].id < queue'[n].id
      <3>1. m + 1 \in 1..Len(queue) /\ n + 1 \in 1..Len(queue) /\ m + 1 < n + 1
        BY <1>1, <2>2
      <3> QED
        BY <1>1, <3>1 DEF OrderInv
    <2>3. InHand'.id <= status'.rows /\ \A n \in 1..Len(queue') : InHand'.id < queue'[n].id
      <3>1. 1 \in 1..Len(queue) /\ \A n \in 1..Len(queue') : n + 1 \in 1..Len(queue) /\ 1 < n + 1
        BY <1>1
      <3> QED
        BY <1>1, <3>1 DEF OrderInv
    <2> QED
      BY <2>1, <2>2, <2>3 DEF OrderInv
  <1>7. dropped' = dropped
    BY DEF Receive, counted
  <1> QED
    BY <1>5, <1>6, <1>7 DEF Handled

\* A row that the task is done with is handled, and was not before.
LEMMA DoneUnderway ==
    ASSUME PipeTypeOK, OrderInv, CountInv, datalog.at \in {"publish", "spool"}, Done,
           UNCHANGED <<queue, status, dropped>>
    PROVE  /\ OrderInv' /\ Underway' = Underway \ {InHand.id}
           /\ InHand.id \in Ids /\ InHand.id \notin Handled
           /\ Handled' = Handled \union {InHand.id}
  <1>1. InHand # NoRow /\ InHand' = NoRow /\ InHand \in Row
    BY DEF PipeTypeOK, InHand, Done
  <1>2. InHand.id \in Ids /\ InHand.id \in 1..status.rows
    BY <1>1, Numbers DEF OrderInv, Row, Ids
  <1>3. \A n \in 1..Len(queue) : queue[n].id # InHand.id
    BY <1>1, Numbers DEF OrderInv
  <1>4. /\ Underway = {queue[n].id : n \in 1..Len(queue)} \union {InHand.id}
        /\ Underway' = {queue[n].id : n \in 1..Len(queue)}
    <2>1. DOMAIN queue = 1..Len(queue)
      BY LenProperties DEF PipeTypeOK
    <2> QED
      BY <1>1, <2>1 DEF Underway
  <1>5. Underway' = Underway \ {InHand.id}
    BY <1>3, <1>4
  <1>6. OrderInv'
    BY <1>1 DEF OrderInv
  <1>7. InHand.id \notin dropped /\ InHand.id \in Underway
    BY <1>4 DEF CountInv
  <1>8. Handled' = (1..status.rows) \ ((Underway \ {InHand.id}) \union dropped)
    BY <1>5 DEF Handled
  <1> QED
    BY <1>2, <1>5, <1>6, <1>7, <1>8 DEF Handled

\* A row that is submitted is under way or dropped.
LEMMA SubmitUnderway ==
    ASSUME PipeTypeOK, OrderInv, CountInv, NEW row \in Row, row.id = status.rows + 1, Submit(row)
    PROVE  /\ OrderInv' /\ Handled' = Handled
           /\ \A r \in dropped' : r <= status'.rows /\ r \notin Underway'
  <1>0. /\ Len(queue) \in Nat /\ status.rows \in Nat /\ status'.rows = status.rows + 1
        /\ \A n \in 1..Len(queue) : queue[n].id \in Nat
        /\ InHand' = InHand /\ (InHand # NoRow => InHand.id \in Nat)
        /\ Underway = {queue[n].id : n \in 1..Len(queue)}
                          \union (IF InHand = NoRow THEN {} ELSE {InHand.id})
    BY Numbers DEF Submit, SubmitFits, SubmitFull, InHand, PipeTypeOK
  <1>1. status.rows + 1 \notin Underway /\ dropped \subseteq 1..status.rows
    BY <1>0 DEF OrderInv, CountInv, PipeTypeOK, Ids
  <1>2. CASE SubmitFits(row)
    <2>1. /\ Len(queue') = Len(queue) + 1 /\ DOMAIN queue' = 1..Len(queue')
          /\ \A n \in 1..Len(queue) : queue'[n] = queue[n]
          /\ queue'[Len(queue) + 1] = row
      BY <1>2, SubmitFitsEffect, LenProperties
    <2>2. \A n \in 1..Len(queue') : n \in 1..Len(queue) \/ n = Len(queue) + 1
      BY <1>0, <2>1
    <2>3. \A n \in 1..Len(queue) : n \in 1..Len(queue') /\ Len(queue) + 1 \in 1..Len(queue')
      BY <1>0, <2>1
    <2>4. Underway' = Underway \union {row.id}
      <3>1. {queue'[n].id : n \in 1..Len(queue')} = {queue[n].id : n \in 1..Len(queue)} \union {row.id}
        <4>1. Len(queue) + 1 \in 1..Len(queue')
          BY <1>0, <2>1
        <4> QED
          BY <2>1, <2>2, <2>3, <4>1
      <3> QED
        BY <1>0, <2>1, <3>1 DEF Underway
    <2>5. OrderInv'
      <3>1. \A n \in 1..Len(queue') : queue'[n].id <= status'.rows
        BY <1>0, <2>1, <2>2 DEF OrderInv
      <3>2. ASSUME NEW m \in 1..Len(queue'), NEW n \in 1..Len(queue'), m < n
            PROVE  queue'[m].id < queue'[n].id
        <4>1. m \in 1..Len(queue) /\ queue'[m].id <= status.rows
          BY <1>0, <2>1, <2>2, <3>2 DEF OrderInv
        <4>2. CASE n \in 1..Len(queue)
          BY <2>1, <3>2, <4>1, <4>2 DEF OrderInv
        <4>3. CASE n = Len(queue) + 1
          BY <1>0, <2>1, <4>1, <4>3
        <4> QED
          BY <2>2, <4>2, <4>3
      <3>3. InHand' # NoRow => /\ InHand'.id <= status'.rows
                               /\ \A n \in 1..Len(queue') : InHand'.id < queue'[n].id
        BY <1>0, <2>1, <2>2 DEF OrderInv
      <3> QED
        BY <3>1, <3>2, <3>3 DEF OrderInv
    <2>6. dropped' = dropped
      BY <1>2 DEF SubmitFits, counted
    <2>7. 1..status'.rows = (1..status.rows) \union {row.id}
      BY <1>0
    <2>8. \A r \in dropped : r <= status'.rows /\ r \notin Underway
      BY <1>0, <1>1 DEF CountInv
    <2> QED
      BY <1>0, <1>1, <2>4, <2>5, <2>6, <2>7, <2>8 DEF Handled
  <1>3. CASE SubmitFull(row)
    <2>1. queue' = queue /\ dropped' = dropped \union {row.id}
      BY <1>3 DEF SubmitFull
    <2>2. Underway' = Underway
      BY <1>0, <2>1 DEF Underway
    <2>3. OrderInv'
      BY <1>0, <2>1 DEF OrderInv
    <2>4. 1..status'.rows = (1..status.rows) \union {row.id}
      BY <1>0
    <2>5. \A r \in dropped : r <= status'.rows /\ r \notin Underway
      BY <1>0, <1>1 DEF CountInv
    <2> QED
      BY <1>0, <1>1, <2>1, <2>2, <2>3, <2>4, <2>5 DEF Handled
  <1> QED
    BY <1>2, <1>3 DEF Submit

\* A step that leaves the queue and the row in hand alone handles no row.
LEMMA StillUnderway ==
    ASSUME PipeTypeOK, OrderInv, UNCHANGED <<queue, dropped>>, datalog'.row = datalog.row,
           status'.rows = status.rows
    PROVE  OrderInv' /\ Underway' = Underway /\ Handled' = Handled
  <1>1. InHand' = InHand /\ Underway' = Underway
    BY DEF InHand, Underway
  <1> QED
    BY <1>1 DEF OrderInv, Handled

\* Each step either handles no row and counts none, or it is the last step of the
\* row in hand, which it counts at most once, and exactly once if there is a card.
LEMMA CountStep ==
    ASSUME TypeOK, StampInv, OrderInv, CountInv, [Next]_vars, PipeTypeOK'
    PROVE  /\ OrderInv' /\ CountInv'
           /\ Handled' \subseteq Handled \union (IF InHand = NoRow THEN {} ELSE {InHand.id})
  <1>0. PipeTypeOK
    BY DEF TypeOK, PipeTypeOK
  <1>1. ASSUME OrderInv', Handled' = Handled, UNCHANGED <<live, accepted, spoolFailed, mounted>>,
               \A r \in dropped' : r <= status'.rows /\ r \notin Underway'
        PROVE  OrderInv' /\ CountInv' /\ Handled' \subseteq Handled
    BY <1>1 DEF CountInv
  <1>2. ASSUME UNCHANGED <<queue, dropped, live, accepted, spoolFailed, mounted>>,
               datalog'.row = datalog.row, status'.rows = status.rows
        PROVE  OrderInv' /\ CountInv' /\ Handled' \subseteq Handled
    BY <1>0, <1>1, <1>2, StillUnderway DEF CountInv
  <1>3. CASE UNCHANGED datalogVars
    BY <1>2, <1>3 DEF datalogVars, counted, spool
  <1>4. CASE BmsTask
    <2> DEFINE row == NextRow(poller.stamp)
    <2>1. SUFFICES ASSUME row \in Row, row.id = status.rows + 1, Submit(row)
                   PROVE  OrderInv' /\ CountInv' /\ Handled' \subseteq Handled
      BY <1>3, <1>4, BmsTaskStep
    <2> HIDE DEF row
    <2>2. UNCHANGED <<live, accepted, spoolFailed, mounted>>
      BY <2>1 DEF Submit, SubmitFits, SubmitFull, counted, spool
    <2> QED
      BY <1>0, <1>1, <2>1, <2>2, SubmitUnderway
  <1>5. CASE DatalogTask
    <2>1. ASSUME Receive, status'.rows = status.rows
          PROVE  OrderInv' /\ CountInv' /\ Handled' \subseteq Handled
      <3>1. UNCHANGED <<dropped, live, accepted, spoolFailed, mounted>>
        BY <2>1 DEF Receive, counted, spool
      <3>2. OrderInv' /\ Underway' = Underway /\ Handled' = Handled
        BY <1>0, <2>1, ReceiveUnderway
      <3> QED
        BY <1>1, <2>1, <3>1, <3>2 DEF CountInv
    <2>2. ASSUME datalog.at \in {"publish", "spool"}, Done, UNCHANGED <<queue, status, dropped, mounted>>,
                 \/ live' = live \union {InHand.id} /\ UNCHANGED <<accepted, spoolFailed>>
                 \/ accepted' = accepted \union {InHand.id} /\ UNCHANGED <<live, spoolFailed>>
                 \/ spoolFailed' = spoolFailed \union {InHand.id} /\ UNCHANGED <<live, accepted>>
                 \/ ~mounted /\ UNCHANGED <<live, accepted, spoolFailed>>
          PROVE  OrderInv' /\ CountInv' /\ Handled' = Handled \union {InHand.id} /\ InHand # NoRow
      <3>1. /\ OrderInv' /\ Underway' = Underway \ {InHand.id}
            /\ InHand.id \notin Handled /\ Handled' = Handled \union {InHand.id}
        BY <1>0, <2>2, DoneUnderway
      <3>2. \A r \in dropped' : r <= status'.rows /\ r \notin Underway'
        BY <2>2, <3>1 DEF CountInv
      <3>3. InHand # NoRow
        BY <1>0, <2>2 DEF PipeTypeOK, InHand
      <3> QED
        BY <2>2, <3>1, <3>2, <3>3 DEF CountInv
    <2>3. CASE TakeUnbuffered
      BY <2>1, <2>3 DEF TakeUnbuffered, sd
    <2>4. CASE TakeBuffered
      BY <2>1, <2>4 DEF TakeBuffered
    <2>5. ASSUME FlushWrites(Today) \/ FlushFails(Today) PROVE status'.rows = status.rows
      BY <1>0, <2>5, FlushEffect, TodayType DEF TypeOK
    <2>6. CASE OverflowFlush(Today) \/ OverflowFlushFails(Today)
      BY <2>1, <2>5, <2>6 DEF OverflowFlush, OverflowFlushFails, TakeFlushing
    <2>7. CASE PublishAcked
      BY <2>2, <2>7 DEF PublishAcked, SF!Deliver, sd
    <2>8. CASE SpoolAbsent
      BY <2>2, <2>8 DEF SpoolAbsent, sd, counted, spool
    <2>9. CASE SpoolAppends
      BY <2>2, <2>9 DEF SpoolAppends, SF!Accept, sd, counted
    <2>10. CASE SpoolFails
      BY <2>2, <2>10 DEF SpoolFails, sd, spool
    <2>11. CASE TimedFlush(Today) \/ TimedFlushFails(Today)
      BY <1>0, <1>2, <2>5, <2>11
         DEF TimedFlush, TimedFlushFails, FlushDue, To, counted, spool, PipeTypeOK
    <2>12. CASE \/ ReceiveTimesOut \/ PublishFails \/ SpoolOverCap \/ NotDue \/ Replay \/ TickEnds
      BY <1>0, <1>2, <2>12
         DEF ReceiveTimesOut, PublishFails, SpoolOverCap, NotDue, Replay, TickEnds, To,
             SF!Sacrifice, SF!Deliver, sd, counted, spool, PipeTypeOK
    <2> QED
      BY <1>5, <2>2, <2>3, <2>4, <2>6, <2>7, <2>8, <2>9, <2>10, <2>11, <2>12,
         Zenon DEF DatalogTask
  <1> QED
    BY <1>3, <1>4, <1>5 DEF Next, WebServer, Clock, vars

-----------------------------------------------------------------------------
(* The daily file and the spool *)

\* While no flush has failed, what was in the daily file or the buffer stays in one of
\* them, and a row that is taken with a card in place joins it.
LEMMA CardEffect ==
    ASSUME TypeOK, CardInv, [Next]_vars
    PROVE  /\ sdFull' => status'.sdFailed
           /\ status.sdFailed => status'.sdFailed
           /\ mounted' = mounted
           /\ ~status'.sdFailed =>
                 /\ OnCard \subseteq OnCard'
                 /\ mounted /\ InHand' # InHand /\ InHand' # NoRow => InHand'.id \in OnCard'
  <1>0. /\ PipeTypeOK /\ Today \in 0..MaxDay
        /\ DOMAIN buffer = 1..Len(buffer) /\ Len(buffer) \in Nat
    BY TodayType, LenProperties DEF TypeOK, PipeTypeOK
  <1>a. sdFull => status.sdFailed
    BY DEF CardInv
  <1>b. ASSUME UNCHANGED <<buffer, csv>> PROVE OnCard' = OnCard
    BY <1>b DEF OnCard
  <1>1. ASSUME UNCHANGED <<buffer, csv, sdFull, mounted>>, status'.sdFailed = status.sdFailed, InHand' \in {InHand, NoRow}
        PROVE  /\ sdFull' => status'.sdFailed
               /\ status.sdFailed => status'.sdFailed
               /\ mounted' = mounted
               /\ OnCard \subseteq OnCard'
               /\ InHand' = InHand \/ InHand' = NoRow
    BY <1>1, <1>a, <1>b
  <1>2. CASE UNCHANGED datalogVars
    BY <1>1, <1>2 DEF datalogVars, InHand
  <1>3. ASSUME NEW row, Submit(row)
        PROVE  UNCHANGED <<buffer, csv, sdFull, mounted, datalog>> /\ status'.sdFailed = status.sdFailed
    BY <1>0, <1>3 DEF Submit, SubmitFits, SubmitFull, PipeTypeOK
  <1>4. CASE BmsTask
    BY <1>1, <1>2, <1>3, <1>4 DEF BmsTask, InHand
  <1>5. CASE DatalogTask
    <2>1. ASSUME Receive PROVE mounted' = mounted /\ InHand' = Head(queue)
      BY <1>0, <2>1, ReceiveEffect DEF Receive
    <2>2. CASE TakeUnbuffered
      BY <1>a, <1>b, <2>1, <2>2 DEF TakeUnbuffered, Logging, sd
    <2>3. CASE TakeBuffered
      <3>1. buffer' = Append(buffer, Head(queue)) /\ UNCHANGED <<csv, sdFull, status, mounted>>
        BY <2>1, <2>3 DEF TakeBuffered
      <3>2. Head(queue) \in Row
        BY <1>0, <2>3, ReceiveEffect DEF TakeBuffered
      <3>3. /\ DOMAIN buffer' = 1..Len(buffer')
            /\ Len(buffer') = Len(buffer) + 1
            /\ \A n \in 1..Len(buffer) : buffer'[n] = buffer[n]
            /\ buffer'[Len(buffer) + 1] = Head(queue)
        BY <1>0, <3>1, <3>2, AppendProperties, LenProperties DEF PipeTypeOK
      <3>4. Len(buffer) + 1 \in 1..Len(buffer') /\ \A n \in 1..Len(buffer) : n \in 1..Len(buffer')
        BY <1>0, <3>3
      <3>5. OnCard \subseteq OnCard' /\ Head(queue).id \in OnCard'
        BY <1>0, <3>1, <3>3, <3>4 DEF OnCard
      <3> QED
        BY <1>a, <2>1, <2>3, <3>1, <3>5 DEF TakeBuffered
    <2>4. ASSUME FlushWrites(Today) \/ FlushFails(Today)
          PROVE  /\ sdFull' => status'.sdFailed
                 /\ status.sdFailed => status'.sdFailed
                 /\ ~status'.sdFailed => OnCard \subseteq {entry.row.id : entry \in csv'}
      <3>1. /\ csv \subseteq csv' /\ (status.sdFailed => status'.sdFailed)
            /\ (sdFull' => sdFull \/ status'.sdFailed)
            /\ status'.sdFailed \/ csv' = csv \union Filed(Today, Len(buffer))
        BY <1>0, <2>4, FlushEffect
      <3>2. ASSUME NEW n \in 1..Len(buffer), csv' = csv \union Filed(Today, Len(buffer))
            PROVE  \E entry \in csv' : entry.row.id = buffer[n].id
        <4>1. [day |-> Today, row |-> buffer[n]] \in csv'
          BY <3>2 DEF Filed
        <4> QED
          BY <4>1
      <3> QED
        BY <1>0, <1>a, <3>1, <3>2 DEF OnCard
    <2>5. CASE OverflowFlush(Today) \/ OverflowFlushFails(Today)
      <3>1. Receive /\ buffer' = <<Head(queue)>> /\ (FlushWrites(Today) \/ FlushFails(Today))
        BY <2>5 DEF OverflowFlush, OverflowFlushFails, TakeFlushing
      <3>2. 1 \in DOMAIN buffer' /\ buffer'[1] = Head(queue)
        BY <3>1
      <3>3. Head(queue).id \in OnCard'
        BY <3>2 DEF OnCard
      <3>4. {entry.row.id : entry \in csv'} \subseteq OnCard'
        BY DEF OnCard
      <3> QED
        BY <2>1, <2>4, <3>1, <3>3, <3>4
    <2>6. CASE TimedFlush(Today) \/ TimedFlushFails(Today)
      <3>1. /\ FlushWrites(Today) \/ FlushFails(Today)
            /\ mounted' = mounted /\ InHand' = InHand
        BY <1>0, <2>6 DEF TimedFlush, TimedFlushFails, FlushDue, To, InHand, PipeTypeOK
      <3>2. {entry.row.id : entry \in csv'} \subseteq OnCard'
        BY DEF OnCard
      <3> QED
        BY <2>4, <3>1, <3>2
    <2>7. CASE \/ ReceiveTimesOut \/ PublishAcked \/ PublishFails \/ SpoolAbsent \/ SpoolOverCap
               \/ SpoolAppends \/ SpoolFails \/ NotDue \/ Replay \/ TickEnds
      <3>1. UNCHANGED <<sd, mounted>> /\ InHand' \in {InHand, NoRow}
        BY <1>0, <2>7
           DEF ReceiveTimesOut, PublishAcked, PublishFails, SpoolAbsent, SpoolOverCap, SpoolAppends,
               SpoolFails, NotDue, Replay, TickEnds, To, Done, InHand, PipeTypeOK
      <3> QED
        BY <1>1, <3>1 DEF sd
    <2> QED
      BY <1>5, <2>2, <2>3, <2>5, <2>6, <2>7, Zenon DEF DatalogTask
  <1> QED
    BY <1>2, <1>4, <1>5 DEF Next, WebServer, Clock, vars

\* Every row that was taken is on the card, until a flush fails.
LEMMA CardStep ==
    ASSUME TypeOK, StampInv, OrderInv, CountInv, CardInv, [Next]_vars, PipeTypeOK'
    PROVE  CardInv'
  <1>1. Handled' \subseteq Handled \union (IF InHand = NoRow THEN {} ELSE {InHand.id})
    BY CountStep
  <1> QED
    BY <1>1, CardEffect DEF CardInv

\* The spool keeps its promise, and only acknowledged rows count as published live.
LEMMA SpoolStep ==
    ASSUME TypeOK, SpoolInv, [Next]_vars
    PROVE  SpoolInv'
  <1> USE DEF SpoolInv
  <1>1. CASE UNCHANGED <<live, spool>>
    BY <1>1 DEF spool
  <1>2. CASE BmsTask
    BY <1>1, <1>2 DEF BmsTask, Submit, SubmitFits, SubmitFull, datalogVars, counted, spool
  <1>3. CASE DatalogTask
    <2>1. CASE PublishAcked
      BY <2>1 DEF PublishAcked, SF!Deliver
    <2>2. CASE PublishFails
      BY <2>2 DEF PublishFails, counted
    <2>3. CASE SpoolOverCap
      BY <2>3 DEF SpoolOverCap, SF!Sacrifice, counted
    <2>4. CASE SpoolAppends
      BY <2>4 DEF SpoolAppends, SF!Accept, counted
    <2>5. CASE Replay
      BY <2>5 DEF Replay, SF!Deliver, counted
    <2>6. CASE UNCHANGED <<live, spool>>
      BY <1>1, <2>6
    <2> QED
      BY <1>3, <2>1, <2>2, <2>3, <2>4, <2>5, <2>6
         DEF DatalogTask, TakeUnbuffered, TakeBuffered, OverflowFlush, OverflowFlushFails, TakeFlushing,
             Receive, ReceiveTimesOut, SpoolAbsent, SpoolFails, TimedFlush, TimedFlushFails, FlushDue,
             NotDue, TickEnds, counted
  <1> QED
    BY <1>1, <1>2, <1>3 DEF Next, WebServer, Clock, vars, datalogVars, counted

-----------------------------------------------------------------------------
(* The theorems *)

\* A board that has just started satisfies the inductive invariant.
LEMMA InitInv == Init => IInv
  <1> SUFFICES ASSUME Init PROVE IInv
    OBVIOUS
  <1>0. BmsInit /\ TimeInit /\ DatalogInit /\ disturbances = 0
    BY DEF Init
  <1>1. BmsTypeOK /\ PollerInv /\ OnlineMeansTalks
    BY <1>0, StoredAssumption DEF BmsInit, BmsTypeOK, PollerInv, OnlineMeansTalks, Silent, Options, Origins
  <1>2. TimeTypeOK /\ ClockInv /\ Today = 0
    <2>1. MaxDay \in Nat /\ 1 \in 1..MaxDay
      BY DayAssumption
    <2>2. TimeTypeOK
      <3>1. /\ source = "none" /\ sntpStarted = FALSE /\ crossed = FALSE
            /\ seeding = "look" /\ sntp = "idle"
        BY <1>0 DEF TimeInit
      <3>2. day \in 1..MaxDay /\ clock \in 0..day /\ fix \in 0..day
        BY <1>0, <2>1 DEF TimeInit
      <3> QED
        BY <3>1, <3>2 DEF TimeTypeOK, Sources
    <2> QED
      BY <1>0, <2>2 DEF TimeInit, ClockInv, Today, ClockValid
  <1>3. <<>> \in Seq(Row) /\ Len(<<>>) = 0
    BY EmptySeq
  <1>4. TypeOK
    <2>1. /\ queue \in Seq(Row) /\ Len(queue) <= QueueDepth
          /\ buffer \in Seq(Row) /\ Len(buffer) <= BufferRows
      BY <1>0, <1>3, SizesAssumption DEF DatalogInit
    <2>2. /\ status \in [rows : 0..MaxRows, sdFailed : BOOLEAN]
          /\ disturbances \in 0..MaxDisturbances
      BY <1>0, SizesAssumption, DisturbancesAssumption DEF DatalogInit
    <2>3. \A rows \in {dropped, live, spoolFailed, accepted, delivered, owed, forfeited} :
             rows \subseteq Ids
      BY <1>0 DEF DatalogInit, SF!Init
    <2> QED
      BY <1>0, <1>1, <1>2, <2>1, <2>2, <2>3, RowsAreRows DEF DatalogInit, TypeOK
  <1>5. StampInv /\ FiledInTime
    BY <1>0, <1>2, <1>3, DayAssumption DEF BmsInit, DatalogInit, StampInv, FiledInTime
  <1>6. OrderInv /\ InHand = NoRow /\ Handled = {}
    <2>1. InHand = NoRow /\ Len(queue) = 0
      BY <1>0, <1>3 DEF DatalogInit, InHand
    <2>2. OrderInv
      BY <2>1 DEF OrderInv
    <2>3. 1..status.rows = {}
      BY <1>0 DEF DatalogInit
    <2> QED
      BY <2>1, <2>2, <2>3 DEF Handled
  <1>7. CountInv /\ CardInv /\ SpoolInv
    BY <1>0, <1>6 DEF DatalogInit, CountInv, CardInv, SpoolInv, SF!Init
  <1> QED
    BY <1>1, <1>2, <1>4, <1>5, <1>6, <1>7 DEF IInv

\* The inductive invariant holds in every reachable state.
THEOREM Invariance == Spec => []IInv
  <1>1. IInv /\ [Next]_vars => IInv'
    <2> SUFFICES ASSUME IInv, [Next]_vars PROVE IInv'
      OBVIOUS
    <2>1. TypeOK' /\ PollerInv' /\ OnlineMeansTalks' /\ ClockInv'
      BY TypeStep DEF IInv
    <2>2. PipeTypeOK'
      BY <2>1 DEF TypeOK, PipeTypeOK
    <2>3. StampInv' /\ FiledInTime'
      BY StampStep DEF IInv
    <2>4. OrderInv' /\ CountInv' /\ CardInv' /\ SpoolInv'
      BY <2>2, CountStep, CardStep, SpoolStep DEF IInv
    <2> QED
      BY <2>1, <2>3, <2>4 DEF IInv
  <1> QED
    BY <1>1, InitInv, PTL DEF Spec

\* Every variable of the pipeline always has its type: the queue and the buffer stay
\* within their sizes, and the task has a row in hand just while it needs one.
THEOREM TypeCorrect == Spec => []TypeOK
  <1>1. IInv => TypeOK
    BY DEF IInv
  <1> QED
    BY <1>1, Invariance, PTL

\* However midnights, fixes, synchronisations and flushes are interleaved, no row is in
\* the file of a day before the one it is stamped with, unless SNTP crossed the seed.
THEOREM NoRowFiledEarly == Spec => []FiledInTime
  <1>1. IInv => FiledInTime
    BY DEF IInv
  <1> QED
    BY <1>1, Invariance, PTL

\* A row that reaches neither the card nor the broker nor the spool has left a trace in
\* the counters, and every row is counted once.
THEOREM LostRowsShow == Spec => []RowsLeaveATrace
  <1>1. IInv => RowsLeaveATrace
    BY DEF IInv, CountInv, CardInv, SpoolInv, RowsLeaveATrace, Lost
  <1> QED
    BY <1>1, Invariance, PTL

\* A battery that is shown as detected was read on the pins that are configured, or
\* simulated, unless the pins changed under the reading.
THEOREM DetectedMeansRead == Spec => []OnlineMeansTalks
  <1>1. IInv => OnlineMeansTalks
    BY DEF IInv
  <1> QED
    BY <1>1, Invariance, PTL
=============================================================================
