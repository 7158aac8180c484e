---------------------------- MODULE DatalogSpool ----------------------------
(***************************************************************************)
(* The store-and-forward spool of main/datalog.c, driven by the single     *)
(* datalog task: a row that cannot be published live is appended to        *)
(* /sdcard/spool/bms.csv, and a few rows per tick are replayed to the      *)
(* broker when it is reachable.  A sidecar file, bms.cursor, records how   *)
(* far replay has been acknowledged.                                       *)
(*                                                                         *)
(* One action is one step between two file-system or network operations,   *)
(* so that power can be cut between any two of them.  A row occupies two   *)
(* cells of the file, its first part and the part that ends in the         *)
(* newline, so that a write can be cut in the middle; offsets count cells. *)
(***************************************************************************)
EXTENDS Integers, Sequences, FiniteSets

CONSTANTS
    Rows,           \* the rows the producers submit
    Garbage,        \* a published line that is not a row exactly as it was appended
    ReplayPerTick,  \* SPOOL_REPLAY_PER_TICK
    SpoolMax,       \* SPOOL_MAX_BYTES, in cells
    MaxReboots,     \* bound: power is cut at most this often
    Faults          \* which of FaultKinds may happen

\* "io_error": a file operation fails.  "cut_in_reset": power is lost after the
\* spool file is unlinked and before its cursor is rewritten.  "cut_in_append":
\* power is lost while a row is being written.
FaultKinds == {"io_error", "cut_in_reset", "cut_in_append"}

ASSUME RowsAssumption == Garbage \notin Rows
ASSUME BudgetAssumption == ReplayPerTick \in Nat \ {0}
ASSUME BoundsAssumption == SpoolMax \in Nat /\ MaxReboots \in Nat
ASSUME FaultsAssumption == Faults \subseteq FaultKinds

VARIABLES
    \* the datalog task
    pc,          \* where the task is
    ret,         \* where spool_reset and spool_save_cursor return to
    row,         \* handle_snapshot's line
    size,        \* s_spool_size, Unloaded before spool_load_state
    cursor,      \* s_spool_cursor
    budget,      \* replay publishes left in this tick
    advanced,    \* cursor_advanced
    \* the SD card
    mounted,     \* sdcard_mounted(), decided when the board boots
    file,        \* bms.csv: a sequence of cells
    diskCursor,  \* what bms.cursor parses to: 0 when missing or empty
    \* the world
    link,        \* the broker: reachable, unreliable or unreachable
    reboots,
    \* history, for the properties only
    taken,       \* rows the task has dequeued
    accepted,    \* rows completely on the card and counted
    delivered,   \* lines the broker has received
    forfeited,   \* rows given up with a backlog over its cap, or with a damaged spool
    staleCursor, \* bms.cursor still speaks of a spool file that was unlinked
    damage       \* what is wrong with the spool until it is next unlinked

task == <<pc, ret, row, size, cursor, budget, advanced>>
disk == <<file, diskCursor>>
history == <<taken, accepted, delivered, forfeited, staleCursor, damage>>
vars == <<task, disk, mounted, link, reboots, history>>

Unloaded == -1
NoRow == Garbage

\* The file holds a torn line, or is read from an offset of the file before it.
FileDamage == {"torn_append", "stale_cursor"}
\* s_spool_size is less than the file holds: unlink failed, or stat did.  The
\* file is as it should be, and the next boot finds it so.
SizeDamage == {"unlink_failed", "size_unread"}
Locations == {"receive", "publish", "append", "append_write", "replay", "send",
              "close", "unlink", "save", "save_write"}

Lesser(a, b) == IF a <= b THEN a ELSE b

Cell(r, last) == [row |-> r, eol |-> last]
RowCells(r) == <<Cell(r, FALSE), Cell(r, TRUE)>>

\* What can be found of a row whose write was interrupted.
PartialWrites(r) == {<<>>, <<Cell(r, FALSE)>>, RowCells(r)}

\* Where the line that starts at offset c ends: at its newline, or at the end
\* of the file when it has none.  Empty at the end of the file.
LineEnds(c) ==
    {e \in (c + 1)..Len(file) :
        /\ file[e].eol \/ e = Len(file)
        /\ \A i \in (c + 1)..(e - 1) : ~file[i].eol}

\* The line between offsets c and e, as the broker sees it.
LineAt(c, e) ==
    IF e = c + 2 /\ ~file[c + 1].eol /\ file[e].eol /\ file[c + 1].row = file[e].row
    THEN file[e].row
    ELSE Garbage

-----------------------------------------------------------------------------
(* spool_load_state: what s_spool_size and s_spool_cursor are once it ran. *)

MustLoadOnAppend == size = Unloaded /\ mounted /\ pc = "append" \* mutant
MustLoad == size = Unloaded /\ mounted

\* A file that stat() cannot look at is taken to be empty, and a cursor that
\* cannot be read to be 0.
OrZero(n) == IF "io_error" \in Faults THEN {n, 0} ELSE {n}

\* A cursor beyond the end of the file is clamped to it.
Load ==
    IF MustLoad
    THEN /\ size' \in OrZero(Len(file))
         /\ \E c \in OrZero(diskCursor) : cursor' = Lesser(c, size')
         /\ damage' = IF size' < Len(file) THEN damage \union {"size_unread"} ELSE damage
    ELSE UNCHANGED <<size, cursor, damage>>

\* The offset a boot that can read both files goes on from.
RecoveredCursor == Lesser(diskCursor, Len(file))

\* The backlog that would have to be trimmed from the front of the file.
OverCapOrAtIt == size' - cursor' >= SpoolMax \* mutant
OverCap == size' - cursor' > SpoolMax

\* There is something to replay, and somebody to replay it to.
ReplayDue ==
    /\ size' > 0
    /\ cursor' < size'
    /\ link # "down"

\* Rows of the file from offset c on.
RowsFrom(c) == {file[i].row : i \in (c + 1)..Len(file)}

-----------------------------------------------------------------------------
(* mqtt_publish_telemetry, as the spool sees it: it reports success only   *)
(* after a PUBACK, but a failure may leave the row with the broker.        *)

PublishAckedUnconfirmed(line) == \* mutant: success without a PUBACK
    /\ link # "down"
    /\ delivered' \in {delivered, delivered \union {line}}

PublishAcked(line) ==
    /\ link # "down"
    /\ delivered' = delivered \union {line}

PublishFailed(line) ==
    \/ /\ link = "down"
       /\ UNCHANGED delivered
    \/ /\ link = "flaky"
       /\ delivered' \in {delivered, delivered \union {line}}

-----------------------------------------------------------------------------
(* handle_snapshot and spool_append. *)

\* xQueueReceive hands over a snapshot, which becomes a line.
ReceiveRow(r) ==
    /\ pc = "receive"
    /\ r \notin taken
    /\ taken' = taken \union {r}
    /\ row' = r
    /\ pc' = "publish"
    /\ UNCHANGED <<ret, size, cursor, budget, advanced, disk, mounted, link, reboots,
                   accepted, delivered, forfeited, staleCursor, damage>>

\* xQueueReceive times out after 500 ms.
ReceiveTimeout ==
    /\ pc = "receive"
    /\ pc' = "replay"
    /\ UNCHANGED <<ret, row, size, cursor, budget, advanced, disk, mounted, link,
                   reboots, history>>

\* The row is offered to the broker live; only a failure sends it to the spool.
PublishLive ==
    /\ pc = "publish"
    /\ \/ PublishAcked(row) /\ pc' = "replay" /\ row' = NoRow
       \/ PublishFailed(row) /\ pc' = "append" /\ UNCHANGED row
    /\ UNCHANGED <<ret, size, cursor, budget, advanced, disk, mounted, link, reboots,
                   taken, accepted, forfeited, staleCursor, damage>>

\* No card: the row is not spooled.  Backlog over the cap: reset the spool first.
AppendBegin ==
    /\ pc = "append"
    /\ Load
    /\ \/ /\ size' < 0
          /\ pc' = "replay" /\ row' = NoRow
          /\ UNCHANGED ret
       \/ /\ size' >= 0
          /\ OverCap
          /\ pc' = "unlink" /\ ret' = "append_write"
          /\ UNCHANGED row
       \/ /\ size' >= 0
          /\ ~OverCap
          /\ pc' = "append_write"
          /\ UNCHANGED <<ret, row>>
    /\ UNCHANGED <<budget, advanced, disk, mounted, link, reboots, taken, accepted,
                   delivered, forfeited, staleCursor>>

AppendWrite ==
    /\ pc = "append_write"
    /\ file' = file \o RowCells(row)
    /\ size' = size + 2
    /\ accepted' = accepted \union {row}
    /\ pc' = "replay" /\ row' = NoRow
    /\ UNCHANGED <<ret, cursor, budget, advanced, diskCursor, mounted, link, reboots,
                   taken, delivered, forfeited, staleCursor, damage>>

\* The file cannot be opened, or the write or the close fails: whatever reached
\* the card stays there, uncounted by s_spool_size.
AppendFails ==
    /\ "io_error" \in Faults
    /\ pc = "append_write"
    /\ \E part \in PartialWrites(row) :
          /\ file' = file \o part
          /\ damage' = IF part = <<>> THEN damage ELSE damage \union {"torn_append"}
    /\ pc' = "replay" /\ row' = NoRow
    /\ UNCHANGED <<ret, size, cursor, budget, advanced, diskCursor, mounted, link,
                   reboots, taken, accepted, delivered, forfeited, staleCursor>>

-----------------------------------------------------------------------------
(* spool_replay_tick: at most ReplayPerTick lines per pass of the task loop. *)

ReplayBegin ==
    /\ pc = "replay"
    /\ Load
    /\ \/ ReplayDue /\ pc' = "send" /\ budget' = ReplayPerTick
       \/ /\ ~ReplayDue \/ "io_error" \in Faults \* bms.csv cannot be opened
          /\ pc' = "receive"
          /\ UNCHANGED budget
    /\ UNCHANGED <<ret, row, advanced, disk, mounted, link, reboots, taken, accepted,
                   delivered, forfeited, staleCursor>>

\* The line at the cursor is published and acknowledged: the cursor moves past it.
NextCursorWithoutNewline(e) == e - 1 \* mutant
NextCursor(e) == e
TickDoneLate == budget = 0 \* mutant
TickDone == budget = 1
ReplayAcked ==
    /\ pc = "send"
    /\ \E e \in LineEnds(cursor) :
          /\ PublishAcked(LineAt(cursor, e))
          /\ cursor' = NextCursor(e)
    /\ advanced' = TRUE
    /\ budget' = budget - 1
    /\ pc' = IF TickDone THEN "close" ELSE "send"
    /\ UNCHANGED <<ret, row, size, disk, mounted, link, reboots, taken, accepted,
                   forfeited, staleCursor, damage>>

ReplayFailedSkips == \* mutant: the cursor moves on before the publish
    /\ pc = "send"
    /\ \E e \in LineEnds(cursor) : PublishFailed(LineAt(cursor, e)) /\ cursor' = e
    /\ pc' = "close" /\ budget' = 0
    /\ UNCHANGED <<ret, row, size, advanced, disk, mounted, link, reboots,
                   taken, accepted, forfeited, staleCursor, damage>>

\* The publish fails: the cursor stays at this line.
ReplayFailed ==
    /\ pc = "send"
    /\ \E e \in LineEnds(cursor) : PublishFailed(LineAt(cursor, e))
    /\ pc' = "close" /\ budget' = 0
    /\ UNCHANGED <<ret, row, size, cursor, advanced, disk, mounted, link, reboots,
                   taken, accepted, forfeited, staleCursor, damage>>

\* fgets finds no further line, or fails.
ReplayEndOfFile ==
    /\ pc = "send"
    /\ LineEnds(cursor) = {} \/ "io_error" \in Faults
    /\ pc' = "close" /\ budget' = 0
    /\ UNCHANGED <<ret, row, size, cursor, advanced, disk, mounted, link, reboots,
                   history>>

\* A drained spool is reset; otherwise progress is checkpointed.
AfterReplayNoCheckpoint == IF cursor >= size THEN "unlink" ELSE "receive" \* mutant
AfterReplay ==
    IF cursor >= size THEN "unlink" ELSE IF advanced THEN "save" ELSE "receive"
ReplayClose ==
    /\ pc = "close"
    /\ pc' = AfterReplay
    /\ ret' = "receive"
    /\ advanced' = FALSE
    /\ UNCHANGED <<row, size, cursor, budget, disk, mounted, link, reboots, history>>

-----------------------------------------------------------------------------
(* spool_reset and spool_save_cursor. *)

\* What goes with the backlog: all that is owed when it is over its cap, and
\* whatever the broker has not got when the spool is damaged.
GivenUp == IF ret = "append_write" THEN accepted \intersect RowsFrom(cursor) ELSE {}
LostInDamage == IF damage = {} THEN {} ELSE (accepted \intersect RowsFrom(0)) \ delivered

\* The result of unlink is ignored: size and cursor become 0 whatever happens.
ResetUnlink ==
    /\ pc = "unlink"
    /\ \/ /\ file' = <<>>
          /\ staleCursor' = (diskCursor > 0)
          /\ forfeited' = forfeited \union GivenUp \union LostInDamage
          /\ damage' = {}
       \/ /\ "io_error" \in Faults
          /\ forfeited' = forfeited \union GivenUp
          /\ damage' = damage \union {"unlink_failed"}
          /\ UNCHANGED <<file, staleCursor>>
    /\ size' = 0 /\ cursor' = 0
    /\ pc' = "save"
    /\ UNCHANGED <<ret, row, budget, advanced, diskCursor, mounted, link, reboots,
                   taken, accepted, delivered>>

\* fopen(.., "w") empties bms.cursor before the new offset is written; when it
\* fails the old contents stay.
SaveOpen ==
    /\ pc = "save"
    /\ \/ diskCursor' = 0 /\ staleCursor' = FALSE /\ pc' = "save_write"
       \/ "io_error" \in Faults /\ pc' = ret /\ UNCHANGED <<diskCursor, staleCursor>>
    /\ UNCHANGED <<ret, row, size, cursor, budget, advanced, file, mounted, link,
                   reboots, taken, accepted, delivered, forfeited, damage>>

SaveWrite ==
    /\ pc = "save_write"
    /\ diskCursor' \in IF "io_error" \in Faults THEN {0, cursor} ELSE {cursor}
    /\ pc' = ret
    /\ UNCHANGED <<ret, row, size, cursor, budget, advanced, file, mounted, link,
                   reboots, history>>

-----------------------------------------------------------------------------
(* The world: the link to the broker, and power. *)

LinkChange ==
    /\ link' \in {"up", "flaky", "down"} \ {link}
    /\ UNCHANGED <<task, disk, mounted, reboots, history>>

\* spool_reset has unlinked the file and has not emptied bms.cursor yet.
InResetWindow == pc = "save" /\ size = 0

\* What a power cut leaves of the write it interrupts.
CutWrites ==
    IF pc = "append_write"
    THEN IF "cut_in_append" \in Faults THEN PartialWrites(row) ELSE {<<>>, RowCells(row)}
    ELSE {<<>>}

\* Power is cut and comes back: the RAM state is gone, the card keeps what
\* was written, and it mounts or not.  A cursor of an unlinked file does its
\* damage when a new file has grown under it.
Reboot ==
    /\ reboots < MaxReboots
    /\ reboots' = reboots + 1
    /\ InResetWindow => "cut_in_reset" \in Faults
    /\ \E part \in CutWrites :
          /\ file' = file \o part
          /\ accepted' = IF part = RowCells(row) THEN accepted \union {row} ELSE accepted
          /\ damage' = (damage \ SizeDamage)
                \union (IF part # <<>> /\ part # RowCells(row) THEN {"torn_append"} ELSE {})
                \union (IF staleCursor /\ file' # <<>> THEN {"stale_cursor"} ELSE {})
    /\ pc' = "receive" /\ ret' = "receive" /\ row' = NoRow
    /\ size' = Unloaded /\ cursor' = 0 /\ budget' = 0 /\ advanced' = FALSE
    /\ mounted' \in BOOLEAN
    /\ UNCHANGED <<diskCursor, link, taken, delivered, forfeited, staleCursor>>

-----------------------------------------------------------------------------

Init ==
    /\ pc = "receive" /\ ret = "receive" /\ row = NoRow
    /\ size = Unloaded /\ cursor = 0 /\ budget = 0 /\ advanced = FALSE
    /\ mounted \in BOOLEAN
    /\ file = <<>> /\ diskCursor = 0
    /\ link \in {"up", "flaky", "down"}
    /\ reboots = 0
    /\ taken = {} /\ accepted = {} /\ delivered = {} /\ forfeited = {}
    /\ staleCursor = FALSE
    /\ damage = {}

\* What the datalog task does by itself, whatever it is told.
TaskStep ==
    \/ ReceiveTimeout \/ PublishLive
    \/ AppendBegin \/ AppendWrite \/ AppendFails
    \/ ReplayBegin \/ ReplayAcked \/ ReplayFailed
    \/ ReplayEndOfFile \/ ReplayClose
    \/ ResetUnlink \/ SaveOpen \/ SaveWrite

Next ==
    \/ \E r \in Rows : ReceiveRow(r)
    \/ TaskStep
    \/ LinkChange
    \/ Reboot

Spec == Init /\ [][Next]_vars

\* The datalog task is scheduled again and again, and every call it blocks in
\* has a timeout, so it keeps taking steps.
FairSpec == Spec /\ WF_vars(TaskStep)

-----------------------------------------------------------------------------
(* Properties. *)

\* Every variable has its type.
TypeOK ==
    /\ pc \in Locations
    /\ ret \in {"receive", "append_write"}
    /\ row \in Rows \union {NoRow}
    /\ size \in Nat \union {Unloaded}
    /\ cursor \in Nat
    /\ budget \in 0..ReplayPerTick
    /\ advanced \in BOOLEAN
    /\ mounted \in BOOLEAN
    /\ file \in Seq([row : Rows, eol : BOOLEAN])
    /\ diskCursor \in Nat
    /\ link \in {"up", "flaky", "down"}
    /\ reboots \in 0..MaxReboots
    /\ taken \subseteq Rows
    /\ accepted \subseteq Rows
    /\ delivered \subseteq Rows \union {Garbage}
    /\ forfeited \subseteq Rows
    /\ staleCursor \in BOOLEAN
    /\ damage \subseteq FileDamage \union SizeDamage

\* The offset replay will go on from: the one in RAM, or the one a boot will load.
EffectiveCursor == IF size = Unloaded THEN RecoveredCursor ELSE cursor
Owed == accepted \intersect RowsFrom(EffectiveCursor)

\* The file, or the cursor it is read from, cannot be relied on.
Spoilt == damage \intersect FileDamage # {}

\* Every row the spool has accepted is with the broker, or still ahead of the
\* replay cursor, or was given up with a backlog over its cap -- through every
\* failed publish, failed call on the card and power cut, and again for the next
\* file after one that was damaged.  What a damaged spool has not delivered when
\* it is unlinked is given up too: see GivenUp and LostInDamage.
NothingLost == ~Spoilt => accepted \subseteq delivered \union Owed \union forfeited

\* "replay in order": the cursor in RAM, and the one a power cut would leave to
\* the next boot, only ever pass rows the broker has acknowledged, in every file
\* that is not spoilt.
RowsUpTo(c) == {file[i].row : i \in 1..Lesser(c, Len(file))}
CursorBehindAcks ==
    ~Spoilt => /\ RowsUpTo(EffectiveCursor) \subseteq delivered
               /\ staleCursor \/ RowsUpTo(RecoveredCursor) \subseteq delivered

\* Whatever was cut short or failed before, what replay reads at its cursor from a
\* file that is not spoilt is a row exactly as it was appended.
RowsIntact ==
    ~Spoilt /\ pc = "send" => \A e \in LineEnds(cursor) : LineAt(cursor, e) # Garbage

\* Without I/O errors a power cut re-sends at most the rows of one tick: between
\* ticks the two cursors agree, and within a tick bms.cursor trails by at most
\* ReplayPerTick rows.  The exception is the moment bms.cursor is being
\* rewritten, when it is empty and a cut re-sends the whole file.
ReplayWindow ==
    "io_error" \notin Faults /\ damage = {} /\ ~staleCursor =>
        /\ pc # "save_write" =>
              Cardinality({i \in (RecoveredCursor + 1)..EffectiveCursor : file[i].eol})
                  <= ReplayPerTick
        /\ pc \in {"receive", "publish", "append"} => RecoveredCursor = EffectiveCursor

\* The spool implements its promise as long as its files are not spoilt.
Promise == INSTANCE StoreForward
             WITH Capacity <- SpoolMax \div 2,
                  delivered <- delivered \ {Garbage},
                  owed <- Owed
KeepsPromise == Promise!Spec

\* Once the broker stays reachable and the card is in, every spooled row gets there.
EventuallyDelivered ==
    <>[](link = "up" /\ mounted) =>
        \A r \in Rows : r \in accepted ~> r \in delivered \union forfeited
=============================================================================
