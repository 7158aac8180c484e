---------------------------- MODULE EventJournal ----------------------------
(***************************************************************************)
(* The diagnostic event journal, main/event_journal.c and its core: any    *)
(* task emits events, which get their sequence number under s_mutex and    *)
(* are then queued without waiting; one low-priority task appends them to  *)
(* events.jsonl, which is rotated through events.1.jsonl and so on.        *)
(*                                                                         *)
(* One action is one critical section of s_mutex, one call on the queue or *)
(* one call on the card, so that producers run between any two of them and *)
(* power can be cut there.  A file is a sequence of items, each one record *)
(* with its newline or, torn, a part of one.  The RAM ring, which holds    *)
(* the latest records in the order of their numbers, is left out, and so   *)
(* are rate-limited calls, which leave nothing behind but their count.     *)
(***************************************************************************)
EXTENDS Integers, Sequences, FiniteSets, FiniteSetsExt

CONSTANTS
    Producers,   \* the tasks that emit events
    Depth,       \* EVENT_QUEUE_DEPTH
    FileMax,     \* EVENT_JOURNAL_FILE_BYTES, in items
    FileCount,   \* EVENT_JOURNAL_FILE_COUNT
    None,        \* no record
    MaxCalls,    \* bound: calls of event_journal_emit in each boot
    MaxReboots,  \* bound: power is cut at most this often
    MaxFaults    \* bound: calls on the card that fail, and encodings

ASSUME ProducersAssumption == IsFiniteSet(Producers)
ASSUME SizesAssumption ==
    /\ Depth \in Nat \ {0} /\ FileMax \in Nat \ {0} /\ FileCount \in Nat \ {0, 1}
ASSUME BoundsAssumption ==
    MaxReboots \in Nat /\ MaxFaults \in Nat /\ MaxCalls \in [0..MaxReboots -> Nat]

VARIABLES
    \* event_journal.c
    nextSequence,  \* s_next_sequence
    queue,         \* s_queue
    dropped,       \* s_status.queue_dropped
    written,       \* s_status.journal_written
    failures,      \* s_status.journal_failures, those of journal_task
    \* the tasks: where each is, and its record
    emit,          \* event_journal_emit in each producer
    writer,        \* journal_task
    \* the SD card
    mounted,       \* sdcard_mounted(), decided at boot
    files,         \* the generations; 0 is the active one, a missing one is empty
    \* the world
    boot, faults,
    \* history
    calls,         \* of event_journal_emit in this boot, but for rate-limited ones
    stored,        \* records that were once completely on the card
    lastQueued,    \* the highest number that was queued in this boot
    overtaken,     \* a record was queued after one with a higher number
    torn           \* a failed write has left a part of a record

counters == <<dropped, written, failures>>
memory == <<nextSequence, queue, counters, emit, lastQueued, calls>>
history == <<stored, overtaken, torn>>
vars == <<memory, writer, mounted, files, boot, faults, history>>

Generations == 0..(FileCount - 1)
IdleEmit == [at |-> "idle", record |-> None]
IdleWriter == [at |-> "wait", record |-> None, generation |-> 0, ok |-> FALSE]

Whole(r) == [record |-> r, torn |-> FALSE]
Part(r) == [record |-> r, torn |-> TRUE]

\* A call on the card fails, or the JSON does not fit into memory.
Fault == faults < MaxFaults /\ faults' = faults + 1

-----------------------------------------------------------------------------
(* event_journal_emit. *)

\* Another task is inside s_mutex: the event is dropped and not numbered.
EmitContended(p) ==
    /\ writer.at # "boot" /\ emit[p].at = "idle" /\ calls < MaxCalls[boot]
    /\ calls' = calls + 1 /\ dropped' = dropped + 1
    /\ UNCHANGED <<nextSequence, queue, written, failures, emit, lastQueued,
                   writer, mounted, files, boot, faults, history>>

\* "%08x%08x" of two random numbers, drawn anew at each boot.
BootId == boot

EmitNumbered(p, critical) ==
    /\ writer.at # "boot" /\ emit[p].at = "idle" /\ calls < MaxCalls[boot]
    /\ calls' = calls + 1
    /\ nextSequence' = nextSequence + 1
    /\ emit' = [emit EXCEPT ![p] = [at |-> "send",
                 record |-> [boot |-> BootId, sequence |-> nextSequence', critical |-> critical]]]
    /\ UNCHANGED <<queue, counters, lastQueued, writer, mounted, files, boot, faults, history>>

\* xQueueSend with no wait, while there is room, and the return.
Queued(p) ==
    LET r == emit[p].record
    IN  /\ Len(queue) < Depth
        /\ queue' = Append(queue, r)
        /\ lastQueued' = IF r.sequence > lastQueued THEN r.sequence ELSE lastQueued
        /\ overtaken' = (overtaken \/ r.sequence < lastQueued)
        /\ emit' = [emit EXCEPT ![p] = IdleEmit]
        /\ UNCHANGED dropped

\* The event is counted as dropped, and the return.
Dropped(p) ==
    /\ dropped' = dropped + 1
    /\ emit' = [emit EXCEPT ![p] = IdleEmit]
    /\ UNCHANGED <<queue, lastQueued, overtaken>>

MayEvictAny(r) == TRUE \* mutant: any event makes room for itself
MayEvict(r) == r.critical
Send(p) ==
    /\ emit[p].at = "send"
    /\ \/ Queued(p)
       \/ Len(queue) = Depth /\ ~MayEvict(emit[p].record) /\ Dropped(p)
       \/ /\ Len(queue) = Depth /\ MayEvict(emit[p].record)
          /\ emit' = [emit EXCEPT ![p].at = "evict"]
          /\ UNCHANGED <<queue, dropped, lastQueued, overtaken>>
    /\ UNCHANGED <<nextSequence, written, failures, calls, writer, mounted, files, boot,
                   faults, stored, torn>>

\* The oldest queued event makes room for a critical one; if the writer has just
\* taken the last one, the critical event is dropped although there is room.
CountEvictedNever == UNCHANGED dropped \* mutant
CountEvicted == dropped' = dropped + 1
Evict(p) ==
    /\ emit[p].at = "evict"
    /\ \/ /\ queue # <<>>
          /\ queue' = Tail(queue) /\ CountEvicted
          /\ emit' = [emit EXCEPT ![p].at = "resend"]
          /\ UNCHANGED <<lastQueued, overtaken>>
       \/ queue = <<>> /\ Dropped(p)
    /\ UNCHANGED <<nextSequence, written, failures, calls, writer, mounted, files, boot,
                   faults, stored, torn>>

Resend(p) ==
    /\ emit[p].at = "resend"
    /\ \/ Queued(p)
       \/ Len(queue) = Depth /\ Dropped(p)
    /\ UNCHANGED <<nextSequence, written, failures, calls, writer, mounted, files, boot,
                   faults, stored, torn>>

-----------------------------------------------------------------------------
(* journal_task. *)

WriterKeeps == UNCHANGED <<nextSequence, dropped, emit, lastQueued, calls, mounted, boot,
                           overtaken>>

\* The call ends; the result is counted under s_mutex later.
Result(ok) == writer' = [writer EXCEPT !.at = "count", !.ok = ok]

Take ==
    /\ writer.at = "wait" /\ queue # <<>>
    /\ queue' = Tail(queue)
    /\ writer' = [writer EXCEPT !.at = "encode", !.record = Head(queue)]
    /\ WriterKeeps /\ UNCHANGED <<written, failures, files, faults, stored, torn>>

\* rotate_files: the generations from the last but one to the active one move up.
FirstGeneration == FileCount - 1

\* event_core_append: does the record still fit into the active file?
Full == Len(files[0]) + 1 > FileMax

Encode ==
    /\ writer.at = "encode"
    /\ \/ ~mounted /\ Result(FALSE) /\ UNCHANGED faults
       \/ Fault /\ Result(FALSE)
       \/ mounted /\ ~Full /\ writer' = [writer EXCEPT !.at = "write"] /\ UNCHANGED faults
       \/ /\ mounted /\ Full
          /\ writer' = [writer EXCEPT !.at = "unlink", !.generation = FirstGeneration]
          /\ UNCHANGED faults
    /\ WriterKeeps /\ UNCHANGED <<queue, written, failures, files, stored, torn>>

\* The destination is removed, then its predecessor takes its name.
Unlink ==
    /\ writer.at = "unlink"
    /\ \/ /\ files' = [files EXCEPT ![writer.generation] = <<>>]
          /\ writer' = [writer EXCEPT !.at = "rename"]
          /\ UNCHANGED faults
       \/ Fault /\ Result(FALSE) /\ UNCHANGED files
    /\ WriterKeeps /\ UNCHANGED <<queue, written, failures, stored, torn>>

Rename ==
    /\ writer.at = "rename"
    /\ LET g == writer.generation
       IN  \/ /\ files' = [files EXCEPT ![g] = files[g - 1], ![g - 1] = <<>>]
              /\ writer' = [writer EXCEPT !.at = IF g = 1 THEN "write" ELSE "unlink",
                                          !.generation = g - 1]
              /\ UNCHANGED faults
           \/ Fault /\ Result(FALSE) /\ UNCHANGED files
    /\ WriterKeeps /\ UNCHANGED <<queue, written, failures, stored, torn>>

\* fopen, fwrite, fflush, fsync and fclose: a failure may leave nothing, a part of
\* the record, or all of it.
Appended(items) == files' = [files EXCEPT ![0] = @ \o items]
Write ==
    /\ writer.at = "write"
    /\ \/ /\ Appended(<<Whole(writer.record)>>) /\ stored' = stored \cup {writer.record}
          /\ UNCHANGED torn
          /\ \/ Result(TRUE) /\ UNCHANGED faults
             \/ Fault /\ Result(FALSE)
       \/ /\ Fault /\ Result(FALSE) /\ UNCHANGED stored
          /\ \/ UNCHANGED <<files, torn>>
             \/ Appended(<<Part(writer.record)>>) /\ torn' = TRUE
    /\ WriterKeeps /\ UNCHANGED <<queue, written, failures>>

Count ==
    /\ writer.at = "count"
    /\ IF writer.ok
       THEN written' = written + 1 /\ UNCHANGED failures
       ELSE failures' = failures + 1 /\ UNCHANGED written
    /\ writer' = IdleWriter
    /\ WriterKeeps /\ UNCHANGED <<queue, files, faults, stored, torn>>

-----------------------------------------------------------------------------
(* Power. *)

\* What a power cut may leave of a record that is being written.
CutWrite ==
    IF writer.at = "write"
    THEN {<<>>, <<Part(writer.record)>>, <<Whole(writer.record)>>}
    ELSE {<<>>}

PowerCut ==
    /\ writer.at # "boot" /\ boot < MaxReboots
    /\ boot' = boot + 1 /\ mounted' \in BOOLEAN
    /\ \E items \in CutWrite :
          /\ Appended(items)
          /\ stored' = stored \cup {i.record : i \in {x \in {items[n] : n \in 1..Len(items)} : ~x.torn}}
    /\ queue' = <<>> /\ nextSequence' = 0 /\ lastQueued' = 0 /\ calls' = 0
    /\ dropped' = 0 /\ written' = 0 /\ failures' = 0
    /\ emit' = [p \in Producers |-> IdleEmit]
    /\ writer' = [IdleWriter EXCEPT !.at = "boot"]
    /\ UNCHANGED <<faults, overtaken, torn>>

\* event_core_repair_tail: everything after the last newline goes.
Lines(f) == {n \in 1..Len(f) : ~f[n].torn}
RepairedUnlessAllTorn(f) == \* mutant: a file without a newline is left alone
    SubSeq(f, 1, IF Lines(f) = {} THEN Len(f) ELSE Max(Lines(f)))
RepairedShort(f) == \* mutant: truncated one line too early
    IF f # <<>> /\ f[Len(f)].torn THEN SubSeq(f, 1, Max(Lines(f) \cup {1}) - 1) ELSE f
Repaired(f) == SubSeq(f, 1, Max(Lines(f) \cup {0}))

\* event_journal_init: the repair, which may fail, and the boot event.
JournalInit ==
    /\ writer.at = "boot"
    /\ \/ mounted /\ files' = [files EXCEPT ![0] = Repaired(@)] /\ UNCHANGED <<faults, torn>>
       \/ mounted /\ Fault /\ torn' = TRUE /\ UNCHANGED files
       \/ ~mounted /\ UNCHANGED <<files, faults, torn>>
    /\ calls' = calls + 1 /\ nextSequence' = 1 /\ lastQueued' = 1
    /\ queue' = <<[boot |-> BootId, sequence |-> 1, critical |-> TRUE]>>
    /\ writer' = IdleWriter
    /\ UNCHANGED <<counters, emit, mounted, boot, stored, overtaken>>

-----------------------------------------------------------------------------
Init ==
    /\ boot = 0 /\ mounted \in BOOLEAN /\ files = [g \in Generations |-> <<>>]
    /\ queue = <<>> /\ nextSequence = 0 /\ lastQueued = 0 /\ calls = 0
    /\ dropped = 0 /\ written = 0 /\ failures = 0
    /\ emit = [p \in Producers |-> IdleEmit]
    /\ writer = [IdleWriter EXCEPT !.at = "boot"]
    /\ faults = 0 /\ stored = {}
    /\ overtaken = FALSE /\ torn = FALSE

Emit(p) ==
    \/ EmitContended(p) \/ \E critical \in BOOLEAN : EmitNumbered(p, critical)
    \/ Send(p) \/ Evict(p) \/ Resend(p)
WriterStep == Take \/ Encode \/ Unlink \/ Rename \/ Write \/ Count

Next == JournalInit \/ (\E p \in Producers : Emit(p)) \/ WriterStep \/ PowerCut

Spec == Init /\ [][Next]_vars

-----------------------------------------------------------------------------
(* Properties. *)

Record == [boot : 0..MaxReboots, sequence : Nat, critical : BOOLEAN]

\* Between a producer's number and its return, and between the writer's receive and
\* its count.
InHand == Cardinality({p \in Producers : emit[p].at # "idle"})
             + (IF writer.at \in {"boot", "wait"} THEN 0 ELSE 1)

\* Every variable has its type, and the counters of the status page agree with what
\* is queued and in hand: every event emitted in this boot is there exactly once.
TypeOK ==
    /\ calls = Len(queue) + InHand + dropped + written + failures
    /\ nextSequence \in Nat /\ lastQueued \in 0..nextSequence
    /\ queue \in Seq(Record) /\ Len(queue) <= Depth
    /\ \A c \in {dropped, written, failures, calls} : c \in Nat
    /\ emit \in [Producers -> [at : {"idle", "send", "evict", "resend"}, record : Record \cup {None}]]
    /\ \A p \in Producers : emit[p].at # "idle" => emit[p].record \in Record
    /\ writer \in [at : {"boot", "wait", "encode", "unlink", "rename", "write", "count"},
                   record : Record \cup {None}, generation : Generations, ok : BOOLEAN]
    /\ writer.at \in {"encode", "unlink", "rename", "write", "count"} => writer.record \in Record
    /\ writer.at \in {"unlink", "rename"} => writer.generation > 0
    /\ mounted \in BOOLEAN
    /\ files \in [Generations -> Seq([record : Record, torn : BOOLEAN])]
    /\ boot \in 0..MaxReboots /\ faults \in 0..MaxFaults
    /\ stored \subseteq Record
    /\ {overtaken, torn} \subseteq BOOLEAN

Earlier(a, b) ==
    \/ a.boot < b.boot
    \/ a.boot = b.boot /\ a.sequence < b.sequence
\* A line is a record alone: one appended to a part of another is lost with it.
IsLine(f, n) == ~f[n].torn /\ (n = 1 \/ ~f[n - 1].torn)
Readable ==
    UNION {{files[g][n].record : n \in {m \in 1..Len(files[g]) : IsLine(files[g], m)}} : g \in Generations}

\* "Power cycling during journal writes leaves parseable files": whatever step it
\* hit, a rotation included, the next boot leaves no part of a record behind in any
\* generation, unless a call on the card failed with power on.
FilesParse ==
    mounted /\ writer.at # "boot" /\ ~torn =>
        \A g \in Generations : \A n \in 1..Len(files[g]) : ~files[g][n].torn

\* event_report.py reads the generations oldest first and refuses a record whose
\* number is not above that of the one before it of the same boot.
ReportOrder ==
    \A g, h \in Generations : \A m \in 1..Len(files[g]), n \in 1..Len(files[h]) :
        LET a == files[g][m].record
            b == files[h][n].record
        IN  (g > h \/ (g = h /\ m < n)) /\ a.boot = b.boot => a.sequence < b.sequence

\* The report's order survives failed and interrupted rotations; it is lost only
\* to a producer that numbers its event under s_mutex (event_journal.c:262) and queues
\* it after the release (271), when another was queued in between; event_report.py
\* "verifies boot-scoped sequence order" (README.md:319-320) and then refuses the file.
OrderKept == overtaken \/ ReportOrder

\* What is on the card the report accepts.
ReportAccepts == FilesParse /\ OrderKept

\* "rotates deterministically": the card keeps the latest records.  None is lost
\* before an older one is, however often a rotation fails or is cut in the middle,
\* unless a failed write left a part to which the next record was appended.
OldestGoFirst ==
    ~overtaken /\ ~torn => \A a \in Readable, b \in stored : Earlier(a, b) => b \in Readable

\* "Preserve the newest critical transition under pressure": a critical event that
\* is on its way is given to the writer, unless it is evicted for another critical
\* one or loses the slot that was freed for it.
OnItsWay == {queue[n] : n \in 1..Len(queue)} \cup {emit[p].record : p \in Producers}
CriticalKept ==
    [][\A r \in OnItsWay \ {None} : r.critical /\ boot' = boot =>
         \/ r \in OnItsWay' \/ writer'.record = r
         \/ \E p \in Producers : emit'[p].at = "resend" /\ emit'[p].record.critical
         \/ \E p \in Producers : emit[p].record = r /\ emit[p].at \in {"evict", "resend"}]_vars
=============================================================================
