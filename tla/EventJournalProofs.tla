------------------------- MODULE EventJournalProofs -------------------------
(***************************************************************************)
(* Proofs about EventJournal, for any finite set of producers, any sizes   *)
(* of the queue, the files and the rotation, and any number of calls,      *)
(* power cuts and failing calls on the card.                               *)
(***************************************************************************)
EXTENDS EventJournal, TLAPS, SequenceTheorems, FiniteSetTheorems, WellFoundedInduction

Item == [record : Record, torn : BOOLEAN]

-----------------------------------------------------------------------------
(* The inductive invariant. *)

\* The writer has a record in hand that is not completely on the card yet.
Writing == writer.at \in {"encode", "unlink", "rename", "write"}
Active(p) == emit[p].at # "idle"

\* What each place in the tasks says of the rest.
PlaceInv ==
    /\ writer.at = "boot" => queue = <<>> /\ lastQueued = 0
    /\ \A p \in Producers : Active(p) => writer.at # "boot"
    /\ \A p \in Producers : ~Active(p) => emit[p].record = None
    /\ \A p \in Producers : emit[p].at \in {"evict", "resend"} => emit[p].record.critical
    /\ writer.at \in {"unlink", "rename", "write"} => mounted

\* The numbers that producers hold are their own and not queued yet.
NumberInv ==
    /\ \A p \in Producers : Active(p) =>
           /\ emit[p].record.boot = boot
           /\ emit[p].record.sequence \in 1..nextSequence
           /\ emit[p].record.sequence # lastQueued
    /\ \A p, q \in Producers : Active(p) /\ Active(q) /\ p # q =>
           emit[p].record.sequence # emit[q].record.sequence

\* What is queued or written was queued in this boot, what is on the card before.
PastInv ==
    /\ \A n \in 1..Len(queue) : queue[n].boot = boot /\ queue[n].sequence <= lastQueued
    /\ Writing => writer.record.boot = boot /\ writer.record.sequence <= lastQueued
    /\ \A r \in stored : r.boot <= boot
    /\ \A g \in Generations : \A m \in 1..Len(files[g]) : files[g][m].record.boot <= boot
    /\ \A r \in stored : r.boot = boot => writer.at # "boot" /\ r.sequence <= lastQueued
    /\ \A g \in Generations : \A m \in 1..Len(files[g]) :
           files[g][m].record.boot = boot =>
               writer.at # "boot" /\ files[g][m].record.sequence <= lastQueued

\* Unless a producer was overtaken, the card, the writer and the queue are in order.
LineInv ==
    /\ \A m, n \in 1..Len(queue) : m < n => queue[m].sequence < queue[n].sequence
    /\ \A n \in 1..Len(queue) : Writing => writer.record.sequence < queue[n].sequence
    /\ \A r \in stored : \A n \in 1..Len(queue) : Earlier(r, queue[n])
    /\ \A r \in stored : Writing => Earlier(r, writer.record)
    /\ \A g \in Generations : \A m \in 1..Len(files[g]) : \A n \in 1..Len(queue) :
           Earlier(files[g][m].record, queue[n])
    /\ \A g \in Generations : \A m \in 1..Len(files[g]) :
           Writing => Earlier(files[g][m].record, writer.record)

\* The generations, read from the last to the first, are in order.
Ordered(fs) ==
    \A g, h \in Generations : \A m \in 1..Len(fs[g]), n \in 1..Len(fs[h]) :
        g > h \/ (g = h /\ m < n) => Earlier(fs[g][m].record, fs[h][n].record)

\* Behind the generation that is removed next there is a gap.
GapInv ==
    /\ writer.at = "unlink" /\ writer.generation # FirstGeneration => files[writer.generation] = <<>>
    /\ writer.at = "rename" => files[writer.generation] = <<>>

\* A part of a record is the last item of the active file, and there only until the
\* next repair.
TornInv ==
    \A g \in Generations : \A m \in 1..Len(files[g]) :
        files[g][m].torn => /\ g = 0 /\ m = Len(files[0])
                            /\ writer.at = "boot" \/ ~mounted

OnCard(b) == \E g \in Generations : \E m \in 1..Len(files[g]) : files[g][m] = Whole(b)
Outlived(b) ==
    \A g \in Generations : \A m \in 1..Len(files[g]) : Earlier(b, files[g][m].record)
\* A record that is no longer on the card is older than all that are.
LostInv == \A b \in stored : OnCard(b) \/ Outlived(b)

IInv ==
    /\ TypeOK /\ PlaceInv /\ NumberInv /\ PastInv /\ GapInv
    /\ ~torn => TornInv
    /\ ~overtaken => LineInv /\ Ordered(files)
    /\ ~overtaken /\ ~torn => LostInv

-----------------------------------------------------------------------------
(* Producers at work. *)

Emits == [at : {"idle", "send", "evict", "resend"}, record : Record \cup {None}]
Busy(e) == {p \in Producers : e[p].at # "idle"}

\* Finitely many producers are inside event_journal_emit.
LEMMA BusyCounted ==
    ASSUME NEW e
    PROVE  IsFiniteSet(Busy(e)) /\ Cardinality(Busy(e)) \in Nat
  BY ProducersAssumption, FS_Subset, FS_CardinalityType DEF Busy

\* A producer that begins a call adds one to them.
LEMMA BusyStarts ==
    ASSUME NEW e \in [Producers -> Emits], NEW p \in Producers, NEW x \in Emits,
           e[p].at = "idle", x.at # "idle"
    PROVE  Cardinality(Busy([e EXCEPT ![p] = x])) = Cardinality(Busy(e)) + 1
  <1>1. Busy([e EXCEPT ![p] = x]) = Busy(e) \cup {p} /\ p \notin Busy(e)
    BY DEF Busy
  <1> QED
    BY <1>1, BusyCounted, FS_AddElement

\* One that returns takes one away.
LEMMA BusyEnds ==
    ASSUME NEW e \in [Producers -> Emits], NEW p \in Producers, NEW x,
           e[p].at # "idle", x.at = "idle"
    PROVE  Cardinality(Busy([e EXCEPT ![p] = x])) = Cardinality(Busy(e)) - 1
  <1>1. Busy([e EXCEPT ![p] = x]) = Busy(e) \ {p} /\ p \in Busy(e)
    BY DEF Busy
  <1> QED
    BY <1>1, BusyCounted, FS_RemoveElement

\* One that goes on inside its call changes nothing of their number.
LEMMA BusyGoesOn ==
    ASSUME NEW e \in [Producers -> Emits], NEW p \in Producers, NEW a,
           e[p].at # "idle", a # "idle"
    PROVE  Cardinality(Busy([e EXCEPT ![p].at = a])) = Cardinality(Busy(e))
  <1>1. Busy([e EXCEPT ![p].at = a]) = Busy(e)
    BY DEF Busy, Emits
  <1> QED
    BY <1>1

\* After a boot nobody is inside a call.
LEMMA BusyNone == Cardinality(Busy([p \in Producers |-> IdleEmit])) = 0
  <1>1. Busy([p \in Producers |-> IdleEmit]) = {}
    BY DEF Busy, IdleEmit
  <1> QED
    BY <1>1, FS_EmptySet

-----------------------------------------------------------------------------
(* Files. *)

Files == [Generations -> Seq(Item)]

\* There is an active file and an older generation, and what is below a generation is one.
LEMMA GenerationsHave == 0 \in Generations /\ FirstGeneration \in Generations /\ FirstGeneration > 0
                         /\ \A g \in Generations : g > 0 => g - 1 \in Generations
  BY SizesAssumption DEF Generations, FirstGeneration

\* One item more in the active file.
LEMMA AppendOne ==
    ASSUME NEW fs \in Files, NEW x \in Item
    PROVE  LET gs == [fs EXCEPT ![0] = @ \o <<x>>]
           IN  /\ gs \in Files
               /\ \A g \in Generations : g # 0 => gs[g] = fs[g]
               /\ Len(gs[0]) = Len(fs[0]) + 1
               /\ \A m \in 1..Len(fs[0]) : gs[0][m] = fs[0][m]
               /\ gs[0][Len(fs[0]) + 1] = x
  <1> DEFINE f == fs[0]
             gs == [fs EXCEPT ![0] = @ \o <<x>>]
  <1>1. f \in Seq(Item) /\ <<x>> \in Seq(Item) /\ Len(f) \in Nat
    BY GenerationsHave DEF Files
  <1>2. /\ f \o <<x>> \in Seq(Item) /\ Len(f \o <<x>>) = Len(f) + 1
        /\ \A m \in 1..Len(f) : (f \o <<x>>)[m] = f[m]
        /\ (f \o <<x>>)[Len(f) + 1] = x
    BY <1>1
  <1>3. gs[0] = f \o <<x>> /\ \A g \in Generations : g # 0 => gs[g] = fs[g]
    BY GenerationsHave DEF Files
  <1>4. gs \in Files
    BY <1>2, GenerationsHave DEF Files
  <1> HIDE DEF gs
  <1>5. /\ gs \in Files
        /\ \A g \in Generations : g # 0 => gs[g] = fs[g]
        /\ Len(gs[0]) = Len(fs[0]) + 1
        /\ \A m \in 1..Len(fs[0]) : gs[0][m] = fs[0][m]
        /\ gs[0][Len(fs[0]) + 1] = x
    BY <1>2, <1>3, <1>4
  <1> QED
    BY <1>5, Zenon DEF gs

\* A write that is cut before its first byte leaves the files as they are.
LEMMA AppendNone ==
    ASSUME NEW fs \in Files
    PROVE  [fs EXCEPT ![0] = @ \o <<>>] = fs
  <1>1. fs[0] \in Seq(Item)
    BY GenerationsHave DEF Files
  <1>2. fs[0] \o <<>> = fs[0]
    BY <1>1, ConcatEmptySeq
  <1> QED
    BY <1>2, GenerationsHave DEF Files

\* A set of naturals that is not empty has a least one.
LEMMA Least ==
    ASSUME NEW T, T \subseteq Nat, T # {}
    PROVE  \E x \in T : \A y \in T : x <= y
  <1>1. PICK x \in T : \A y \in T : ~ (<<y, x>> \in OpToRel(<, Nat))
    BY NatLessThanWellFounded, WFMin
  <1>2. \A y \in T : ~(y < x)
    BY <1>1 DEF OpToRel
  <1> QED
    BY <1>2

\* A set of naturals with an upper bound has a greatest element.
LEMMA Greatest ==
    ASSUME NEW n \in Nat, NEW S, S \subseteq 0..n, S # {}
    PROVE  Max(S) \in S /\ \A y \in S : Max(S) >= y
  <1> DEFINE T == {m \in Nat : m <= n /\ n - m \in S}
  <1>1. PICK s \in S : TRUE
    OBVIOUS
  <1>2. s \in 0..n /\ n - (n - s) = s /\ n - s \in Nat /\ n - s <= n
    OBVIOUS
  <1>3. n - s \in T
    BY <1>2
  <1>4. PICK t \in T : \A y \in T : t <= y
    BY <1>3, Least
  <1>5. ASSUME NEW y \in S PROVE n - t >= y
    <2>1. y \in 0..n /\ n - (n - y) = y /\ n - y \in Nat /\ n - y <= n
      OBVIOUS
    <2>2. t <= n - y
      BY <1>4, <2>1
    <2> QED
      BY <2>1, <2>2
  <1>6. n - t \in S
    BY <1>4
  <1>7. \E x \in S : \A y \in S : x >= y
    BY <1>5, <1>6
  <1> QED
    BY <1>7, Zenon DEF Max

\* The repair keeps the items up to the last whole one.
LEMMA RepairKeeps ==
    ASSUME NEW f \in Seq(Item)
    PROVE  /\ Repaired(f) \in Seq(Item) /\ Len(Repaired(f)) <= Len(f)
           /\ \A m \in 1..Len(Repaired(f)) : m \in 1..Len(f) /\ Repaired(f)[m] = f[m]
           /\ \A m \in 1..Len(f) : ~f[m].torn => m <= Len(Repaired(f))
           /\ Repaired(f) # <<>> => ~f[Len(Repaired(f))].torn
  <1> DEFINE k == Max(Lines(f) \cup {0})
  <1>1. Lines(f) \cup {0} \subseteq 0..Len(f)
    BY DEF Lines
  <1>2. k \in Lines(f) \cup {0} /\ \A y \in Lines(f) \cup {0} : k >= y
    <2> HIDE DEF k
    <2>1. Lines(f) \cup {0} # {} /\ Len(f) \in Nat
      OBVIOUS
    <2> QED
      BY <1>1, <2>1, Greatest DEF k
  <1> HIDE DEF k
  <1>3. k \in 0..Len(f)
    BY <1>1, <1>2
  <1>4. Repaired(f) = SubSeq(f, 1, k)
    BY DEF Repaired, k
  <1>5. /\ SubSeq(f, 1, k) \in Seq(Item) /\ Len(SubSeq(f, 1, k)) = k
        /\ \A m \in 1..k : SubSeq(f, 1, k)[m] = f[m]
    BY <1>3
  <1>6. \A m \in 1..Len(f) : ~f[m].torn => m <= k
    BY <1>1, <1>2 DEF Lines
  <1>7. k # 0 => ~f[k].torn
    BY <1>2 DEF Lines
  <1>8. Repaired(f) # <<>> => k # 0
    BY <1>3, <1>4, <1>5
  <1> QED
    BY <1>3, <1>4, <1>5, <1>6, <1>7, <1>8

-----------------------------------------------------------------------------
(* Types. *)

\* What sending to the queue and taking from it do to its length and its entries.
LEMMA QueueSteps ==
    ASSUME NEW q \in Seq(Record)
    PROVE  /\ Len(q) \in Nat
           /\ \A r \in Record :
                 /\ Append(q, r) \in Seq(Record) /\ Len(Append(q, r)) = Len(q) + 1
                 /\ \A n \in 1..Len(q) : Append(q, r)[n] = q[n]
                 /\ Append(q, r)[Len(q) + 1] = r
           /\ q # <<>> =>
                 /\ Tail(q) \in Seq(Record) /\ Len(Tail(q)) = Len(q) - 1 /\ Len(q) > 0
                 /\ \A n \in 1..(Len(q) - 1) : Tail(q)[n] = q[n + 1]
                 /\ Head(q) = q[1] /\ Head(q) \in Record /\ 1 \in 1..Len(q)
  OBVIOUS

\* Every event is in one place only.
Counts == calls = Len(queue) + InHand + dropped + written + failures

Held == IF writer.at \in {"boot", "wait"} THEN 0 ELSE 1
B == Cardinality(Busy(emit))

\* Every event of the boot is still queued, in hand or counted once.
LEMMA CountStep ==
    ASSUME TypeOK, PlaceInv, Next
    PROVE  Counts'
  <1>1. InHand = B + Held /\ Held \in Nat
    BY DEF InHand, Busy, B, Held
  <1>2. InHand' = B' + Held'
    BY DEF InHand, Busy, B, Held
  <1>3. /\ calls = Len(queue) + B + Held + dropped + written + failures
        /\ Len(queue) \in Nat /\ B \in Nat /\ Held \in Nat /\ queue \in Seq(Record)
        /\ dropped \in Nat /\ written \in Nat /\ failures \in Nat /\ calls \in Nat
        /\ emit \in [Producers -> Emits]
    <2>1. calls = Len(queue) + InHand + dropped + written + failures
      BY DEF TypeOK
    <2>2. /\ dropped \in Nat /\ written \in Nat /\ failures \in Nat /\ calls \in Nat
          /\ queue \in Seq(Record) /\ emit \in [Producers -> Emits]
      BY DEF TypeOK, Emits
    <2>3. Len(queue) \in Nat /\ B \in Nat
      BY <2>2, BusyCounted, LenProperties DEF B
    <2> QED
      BY <1>1, <2>1, <2>2, <2>3
  <1>4. SUFFICES calls' = Len(queue') + (B' + Held') + dropped' + written' + failures'
    BY <1>2, Zenon DEF Counts
  <1>5. CASE JournalInit
    <2>1. B' = B /\ Held = 0 /\ Held' = 0 /\ Len(queue) = 0 /\ Len(queue') = 1
      BY <1>5 DEF JournalInit, PlaceInv, IdleWriter, B, Held
    <2> QED
      BY <1>3, <1>5, <2>1 DEF JournalInit, counters
  <1>6. ASSUME NEW p \in Producers, Emit(p) PROVE calls' = Len(queue') + (B' + Held') + dropped' + written' + failures'
    <2>1. Held' = Held
      BY <1>6 DEF Emit, EmitContended, EmitNumbered, Send, Evict, Resend, Held
    <2>2. CASE EmitContended(p)
      <3>1. B' = B
        BY <2>2 DEF EmitContended, B
      <3> QED
        BY <1>3, <2>1, <2>2, <3>1 DEF EmitContended
    <2>3. ASSUME NEW critical \in BOOLEAN, EmitNumbered(p, critical)
          PROVE  calls' = Len(queue') + (B' + Held') + dropped' + written' + failures'
      <3> DEFINE r == [boot |-> boot, sequence |-> nextSequence + 1, critical |-> critical]
                 x == [at |-> "send", record |-> r]
      <3>1. r \in Record
        BY <2>3 DEF Record, TypeOK
      <3>2. emit' = [emit EXCEPT ![p] = x] /\ emit[p].at = "idle"
        BY <2>3 DEF EmitNumbered, BootId
      <3>3. x \in Emits /\ x.at # "idle"
        BY <3>1 DEF Emits
      <3> HIDE DEF x
      <3>4. B' = B + 1
        BY <1>3, <3>2, <3>3, BusyStarts DEF B
      <3> QED
        BY <1>3, <2>1, <2>3, <3>4 DEF EmitNumbered, counters
    <2>4. ASSUME Queued(p), emit[p].at # "idle" PROVE Len(queue') = Len(queue) + 1 /\ B' = B - 1
      <3>1. emit[p].record \in Record
        BY <2>4 DEF TypeOK
      <3>2. Len(queue') = Len(queue) + 1
        BY <1>3, <2>4, <3>1, QueueSteps DEF Queued
      <3>3. B' = B - 1
        BY <1>3, <2>4, BusyEnds DEF Queued, IdleEmit, B
      <3> QED
        BY <3>2, <3>3
    <2>5. ASSUME Dropped(p), emit[p].at # "idle" PROVE B' = B - 1
      BY <1>3, <2>5, BusyEnds DEF Dropped, IdleEmit, B
    <2>6. CASE Send(p)
      <3>1. CASE Queued(p)
        <4>1. Len(queue') = Len(queue) + 1 /\ B' = B - 1
          BY <2>4, <2>6, <3>1 DEF Send
        <4>2. UNCHANGED <<dropped, written, failures, calls>>
          BY <2>6, <3>1 DEF Send, Queued
        <4> QED
          BY <1>3, <2>1, <4>1, <4>2
      <3>2. CASE Dropped(p)
        <4>1. B' = B - 1 /\ queue' = queue /\ dropped' = dropped + 1
          BY <2>5, <2>6, <3>2 DEF Send, Dropped, B
        <4> QED
          BY <1>3, <2>1, <2>6, <4>1 DEF Send
      <3>3. CASE emit' = [emit EXCEPT ![p].at = "evict"] /\ UNCHANGED <<queue, dropped>>
        <4>1. B' = B
          BY <1>3, <2>6, <3>3, BusyGoesOn DEF Send, B
        <4> QED
          BY <1>3, <2>1, <2>6, <3>3, <4>1 DEF Send
      <3> QED
        BY <2>6, <3>1, <3>2, <3>3 DEF Send
    <2>7. CASE Evict(p)
      <3>1. CASE queue # <<>>
        <4>1. emit' = [emit EXCEPT ![p].at = "resend"] /\ dropped' = dropped + 1 /\ queue' = Tail(queue)
          BY <2>7, <3>1 DEF Evict, CountEvicted
        <4>2. B' = B
          BY <1>3, <2>7, <4>1, BusyGoesOn DEF Evict, B
        <4>3. Len(queue') = Len(queue) - 1
          BY <1>3, <3>1, <4>1, QueueSteps
        <4>4. UNCHANGED <<written, failures, calls>> /\ dropped' = dropped + 1
          BY <2>7, <4>1 DEF Evict
        <4> QED
          BY <1>3, <2>1, <4>2, <4>3, <4>4
      <3>2. CASE queue = <<>>
        BY <1>3, <2>1, <2>5, <2>7, <3>2 DEF Evict, Dropped
      <3> QED
        BY <3>1, <3>2
    <2>8. CASE Resend(p)
      <3>1. CASE Queued(p)
        BY <1>3, <2>1, <2>4, <2>8, <3>1 DEF Resend, Queued
      <3>2. CASE Dropped(p)
        <4>1. B' = B - 1 /\ queue' = queue /\ dropped' = dropped + 1
          BY <2>5, <2>8, <3>2 DEF Resend, Dropped, B
        <4> QED
          BY <1>3, <2>1, <2>8, <4>1 DEF Resend
      <3> QED
        BY <2>8, <3>1, <3>2 DEF Resend
    <2> QED
      BY <1>6, <2>2, <2>3, <2>6, <2>7, <2>8 DEF Emit
  <1>7. CASE WriterStep
    <2>1. B' = B /\ calls' = calls /\ dropped' = dropped
      BY <1>7 DEF WriterStep, Take, Encode, Unlink, Rename, Write, Count, WriterKeeps, B
    <2>2. writer \in [at : {"boot", "wait", "encode", "unlink", "rename", "write", "count"},
                      record : Record \cup {None}, generation : Generations, ok : BOOLEAN]
      BY DEF TypeOK
    <2>3. CASE Take
      <3>1. Len(queue') = Len(queue) - 1
        BY <1>3, <2>3, QueueSteps DEF Take
      <3>2. Held = 0 /\ Held' = 1
        BY <2>2, <2>3 DEF Take, Held
      <3> QED
        BY <1>3, <2>1, <2>3, <3>1, <3>2 DEF Take
    <2>4. CASE Count
      <3>1. Held = 1 /\ Held' = 0
        BY <2>2, <2>4 DEF Count, IdleWriter, Held
      <3> QED
        BY <1>3, <2>1, <2>4, <3>1 DEF Count
    <2>5. CASE Encode \/ Unlink \/ Rename \/ Write
      <3>1. Held = 1 /\ Held' = 1
        BY <2>2, <2>5 DEF Encode, Unlink, Rename, Write, Result, Held
      <3>2. UNCHANGED <<queue, written, failures>>
        BY <2>5 DEF Encode, Unlink, Rename, Write
      <3> QED
        BY <1>3, <2>1, <3>1, <3>2
    <2> QED
      BY <1>7, <2>3, <2>4, <2>5 DEF WriterStep
  <1>8. CASE PowerCut
    <2>1. B' = 0
      BY <1>8, BusyNone DEF PowerCut, B
    <2>2. Held' = 0 /\ Len(queue') = 0
      BY <1>8 DEF PowerCut, IdleWriter, Held
    <2> QED
      BY <1>8, <2>1, <2>2 DEF PowerCut
  <1> QED
    BY <1>5, <1>6, <1>7, <1>8 DEF Next

\* The queue stays within its depth, and its numbers within those drawn.
LEMMA QueueType ==
    ASSUME TypeOK, PlaceInv, NumberInv, Next
    PROVE  /\ nextSequence' \in Nat /\ lastQueued' \in 0..nextSequence'
           /\ queue' \in Seq(Record) /\ Len(queue') <= Depth
  <1> DEFINE G == /\ nextSequence' \in Nat /\ lastQueued' \in 0..nextSequence'
                  /\ queue' \in Seq(Record) /\ Len(queue') <= Depth
  <1>1. /\ nextSequence \in Nat /\ lastQueued \in 0..nextSequence
        /\ queue \in Seq(Record) /\ Len(queue) <= Depth /\ Len(queue) \in Nat
        /\ Depth \in Nat \ {0} /\ boot \in 0..MaxReboots
    BY SizesAssumption DEF TypeOK
  <1>2. CASE JournalInit
    <2> DEFINE r == [boot |-> boot, sequence |-> 1, critical |-> TRUE]
    <2>1. r \in Record
      BY <1>1 DEF Record
    <2>2. queue' = <<r>> /\ nextSequence' = 1 /\ lastQueued' = 1
      BY <1>2 DEF JournalInit, BootId
    <2> HIDE DEF r
    <2> QED
      BY <1>1, <2>1, <2>2
  <1>3. ASSUME NEW p \in Producers, Queued(p), emit[p].at # "idle", nextSequence' = nextSequence
        PROVE  G
    <2>1. emit[p].record \in Record /\ emit[p].record.sequence \in 1..nextSequence
      BY <1>3 DEF TypeOK, NumberInv, Active
    <2>2. queue' \in Seq(Record) /\ Len(queue') = Len(queue) + 1 /\ Len(queue) < Depth
      BY <1>1, <1>3, <2>1, QueueSteps DEF Queued
    <2>3. lastQueued' \in 0..nextSequence
      BY <1>1, <1>3, <2>1 DEF Queued
    <2> QED
      BY <1>1, <1>3, <2>2, <2>3
  <1>4. ASSUME UNCHANGED <<nextSequence, lastQueued>>, queue' = queue \/ (queue # <<>> /\ queue' = Tail(queue))
        PROVE  G
    <2>1. queue # <<>> => Tail(queue) \in Seq(Record) /\ Len(Tail(queue)) = Len(queue) - 1
      BY <1>1, QueueSteps
    <2> QED
      BY <1>1, <1>4, <2>1
  <1>5. ASSUME NEW p \in Producers, Emit(p)
        PROVE  G
    <2>1. CASE EmitContended(p)
      BY <1>4, <2>1 DEF EmitContended
    <2>2. CASE \E critical \in BOOLEAN : EmitNumbered(p, critical)
      BY <1>1, <2>2 DEF EmitNumbered
    <2>3. CASE Send(p)
      BY <1>3, <1>4, <2>3 DEF Send, Dropped
    <2>4. CASE Evict(p)
      BY <1>4, <2>4 DEF Evict, Dropped
    <2>5. CASE Resend(p)
      BY <1>3, <1>4, <2>5 DEF Resend, Dropped
    <2> QED
      BY <1>5, <2>1, <2>2, <2>3, <2>4, <2>5 DEF Emit
  <1>6. CASE WriterStep
    BY <1>4, <1>6 DEF WriterStep, WriterKeeps, Take, Encode, Unlink, Rename, Write, Count
  <1>7. CASE PowerCut
    BY <1>1, <1>7 DEF PowerCut
  <1> QED
    BY <1>2, <1>5, <1>6, <1>7 DEF Next

\* Every counter stays a natural number.
LEMMA CounterType ==
    ASSUME TypeOK, Next
    PROVE  \A c \in {dropped, written, failures, calls}' : c \in Nat
  <1>1. dropped \in Nat /\ written \in Nat /\ failures \in Nat /\ calls \in Nat
    BY DEF TypeOK
  <1>2. CASE JournalInit
    BY <1>1, <1>2 DEF JournalInit, counters
  <1>3. ASSUME NEW p \in Producers, Emit(p)
        PROVE  dropped' \in Nat /\ written' \in Nat /\ failures' \in Nat /\ calls' \in Nat
    BY <1>1, <1>3 DEF Emit, EmitContended, EmitNumbered, Send, Evict, Resend, Queued, Dropped,
                      CountEvicted, counters
  <1>4. CASE WriterStep
    <2>1. dropped' = dropped /\ calls' = calls
      BY <1>4 DEF WriterStep, WriterKeeps, Take, Encode, Unlink, Rename, Write, Count
    <2>2. written' \in {written, written + 1} /\ failures' \in {failures, failures + 1}
      BY <1>4 DEF WriterStep, Take, Encode, Unlink, Rename, Write, Count
    <2> QED
      BY <1>1, <2>1, <2>2
  <1>5. CASE PowerCut
    BY <1>5 DEF PowerCut
  <1> QED
    BY <1>2, <1>3, <1>4, <1>5 DEF Next

\* A producer inside a call has a record in hand.
LEMMA EmitType ==
    ASSUME TypeOK, Next
    PROVE  /\ emit' \in [Producers -> Emits]
           /\ \A p \in Producers : emit'[p].at # "idle" => emit'[p].record \in Record
  <1> DEFINE G == /\ emit' \in [Producers -> Emits]
                  /\ \A p \in Producers : emit'[p].at # "idle" => emit'[p].record \in Record
  <1>1. /\ emit \in [Producers -> Emits]
        /\ \A p \in Producers : emit[p].at # "idle" => emit[p].record \in Record
    BY DEF TypeOK, Emits
  <1>2. CASE emit' = emit
    BY <1>1, <1>2
  <1>3. ASSUME NEW p \in Producers, NEW x \in Emits, x.at # "idle" => x.record \in Record,
               emit' = [emit EXCEPT ![p] = x]
        PROVE  G
    BY <1>1, <1>3
  <1>4. IdleEmit \in Emits /\ IdleEmit.at = "idle"
    BY DEF IdleEmit, Emits
  <1>5. ASSUME NEW p \in Producers, Emit(p)
        PROVE  G
    <2>1. CASE EmitContended(p)
      BY <1>2, <2>1 DEF EmitContended
    <2>2. ASSUME NEW critical \in BOOLEAN, EmitNumbered(p, critical)
          PROVE  G
      <3> DEFINE r == [boot |-> boot, sequence |-> nextSequence + 1, critical |-> critical]
                 x == [at |-> "send", record |-> r]
      <3>1. r \in Record
        BY DEF Record, TypeOK
      <3>2. emit' = [emit EXCEPT ![p] = x]
        BY <2>2 DEF EmitNumbered, BootId
      <3>3. x \in Emits /\ x.record \in Record
        BY <3>1 DEF Emits
      <3> HIDE DEF x
      <3> QED
        BY <1>3, <3>2, <3>3
    <2>3. CASE emit' = [emit EXCEPT ![p] = IdleEmit]
      BY <1>3, <1>4, <2>3
    <2>4. ASSUME NEW a \in {"evict", "resend"}, emit' = [emit EXCEPT ![p].at = a], emit[p].at # "idle"
          PROVE  G
      <3>1. emit[p] \in Emits /\ emit[p].record \in Record
        BY <1>1, <2>4
      <3>2. /\ [emit[p] EXCEPT !.at = a] \in Emits /\ [emit[p] EXCEPT !.at = a].record \in Record
            /\ emit' = [emit EXCEPT ![p] = [emit[p] EXCEPT !.at = a]]
        BY <2>4, <3>1 DEF Emits
      <3> QED
        BY <1>3, <3>2
    <2>5. CASE Send(p)
      BY <2>3, <2>4, <2>5 DEF Send, Queued, Dropped
    <2>6. CASE Evict(p)
      BY <2>3, <2>4, <2>6 DEF Evict, Dropped
    <2>7. CASE Resend(p)
      BY <2>3, <2>7 DEF Resend, Queued, Dropped
    <2> QED
      BY <1>5, <2>1, <2>2, <2>5, <2>6, <2>7 DEF Emit
  <1>6. CASE JournalInit \/ WriterStep
    BY <1>2, <1>6 DEF JournalInit, WriterStep, WriterKeeps, Take, Encode, Unlink, Rename, Write, Count
  <1>7. CASE PowerCut
    BY <1>4, <1>7 DEF PowerCut
  <1> QED
    BY <1>5, <1>6, <1>7 DEF Next

WriterType(w) ==
    /\ w \in [at : {"boot", "wait", "encode", "unlink", "rename", "write", "count"},
               record : Record \cup {None}, generation : Generations, ok : BOOLEAN]
    /\ w.at \in {"encode", "unlink", "rename", "write", "count"} => w.record \in Record
    /\ w.at \in {"unlink", "rename"} => w.generation > 0

\* What the writer has in hand keeps its type.
LEMMA WriterStepType ==
    ASSUME TypeOK, Next
    PROVE  WriterType(writer')
  <1>1. WriterType(writer)
    BY DEF TypeOK, WriterType
  <1>2. CASE UNCHANGED writer
    BY <1>1, <1>2
  <1>3. WriterType(IdleWriter) /\ WriterType([IdleWriter EXCEPT !.at = "boot"])
    BY GenerationsHave DEF IdleWriter, WriterType
  <1>4. ASSUME writer.at \notin {"boot", "wait"}, \E ok \in BOOLEAN : Result(ok) PROVE WriterType(writer')
    BY <1>1, <1>4 DEF Result, WriterType
  <1>5. CASE Take
    <2>1. Head(queue) \in Record
      BY <1>5, QueueSteps DEF Take, TypeOK
    <2> QED
      BY <1>1, <1>5, <2>1 DEF Take, WriterType
  <1>6. CASE Encode
    BY <1>1, <1>4, <1>6, GenerationsHave DEF Encode, WriterType
  <1>7. CASE Unlink
    BY <1>1, <1>4, <1>7 DEF Unlink, WriterType
  <1>8. CASE Rename
    <2>1. CASE \E ok \in BOOLEAN : Result(ok)
      BY <1>4, <1>8, <2>1 DEF Rename
    <2>2. CASE writer' = [writer EXCEPT !.at = IF writer.generation = 1 THEN "write" ELSE "unlink",
                                        !.generation = writer.generation - 1]
      <3>1. writer.generation \in Generations /\ writer.generation > 0 /\ writer.record \in Record
        BY <1>1, <1>8 DEF Rename, WriterType
      <3>2. writer.generation - 1 \in Generations /\ writer.generation \in Nat
        BY <3>1, GenerationsHave DEF Generations
      <3>3. PICK a, g : /\ a = (IF writer.generation = 1 THEN "write" ELSE "unlink")
                        /\ g = writer.generation - 1
        OBVIOUS
      <3>4. writer' = [writer EXCEPT !.at = a, !.generation = g]
        BY <2>2, <3>3, Zenon
      <3>5. g \in Generations /\ a \in {"write", "unlink"} /\ (a = "unlink" => g > 0)
        BY <3>1, <3>2, <3>3
      <3> QED
        BY <1>1, <3>1, <3>4, <3>5 DEF WriterType
    <2> QED
      BY <1>8, <2>1, <2>2 DEF Rename
  <1>9. CASE Write
    BY <1>4, <1>9 DEF Write
  <1>10. CASE JournalInit \/ Count \/ PowerCut
    BY <1>3, <1>10 DEF JournalInit, Count, PowerCut
  <1>11. ASSUME NEW p \in Producers, Emit(p) PROVE WriterType(writer')
    BY <1>2, <1>11 DEF Emit, EmitContended, EmitNumbered, Send, Evict, Resend
  <1> QED
    BY <1>5, <1>6, <1>7, <1>8, <1>9, <1>10, <1>11 DEF Next, WriterStep

\* What a step leaves of the files.
\* What a step leaves of the files: nothing changes, the writer's record is appended,
\* whole or not, a generation is removed or takes the next one's place, or a repair.
FilesKept ==
    UNCHANGED <<files, stored>> /\ (~torn' => writer.at # "boot" \/ ~mounted)
FilesGrow(t) ==
    /\ writer.at = "write" /\ (Write \/ PowerCut) /\ (t => PowerCut \/ torn')
    /\ files' = [files EXCEPT ![0] = @ \o <<[record |-> writer.record, torn |-> t]>>]
    /\ stored' = IF t THEN stored ELSE stored \cup {writer.record}
FilesLoseOne ==
    /\ Unlink /\ stored' = stored
    /\ files' = [files EXCEPT ![writer.generation] = <<>>]
FilesMove ==
    /\ Rename /\ stored' = stored
    /\ files' = [files EXCEPT ![writer.generation] = files[writer.generation - 1],
                              ![writer.generation - 1] = <<>>]
FilesRepaired ==
    /\ JournalInit /\ mounted /\ stored' = stored
    /\ files' = [files EXCEPT ![0] = Repaired(@)]

\* The five things a step may do to the files: nothing, grow the active one by an item,
\* lose a generation, move one up, or repair the tail at boot.
LEMMA FileSteps ==
    ASSUME TypeOK, PlaceInv, Next
    PROVE  FilesKept \/ (\E t \in BOOLEAN : FilesGrow(t)) \/ FilesLoseOne \/ FilesMove \/ FilesRepaired
  <1> DEFINE G == FilesKept \/ (\E t \in BOOLEAN : FilesGrow(t)) \/ FilesLoseOne \/ FilesMove
                  \/ FilesRepaired
  <1>1. CASE JournalInit
    BY <1>1 DEF JournalInit, FilesKept, FilesRepaired
  <1>2. ASSUME NEW p \in Producers, Emit(p) PROVE G
    <2>1. writer.at # "boot"
      BY <1>2 DEF Emit, EmitContended, EmitNumbered, Send, Evict, Resend, PlaceInv, Active
    <2>2. files' = files /\ stored' = stored
      BY <1>2 DEF Emit, EmitContended, EmitNumbered, Send, Evict, Resend, history
    <2> QED
      BY <2>1, <2>2 DEF FilesKept
  <1>3. CASE Take \/ Encode \/ Count
    BY <1>3 DEF Take, Encode, Count, FilesKept
  <1>4. CASE Unlink
    BY <1>4 DEF Unlink, FilesKept, FilesLoseOne
  <1>5. CASE Rename
    BY <1>5 DEF Rename, FilesKept, FilesMove
  <1>6. CASE Write
    <2>1. CASE files' = files /\ stored' = stored
      BY <1>6, <2>1 DEF Write, FilesKept
    <2>2. CASE Appended(<<Whole(writer.record)>>) /\ stored' = stored \cup {writer.record}
      BY <1>6, <2>2 DEF Write, FilesGrow, Appended, Whole
    <2>3. CASE Appended(<<Part(writer.record)>>) /\ torn' = TRUE /\ stored' = stored
      BY <1>6, <2>3 DEF Write, FilesGrow, Appended, Part
    <2> QED
      BY <1>6, <2>1, <2>2, <2>3 DEF Write
  <1>7. CASE PowerCut
    <2>1. PICK items \in CutWrite :
             /\ Appended(items)
             /\ stored' = stored \cup
                   {i.record : i \in {x \in {items[n] : n \in 1..Len(items)} : ~x.torn}}
      BY <1>7 DEF PowerCut
    <2>2. CASE items = <<>>
      <3>1. {items[n] : n \in 1..Len(items)} = {}
        BY <2>2
      <3>2. {i.record : i \in {x \in {items[n] : n \in 1..Len(items)} : ~x.torn}} = {}
        BY <3>1
      <3>3. stored' = stored
        BY <2>1, <3>2
      <3>4. files' = files
        BY <2>1, <2>2, AppendNone DEF Appended, TypeOK, Files, Item
      <3> QED
        BY <1>7, <3>3, <3>4 DEF FilesKept, PowerCut
    <2>3. ASSUME NEW t \in BOOLEAN, items = <<[record |-> writer.record, torn |-> t]>>,
                 writer.at = "write"
          PROVE  G
      <3> DEFINE x == [record |-> writer.record, torn |-> t]
      <3>1. {items[n] : n \in 1..Len(items)} = {x}
        BY <2>3
      <3>2. x.record = writer.record /\ (x.torn <=> t)
        BY <2>3
      <3> HIDE DEF x
      <3>3. {i.record : i \in {y \in {items[n] : n \in 1..Len(items)} : ~y.torn}}
               = IF t THEN {} ELSE {writer.record}
        BY <2>3, <3>1, <3>2
      <3>4. stored' = IF t THEN stored ELSE stored \cup {writer.record}
        BY <2>1, <3>3
      <3> QED
        BY <1>7, <2>1, <2>3, <3>4 DEF FilesGrow, Appended
    <2>4. items = <<>> \/ (writer.at = "write" /\ \E t \in BOOLEAN : items = <<[record |-> writer.record, torn |-> t]>>)
      BY <2>1 DEF CutWrite, Part, Whole
    <2> QED
      BY <2>2, <2>3, <2>4
  <1> QED
    BY <1>1, <1>2, <1>3, <1>4, <1>5, <1>6, <1>7 DEF Next, WriterStep

\* The files stay sequences of items, whatever is appended, unlinked, renamed or cut off.
LEMMA CardType ==
    ASSUME TypeOK, PlaceInv, Next
    PROVE  files' \in Files /\ stored' \subseteq Record
  <1>1. files \in Files /\ stored \subseteq Record
    BY DEF TypeOK, Files, Item
  <1>2. CASE FilesKept
    BY <1>1, <1>2 DEF FilesKept
  <1>3. ASSUME NEW t \in BOOLEAN, FilesGrow(t) PROVE files' \in Files /\ stored' \subseteq Record
    <2>1. writer.record \in Record
      BY <1>3 DEF FilesGrow, TypeOK
    <2>2. [record |-> writer.record, torn |-> t] \in Item
      BY <2>1 DEF Item
    <2>3. files' \in Files
      BY <1>1, <1>3, <2>2, AppendOne DEF FilesGrow
    <2> QED
      BY <1>1, <1>3, <2>1, <2>3 DEF FilesGrow
  <1>4. CASE FilesLoseOne
    <2>1. <<>> \in Seq(Item)
      OBVIOUS
    <2> QED
      BY <1>1, <1>4, <2>1 DEF FilesLoseOne, Files
  <1>5. CASE FilesMove
    <2>1. writer.generation - 1 \in Generations
      BY <1>5, GenerationsHave DEF FilesMove, Rename, TypeOK
    <2>2. files[writer.generation - 1] \in Seq(Item) /\ <<>> \in Seq(Item)
      BY <1>1, <2>1 DEF Files
    <2>3. [files EXCEPT ![writer.generation] = files[writer.generation - 1]] \in Files
      BY <1>1, <2>2 DEF Files
    <2>4. files' \in Files
      BY <1>5, <2>2, <2>3 DEF FilesMove, Files
    <2> QED
      BY <1>1, <1>5, <2>4 DEF FilesMove
  <1>6. CASE FilesRepaired
    <2>1. Repaired(files[0]) \in Seq(Item)
      BY <1>1, GenerationsHave, RepairKeeps DEF Files
    <2> QED
      BY <1>1, <1>6, <2>1 DEF FilesRepaired, Files
  <1> QED
    BY <1>2, <1>3, <1>4, <1>5, <1>6, FileSteps

\* Every step keeps the type invariant.
LEMMA TypeStep ==
    ASSUME TypeOK, PlaceInv, NumberInv, Next
    PROVE  TypeOK'
  <1> USE DEF Files, Emits
  <1>1. Counts'
    BY CountStep
  <1>2. /\ nextSequence \in Nat /\ lastQueued \in 0..nextSequence
        /\ queue \in Seq(Record) /\ Len(queue) <= Depth
        /\ emit \in [Producers -> Emits]
        /\ \A p \in Producers : emit[p].at # "idle" => emit[p].record \in Record
        /\ files \in Files
    BY DEF TypeOK, Item
  <1>3. /\ nextSequence' \in Nat /\ lastQueued' \in 0..nextSequence'
        /\ queue' \in Seq(Record) /\ Len(queue') <= Depth
    BY QueueType
  <1>4. \A c \in {dropped, written, failures, calls}' : c \in Nat
    BY CounterType
  <1>5. /\ emit' \in [Producers -> Emits]
        /\ \A p \in Producers : emit'[p].at # "idle" => emit'[p].record \in Record
    BY EmitType
  <1>6. /\ writer' \in [at : {"boot", "wait", "encode", "unlink", "rename", "write", "count"},
                        record : Record \cup {None}, generation : Generations, ok : BOOLEAN]
        /\ writer'.at \in {"encode", "unlink", "rename", "write", "count"} => writer'.record \in Record
        /\ writer'.at \in {"unlink", "rename"} => writer'.generation > 0
    BY WriterStepType DEF WriterType
  <1>7. mounted' \in BOOLEAN /\ boot' \in 0..MaxReboots /\ faults' \in 0..MaxFaults
    <2>1. mounted \in BOOLEAN /\ boot \in 0..MaxReboots /\ faults \in 0..MaxFaults
          /\ MaxReboots \in Nat /\ MaxFaults \in Nat
      BY BoundsAssumption DEF TypeOK
    <2>2. mounted' \in BOOLEAN
      BY <2>1 DEF Next, JournalInit, Emit, EmitContended, EmitNumbered, Send, Evict, Resend, PowerCut,
                  WriterStep, WriterKeeps, Take, Encode, Unlink, Rename, Write, Count
    <2>3. boot' = boot \/ (boot < MaxReboots /\ boot' = boot + 1)
      BY DEF Next, JournalInit, Emit, EmitContended, EmitNumbered, Send, Evict, Resend, PowerCut,
             WriterStep, WriterKeeps, Take, Encode, Unlink, Rename, Write, Count
    <2>4. faults' = faults \/ Fault
      BY DEF Next, JournalInit, Emit, EmitContended, EmitNumbered, Send, Evict, Resend, PowerCut,
             WriterStep, WriterKeeps, Take, Encode, Unlink, Rename, Write, Count
    <2> QED
      BY <2>1, <2>2, <2>3, <2>4 DEF Fault
  <1>8. files' \in Files /\ stored' \subseteq Record
    BY CardType
  <1>9. {overtaken', torn'} \subseteq BOOLEAN
    <2>1. overtaken \in BOOLEAN /\ torn \in BOOLEAN
      BY DEF TypeOK
    <2>2. torn' \in BOOLEAN
      BY <2>1 DEF Next, JournalInit, Emit, EmitContended, EmitNumbered, Send, Evict, Resend, PowerCut,
                  WriterStep, WriterKeeps, Take, Encode, Unlink, Rename, Write, Count, history
    <2>3. overtaken' \in BOOLEAN
      BY <2>1 DEF Next, JournalInit, Emit, EmitContended, EmitNumbered, Send, Evict, Resend, PowerCut,
                  WriterStep, WriterKeeps, Take, Encode, Unlink, Rename, Write, Count, history,
                  Queued, Dropped
    <2> QED
      BY <2>2, <2>3
  <1> QED
    BY <1>1, <1>3, <1>4, <1>5, <1>6, <1>7, <1>8, <1>9, Zenon DEF TypeOK, Counts, Item

-----------------------------------------------------------------------------
(* Producers, the writer and the queue. *)

\* What a producer's step does to its record and to the queue.
Draws(p) ==
    /\ emit[p].at = "idle" /\ emit'[p].at = "send"
    /\ emit'[p].record.boot = boot /\ emit'[p].record.sequence = nextSequence + 1
    /\ nextSequence' = nextSequence + 1 /\ UNCHANGED <<queue, lastQueued, overtaken>>
Leaves(p) ==
    /\ Active(p) /\ emit'[p] = IdleEmit /\ UNCHANGED nextSequence
    /\ \/ Queued(p)
       \/ /\ UNCHANGED <<queue, lastQueued, overtaken>>
          /\ emit[p].at = "send" => ~emit[p].record.critical
Presses(p) ==
    /\ Active(p) /\ emit'[p].at \in {"evict", "resend"} /\ emit'[p].record = emit[p].record
    /\ emit[p].record.critical /\ UNCHANGED <<nextSequence, lastQueued, overtaken>>
    /\ \/ UNCHANGED queue
       \/ queue # <<>> /\ queue' = Tail(queue) /\ emit'[p].at = "resend"

\* The four things a producer's step may do: draw a number, leave, press on, or nothing.
LEMMA EmitSteps ==
    ASSUME TypeOK, PlaceInv, NEW p \in Producers, Emit(p)
    PROVE  /\ writer.at # "boot" /\ UNCHANGED <<writer, mounted, files, stored, boot, torn>>
           /\ \A q \in Producers \ {p} : emit'[q] = emit[q]
           /\ \/ UNCHANGED <<emit, nextSequence, queue, lastQueued, overtaken>>
              \/ Draws(p) \/ Leaves(p) \/ Presses(p)
  <1>1. emit \in [Producers -> Emits]
    BY DEF TypeOK, Emits
  <1>2. writer.at # "boot" /\ UNCHANGED <<writer, mounted, files, stored, boot, torn>>
    BY DEF Emit, EmitContended, EmitNumbered, Send, Evict, Resend, PlaceInv, Active, history
  <1>3. \A q \in Producers \ {p} : emit'[q] = emit[q]
    BY <1>1 DEF Emit, EmitContended, EmitNumbered, Send, Evict, Resend, Queued, Dropped
  <1>4. CASE EmitContended(p)
    BY <1>2, <1>3, <1>4 DEF EmitContended, history
  <1>5. ASSUME NEW critical \in BOOLEAN, EmitNumbered(p, critical) PROVE Draws(p)
    BY <1>1, <1>5 DEF EmitNumbered, BootId, Draws, history
  <1>6. ASSUME UNCHANGED nextSequence, Active(p),
               Queued(p) \/ (Dropped(p) /\ (emit[p].at = "send" => ~emit[p].record.critical))
        PROVE  Leaves(p)
    BY <1>1, <1>6 DEF Queued, Dropped, Leaves
  <1>7. CASE Send(p)
    <2>1. CASE Queued(p) \/ (Dropped(p) /\ ~MayEvict(emit[p].record))
      BY <1>2, <1>3, <1>6, <1>7, <2>1 DEF Send, Active, MayEvict
    <2>2. CASE MayEvict(emit[p].record) /\ emit' = [emit EXCEPT ![p].at = "evict"]
               /\ UNCHANGED <<queue, lastQueued, overtaken>>
      <3>1. Presses(p)
        BY <1>1, <1>7, <2>2 DEF Send, MayEvict, Presses, Active, Emits
      <3> QED
        BY <1>2, <1>3, <3>1
    <2> QED
      BY <1>7, <2>1, <2>2 DEF Send
  <1>8. CASE Evict(p)
    <2>1. CASE queue = <<>>
      BY <1>2, <1>3, <1>6, <1>8, <2>1 DEF Evict, Active
    <2>2. CASE queue # <<>>
      <3>1. Presses(p)
        BY <1>1, <1>8, <2>2 DEF Evict, PlaceInv, Presses, Active, Emits
      <3> QED
        BY <1>2, <1>3, <3>1
    <2> QED
      BY <2>1, <2>2
  <1>9. CASE Resend(p)
    BY <1>2, <1>3, <1>6, <1>9 DEF Resend, Active
  <1> QED
    BY <1>2, <1>3, <1>4, <1>5, <1>7, <1>8, <1>9 DEF Emit

\* What the writer's step does to its record and to the queue.
Takes ==
    /\ writer.at = "wait" /\ queue # <<>> /\ queue' = Tail(queue)
    /\ writer'.at = "encode" /\ writer'.record = Head(queue)
Goes ==
    /\ Writing /\ UNCHANGED queue /\ writer'.record = writer.record
    /\ writer'.at \in {"unlink", "rename", "write", "count"}
    /\ writer.at = "write" => writer'.at = "count"
    /\ writer'.at \in {"unlink", "rename", "write"} => mounted
Rests == UNCHANGED queue /\ writer.at = "count" /\ writer'.at = "wait"

\* The three things the writer's step may do: take a record, go on with it, or be done.
LEMMA WriterSteps ==
    ASSUME TypeOK, PlaceInv, WriterStep
    PROVE  /\ writer.at # "boot" /\ UNCHANGED <<emit, nextSequence, lastQueued, overtaken, boot, mounted>>
           /\ Takes \/ Goes \/ Rests
  <1>1. writer \in [at : {"boot", "wait", "encode", "unlink", "rename", "write", "count"},
                   record : Record \cup {None}, generation : Generations, ok : BOOLEAN]
    BY DEF TypeOK
  <1>2. writer.at # "boot" /\ UNCHANGED <<emit, nextSequence, lastQueued, overtaken, boot, mounted>>
    BY DEF WriterStep, WriterKeeps, Take, Encode, Unlink, Rename, Write, Count
  <1>3. ASSUME NEW ok \in BOOLEAN, Result(ok)
        PROVE  writer'.at = "count" /\ writer'.record = writer.record
    BY <1>1, <1>3 DEF Result
  <1>4. CASE Take
    BY <1>1, <1>2, <1>4 DEF Take, Takes
  <1>5. CASE Encode
    <2>1. Writing /\ UNCHANGED queue /\ writer.at # "write"
      BY <1>5 DEF Encode, Writing
    <2>2. CASE Result(FALSE)
      BY <1>2, <1>3, <2>1, <2>2 DEF Goes
    <2>3. CASE mounted /\ writer' = [writer EXCEPT !.at = "write"]
      <3>1. writer'.at = "write" /\ writer'.record = writer.record
        BY <1>1, <2>3
      <3> QED
        BY <1>2, <2>1, <2>3, <3>1 DEF Goes
    <2>4. CASE mounted /\ writer' = [writer EXCEPT !.at = "unlink", !.generation = FirstGeneration]
      <3>1. writer'.at = "unlink" /\ writer'.record = writer.record
        BY <1>1, <2>4
      <3> QED
        BY <1>2, <2>1, <2>4, <3>1 DEF Goes
    <2> QED
      BY <1>5, <2>2, <2>3, <2>4 DEF Encode
  <1>6. CASE Unlink
    <2>1. Writing /\ UNCHANGED queue /\ mounted /\ writer.at # "write"
      BY <1>6 DEF Unlink, Writing, PlaceInv
    <2>2. CASE Result(FALSE)
      BY <1>2, <1>3, <2>1, <2>2 DEF Goes
    <2>3. CASE writer' = [writer EXCEPT !.at = "rename"]
      BY <1>1, <1>2, <2>1, <2>3 DEF Goes
    <2> QED
      BY <1>6, <2>2, <2>3 DEF Unlink
  <1>7. CASE Rename
    <2>1. Writing /\ UNCHANGED queue /\ mounted /\ writer.at # "write"
      BY <1>7 DEF Rename, Writing, PlaceInv
    <2>2. CASE Result(FALSE)
      BY <1>2, <1>3, <2>1, <2>2 DEF Goes
    <2>3. CASE writer' = [writer EXCEPT !.at = IF writer.generation = 1 THEN "write" ELSE "unlink",
                                        !.generation = writer.generation - 1]
      <3>1. writer'.at \in {"unlink", "write"} /\ writer'.record = writer.record
        BY <1>1, <2>3
      <3> QED
        BY <1>2, <2>1, <3>1 DEF Goes
    <2> QED
      BY <1>7, <2>2, <2>3 DEF Rename
  <1>8. CASE Write
    <2>1. Writing /\ UNCHANGED queue
      BY <1>8 DEF Write, Writing
    <2>2. Result(TRUE) \/ Result(FALSE)
      BY <1>8 DEF Write
    <2> QED
      BY <1>2, <1>3, <2>1, <2>2 DEF Goes
  <1>9. CASE Count
    BY <1>2, <1>9 DEF Count, Rests, IdleWriter
  <1> QED
    BY <1>4, <1>5, <1>6, <1>7, <1>8, <1>9, <1>2 DEF WriterStep

\* Every step keeps what the places of the tasks say.
LEMMA PlaceStep ==
    ASSUME TypeOK, PlaceInv, Next
    PROVE  PlaceInv'
  <1>1. CASE JournalInit
    BY <1>1 DEF JournalInit, PlaceInv, Active, IdleWriter
  <1>2. ASSUME NEW p \in Producers, Emit(p)
        PROVE  PlaceInv'
    <2>1. /\ writer.at # "boot" /\ UNCHANGED <<writer, mounted>>
          /\ \A q \in Producers \ {p} : emit'[q] = emit[q]
          /\ emit' = emit \/ Draws(p) \/ Leaves(p) \/ Presses(p)
      BY <1>2, EmitSteps
    <2>2. \A q \in Producers : Active(q)' => writer'.at # "boot"
      BY <2>1
    <2>3. \A q \in Producers : ~Active(q)' => emit'[q].record = None
      BY <2>1 DEF PlaceInv, Active, Draws, Leaves, Presses, IdleEmit
    <2>4. \A q \in Producers : emit'[q].at \in {"evict", "resend"} => emit'[q].record.critical
      BY <2>1 DEF PlaceInv, Draws, Leaves, Presses, IdleEmit
    <2> QED
      BY <2>1, <2>2, <2>3, <2>4 DEF PlaceInv, Active
  <1>3. CASE WriterStep
    BY <1>3, WriterSteps DEF PlaceInv, Active, Takes, Goes, Rests
  <1>4. CASE PowerCut
    BY <1>4 DEF PowerCut, PlaceInv, Active, IdleWriter, IdleEmit
  <1> QED
    BY <1>1, <1>2, <1>3, <1>4 DEF Next

\* Every step keeps the numbers in hand apart and out of the queue.
LEMMA NumberStep ==
    ASSUME TypeOK, PlaceInv, NumberInv, Next
    PROVE  NumberInv'
  <1>1. nextSequence \in Nat /\ lastQueued \in 0..nextSequence
    BY DEF TypeOK
  <1>2. CASE JournalInit
    <2>1. \A p \in Producers : ~Active(p)'
      BY <1>2 DEF JournalInit, PlaceInv, Active
    <2> QED
      BY <2>1 DEF NumberInv
  <1>3. CASE PowerCut
    <2>1. \A p \in Producers : ~Active(p)'
      BY <1>3 DEF PowerCut, Active, IdleEmit
    <2> QED
      BY <2>1 DEF NumberInv
  <1>4. CASE WriterStep
    BY <1>4, WriterSteps DEF NumberInv, Active
  <1>5. ASSUME NEW p \in Producers, Emit(p)
        PROVE  NumberInv'
    <2>1. /\ boot' = boot /\ \A q \in Producers \ {p} : emit'[q] = emit[q]
          /\ \/ UNCHANGED <<emit, nextSequence, queue, lastQueued, overtaken>>
             \/ Draws(p) \/ Leaves(p) \/ Presses(p)
      BY <1>5, EmitSteps
    <2>2. CASE UNCHANGED <<emit, nextSequence, queue, lastQueued, overtaken>>
      BY <2>1, <2>2 DEF NumberInv, Active
    <2>3. CASE Draws(p)
      BY <1>1, <2>1, <2>3 DEF NumberInv, Active, Draws
    <2>4. CASE Leaves(p)
      <3>1. lastQueued' = lastQueued \/ lastQueued' = emit[p].record.sequence
        BY <2>4 DEF Leaves, Queued
      <3>2. ~Active(p)'
        BY <2>4 DEF Leaves, Active, IdleEmit
      <3> QED
        BY <1>1, <2>1, <2>4, <3>1, <3>2 DEF NumberInv, Active, Leaves
    <2>5. CASE Presses(p)
      BY <2>1, <2>5 DEF NumberInv, Active, Presses
    <2> QED
      BY <2>1, <2>2, <2>3, <2>4, <2>5
  <1> QED
    BY <1>2, <1>3, <1>4, <1>5 DEF Next

-----------------------------------------------------------------------------
(* Where everything comes from. *)

\* What is on the card after a step was there before, or is the record being written.
LEMMA FileOrigin ==
    ASSUME TypeOK, PlaceInv, Next
    PROVE  /\ \A g \in Generations : \A m \in 1..Len(files'[g]) :
                 \/ \E h \in Generations : \E n \in 1..Len(files[h]) : files'[g][m] = files[h][n]
                 \/ writer.at = "write" /\ (Write \/ PowerCut) /\ files'[g][m].record = writer.record
           /\ \A b \in stored' :
                 b \in stored \/ (writer.at = "write" /\ (Write \/ PowerCut) /\ b = writer.record)
  <1> DEFINE F == \A g \in Generations : \A m \in 1..Len(files'[g]) :
                 \/ \E h \in Generations : \E n \in 1..Len(files[h]) : files'[g][m] = files[h][n]
                 \/ writer.at = "write" /\ (Write \/ PowerCut) /\ files'[g][m].record = writer.record
  <1>1. files \in Files /\ files' \in Files
    BY CardType DEF TypeOK, Files, Item
  <1>2. CASE FilesKept
    BY <1>2 DEF FilesKept
  <1>3. ASSUME NEW t \in BOOLEAN, FilesGrow(t) PROVE F
    <2> DEFINE x == [record |-> writer.record, torn |-> t]
    <2>1. x \in Item /\ x.record = writer.record
      BY <1>3 DEF FilesGrow, TypeOK, Item
    <2>2. files' = [files EXCEPT ![0] = @ \o <<x>>]
      BY <1>3 DEF FilesGrow
    <2> HIDE DEF x
    <2>3. /\ \A g \in Generations : g # 0 => files'[g] = files[g]
          /\ Len(files'[0]) = Len(files[0]) + 1
          /\ \A m \in 1..Len(files[0]) : files'[0][m] = files[0][m]
          /\ files'[0][Len(files[0]) + 1] = x
      BY <1>1, <2>1, <2>2, AppendOne
    <2>4. \A m \in 1..Len(files'[0]) : m \in 1..Len(files[0]) \/ m = Len(files[0]) + 1
      BY <1>1, <2>3, GenerationsHave DEF Files
    <2> QED
      BY <1>3, <2>1, <2>3, <2>4, GenerationsHave DEF FilesGrow
  <1>4. CASE FilesLoseOne
    <2>1. \A g \in Generations : files'[g] = <<>> \/ files'[g] = files[g]
      BY <1>1, <1>4 DEF FilesLoseOne, Files
    <2> QED
      BY <1>4, <2>1 DEF FilesLoseOne
  <1>5. CASE FilesMove
    <2>1. writer.generation - 1 \in Generations
      BY <1>5, GenerationsHave DEF FilesMove, Rename, TypeOK
    <2>2. \A g \in Generations : files'[g] = <<>> \/ files'[g] = files[g]
                                 \/ files'[g] = files[writer.generation - 1]
      BY <1>1, <1>5 DEF FilesMove, Files
    <2>3. ASSUME NEW g \in Generations, NEW m \in 1..Len(files'[g])
          PROVE  \E h \in Generations : \E n \in 1..Len(files[h]) : files'[g][m] = files[h][n]
      <3>1. CASE files'[g] = <<>>
        BY <2>3, <3>1
      <3>2. CASE files'[g] = files[g]
        BY <2>3, <3>2
      <3>3. CASE files'[g] = files[writer.generation - 1]
        BY <2>1, <2>3, <3>3
      <3> QED
        BY <2>2, <3>1, <3>2, <3>3
    <2> QED
      BY <1>5, <2>3 DEF FilesMove
  <1>6. CASE FilesRepaired
    <2>1. \A g \in Generations : files'[g] = files[g] \/ (g = 0 /\ files'[g] = Repaired(files[0]))
      BY <1>1, <1>6 DEF FilesRepaired, Files
    <2>2. \A m \in 1..Len(Repaired(files[0])) :
             m \in 1..Len(files[0]) /\ Repaired(files[0])[m] = files[0][m]
      BY <1>1, GenerationsHave, RepairKeeps DEF Files
    <2> QED
      BY <1>6, <2>1, <2>2 DEF FilesRepaired
  <1>7. \A b \in stored' :
           b \in stored \/ (writer.at = "write" /\ (Write \/ PowerCut) /\ b = writer.record)
    BY FileSteps DEF FilesKept, FilesGrow, FilesLoseOne, FilesMove, FilesRepaired
  <1> QED
    BY <1>2, <1>3, <1>4, <1>5, <1>6, <1>7, FileSteps

\* What is queued comes out of the queue in the end, and new records are put behind the
\* rest; they have the highest number unless they were overtaken.
LEMMA QueueOrigin ==
    ASSUME TypeOK, PlaceInv, NumberInv, Next
    PROVE  /\ boot' = boot \/ (PowerCut /\ boot' = boot + 1 /\ queue' = <<>>)
           /\ boot' = boot => lastQueued <= lastQueued'
           /\ \A n \in 1..Len(queue') :
                 /\ boot' = boot
                 /\ \/ \E k \in 1..Len(queue) : queue'[n] = queue[k]
                    \/ /\ queue'[n].boot = boot /\ queue'[n].sequence <= lastQueued'
                       /\ overtaken' \/ queue'[n].sequence > lastQueued
  <1> DEFINE G == \A n \in 1..Len(queue') :
                     \/ \E k \in 1..Len(queue) : queue'[n] = queue[k]
                     \/ /\ queue'[n].boot = boot /\ queue'[n].sequence <= lastQueued'
                        /\ overtaken' \/ queue'[n].sequence > lastQueued
             L == lastQueued <= lastQueued'
  <1>1. /\ queue \in Seq(Record) /\ nextSequence \in Nat /\ lastQueued \in 0..nextSequence
        /\ overtaken \in BOOLEAN
    BY DEF TypeOK
  <1>2. ASSUME queue' = queue \/ (queue # <<>> /\ queue' = Tail(queue)) PROVE G
    <2>1. queue # <<>> => /\ Len(Tail(queue)) = Len(queue) - 1 /\ Len(queue) \in Nat
                          /\ \A n \in 1..(Len(queue) - 1) : Tail(queue)[n] = queue[n + 1]
      BY <1>1, QueueSteps
    <2>2. \A n \in 1..(Len(queue) - 1) : n + 1 \in 1..Len(queue)
      BY <1>1
    <2>3. CASE queue # <<>> /\ queue' = Tail(queue)
      BY <2>1, <2>2, <2>3
    <2> QED
      BY <1>2, <2>3
  <1>3. CASE JournalInit
    <2>1. boot' = boot /\ lastQueued' = 1 /\ overtaken' = overtaken
      BY <1>3 DEF JournalInit
    <2>2. lastQueued = 0
      BY <1>3 DEF JournalInit, PlaceInv
    <2>3. queue' = <<[boot |-> boot, sequence |-> 1, critical |-> TRUE]>>
      BY <1>3 DEF JournalInit, BootId
    <2>4. Len(queue') = 1 /\ queue'[1].boot = boot /\ queue'[1].sequence = 1
      BY <2>3
    <2> HIDE DEF G
    <2>5. G
      BY <2>1, <2>2, <2>4 DEF G
    <2> QED
      BY <1>1, <2>1, <2>2, <2>5 DEF G
  <1>4. ASSUME NEW p \in Producers, Emit(p) PROVE boot' = boot /\ L /\ G
    <2>1. /\ boot' = boot
          /\ \/ UNCHANGED <<emit, nextSequence, queue, lastQueued, overtaken>>
             \/ Draws(p) \/ Leaves(p) \/ Presses(p)
      BY <1>4, EmitSteps
    <2>2. CASE Active(p) /\ Queued(p)
      <3> DEFINE r == emit[p].record
      <3>1. r \in Record /\ r.boot = boot /\ r.sequence \in 1..nextSequence /\ r.sequence # lastQueued
        BY <2>2 DEF NumberInv, TypeOK, Active
      <3>2. /\ queue' = Append(queue, r)
            /\ lastQueued' = IF r.sequence > lastQueued THEN r.sequence ELSE lastQueued
        BY <2>2 DEF Queued
      <3>7. r.sequence < lastQueued => overtaken'
        BY <2>2, Zenon DEF Queued
      <3> HIDE DEF r
      <3>3. /\ Len(queue') = Len(queue) + 1 /\ Len(queue) \in Nat
            /\ \A n \in 1..Len(queue) : queue'[n] = queue[n]
            /\ queue'[Len(queue) + 1] = r
        BY <1>1, <3>1, <3>2, QueueSteps
      <3>4. L /\ r.sequence <= lastQueued' /\ (overtaken' \/ r.sequence > lastQueued)
        BY <1>1, <3>1, <3>2, <3>7
      <3>5. \A n \in 1..Len(queue') : n \in 1..Len(queue) \/ n = Len(queue) + 1
        BY <3>3
      <3>6. G
        BY <3>1, <3>3, <3>4, <3>5
      <3> QED
        BY <2>1, <3>4, <3>6
    <2>3. CASE lastQueued' = lastQueued /\ (queue' = queue \/ (queue # <<>> /\ queue' = Tail(queue)))
      BY <1>1, <1>2, <2>1, <2>3
    <2> QED
      BY <2>1, <2>2, <2>3 DEF Draws, Leaves, Presses
  <1>5. CASE WriterStep
    BY <1>1, <1>2, <1>5, WriterSteps DEF Takes, Goes, Rests
  <1>6. CASE PowerCut
    <2>1. boot' = boot + 1 /\ queue' = <<>> /\ Len(queue') = 0 /\ boot' # boot
      BY <1>6 DEF PowerCut, TypeOK
    <2> QED
      BY <1>6, <2>1
  <1> QED
    BY <1>3, <1>4, <1>5, <1>6 DEF Next

\* While nobody was overtaken, the queue changes at one end at a time, in order.
LEMMA QueueShape ==
    ASSUME TypeOK, PlaceInv, NumberInv, ~overtaken', Next
    PROVE  \/ queue' = queue \/ (queue # <<>> /\ queue' = Tail(queue)) \/ Len(queue') <= 1
           \/ \E r \in Record : queue' = Append(queue, r) /\ r.sequence > lastQueued
  <1>1. CASE JournalInit \/ PowerCut
    <2>1. queue' = <<>> \/ \E r : queue' = <<r>>
      BY <1>1, Zenon DEF JournalInit, PowerCut
    <2>2. Len(<<>>) <= 1 /\ \A r : Len(<<r>>) <= 1
      OBVIOUS
    <2>3. Len(queue') <= 1
      BY <2>1, <2>2, Zenon
    <2> QED
      BY <2>3
  <1>2. CASE WriterStep
    BY <1>2, WriterSteps DEF Takes, Goes, Rests
  <1>3. ASSUME NEW p \in Producers, Emit(p), ~(queue' = queue \/ (queue # <<>> /\ queue' = Tail(queue)))
        PROVE  \E r \in Record : queue' = Append(queue, r) /\ r.sequence > lastQueued
    <2>1. Active(p) /\ Queued(p)
      BY <1>3, EmitSteps DEF Draws, Leaves, Presses
    <2> DEFINE r == emit[p].record
    <2>2. r \in Record /\ r.sequence \in 1..nextSequence /\ r.sequence # lastQueued
          /\ nextSequence \in Nat /\ lastQueued \in 0..nextSequence
      BY <2>1 DEF NumberInv, TypeOK, Active
    <2>3. queue' = Append(queue, r)
      BY <2>1 DEF Queued
    <2>4. ~(r.sequence < lastQueued)
      BY <2>1, Zenon DEF Queued
    <2> HIDE DEF r
    <2>5. r.sequence > lastQueued
      BY <2>2, <2>4
    <2> QED
      BY <2>2, <2>3, <2>5
  <1> QED
    BY <1>1, <1>2, <1>3 DEF Next

\* The writer keeps its record or takes it from the queue.
LEMMA WriterOrigin ==
    ASSUME TypeOK, PlaceInv, Next, Writing'
    PROVE  /\ boot' = boot /\ ~Write /\ ~PowerCut
           /\ \/ Writing /\ writer'.record = writer.record
              \/ queue # <<>> /\ queue' = Tail(queue) /\ writer'.record = Head(queue)
  <1>1. ~Write
    <2>1. Write => writer'.at = "count"
      BY DEF Write, Result, TypeOK
    <2> QED
      BY <2>1 DEF Writing
  <1>2. ~PowerCut /\ ~JournalInit
    BY DEF JournalInit, PowerCut, IdleWriter, Writing
  <1>3. CASE WriterStep
    BY <1>1, <1>2, <1>3, WriterSteps DEF Takes, Goes, Rests, Writing
  <1>4. ASSUME NEW p \in Producers, Emit(p) PROVE boot' = boot /\ writer' = writer
    BY <1>4, EmitSteps
  <1> QED
    BY <1>1, <1>2, <1>3, <1>4 DEF Next, Writing

\* What the type invariant says of queue, card and writer, in the form the proofs use.
LEMMA Typed ==
    ASSUME TypeOK
    PROVE  /\ boot \in Nat /\ lastQueued \in Nat /\ queue \in Seq(Record) /\ Len(queue) \in Nat
           /\ files \in Files /\ stored \subseteq Record
           /\ Writing => writer.record \in Record
           /\ \A n \in 1..Len(queue) : queue[n] \in Record
           /\ \A g \in Generations : \A m \in 1..Len(files[g]) : files[g][m] \in Item
           /\ \A g \in Generations : \A m \in 1..Len(files[g]) : files[g][m].record \in Record
           /\ \A g \in Generations : files[g] \in Seq(Item) /\ Len(files[g]) \in Nat
  <1>1. boot \in 0..MaxReboots /\ MaxReboots \in Nat /\ nextSequence \in Nat
        /\ lastQueued \in 0..nextSequence
    BY BoundsAssumption DEF TypeOK
  <1>2. queue \in Seq(Record) /\ files \in Files /\ stored \subseteq Record
    BY DEF TypeOK, Files, Item
  <1>3. Writing => writer.record \in Record
    BY DEF TypeOK, Writing
  <1>4. \A g \in Generations : files[g] \in Seq(Item) /\ Len(files[g]) \in Nat
    BY <1>2 DEF Files
  <1>5. \A g \in Generations : \A m \in 1..Len(files[g]) : files[g][m] \in Item
    BY <1>4
  <1>6. \A x \in Item : x.record \in Record
    BY DEF Item
  <1>7. \A n \in 1..Len(queue) : queue[n] \in Record
    BY <1>2
  <1> QED
    BY <1>1, <1>2, <1>3, <1>4, <1>5, <1>6, <1>7

\* The records whose parts are compared are records.
LEMMA RecordParts == \A r \in Record : r.boot \in Nat /\ r.sequence \in Nat
  <1>1. MaxReboots \in Nat
    BY BoundsAssumption
  <1> QED
    BY <1>1 DEF Record

\* Every step keeps what is queued or written within what was queued in this boot.
LEMMA PastStep ==
    ASSUME TypeOK, PlaceInv, NumberInv, PastInv, Next
    PROVE  PastInv'
  <1>1. /\ boot \in Nat /\ lastQueued \in Nat /\ lastQueued' \in Nat /\ queue \in Seq(Record) /\ queue' \in Seq(Record)
        /\ files \in Files /\ files' \in Files /\ stored \subseteq Record /\ stored' \subseteq Record
        /\ Writing => writer.record \in Record
    BY Typed, QueueType, CardType
  <1>2. /\ boot' = boot \/ (PowerCut /\ boot' = boot + 1 /\ queue' = <<>>)
        /\ boot' = boot => lastQueued <= lastQueued'
    BY QueueOrigin
  <1>3. \A n \in 1..Len(queue') : queue'[n].boot = boot' /\ queue'[n].sequence <= lastQueued'
    <2>1. TAKE n \in 1..Len(queue')
    <2>2. boot' = boot
      BY QueueOrigin
    <2>3. CASE \E k \in 1..Len(queue) : queue'[n] = queue[k]
      <3>1. PICK k \in 1..Len(queue) : queue'[n] = queue[k]
        BY <2>3
      <3>2. queue[k].sequence \in Nat
        BY <1>1, RecordParts
      <3> QED
        BY <1>1, <1>2, <2>2, <3>1, <3>2 DEF PastInv
    <2> QED
      BY <2>2, <2>3, QueueOrigin
  <1>4. Writing' => writer'.record.boot = boot' /\ writer'.record.sequence <= lastQueued'
    <2>1. SUFFICES ASSUME Writing' PROVE writer'.record.boot = boot' /\ writer'.record.sequence <= lastQueued'
      OBVIOUS
    <2>2. boot' = boot
      BY <2>1, WriterOrigin
    <2>3. CASE Writing /\ writer'.record = writer.record
      <3>1. writer.record.sequence \in Nat
        BY <1>1, <2>3 DEF Record
      <3> QED
        BY <1>1, <1>2, <2>2, <2>3, <3>1 DEF PastInv
    <2>4. CASE queue # <<>> /\ writer'.record = Head(queue)
      <3>1. Head(queue) = queue[1] /\ 1 \in 1..Len(queue) /\ Head(queue).sequence \in Nat
        BY <1>1, <2>4, QueueSteps DEF Record
      <3> QED
        BY <1>1, <1>2, <2>2, <2>4, <3>1 DEF PastInv
    <2> QED
      BY <2>1, <2>3, <2>4, WriterOrigin
  <1>5. \* a record of the past stays one
        ASSUME NEW r \in Record, r.boot <= boot,
               r.boot = boot => writer.at # "boot" /\ r.sequence <= lastQueued
        PROVE  r.boot <= boot' /\ (r.boot = boot' => writer'.at # "boot" /\ r.sequence <= lastQueued')
    <2>1. r.boot \in Nat /\ r.sequence \in Nat
      BY DEF Record
    <2>2. CASE PowerCut /\ boot' = boot + 1
      BY <1>1, <1>5, <2>1, <2>2
    <2>3. CASE boot' = boot
      <3>1. writer.at # "boot" => writer'.at # "boot"
        <4>1. CASE JournalInit
          BY <4>1 DEF JournalInit
        <4>2. ASSUME NEW p \in Producers, Emit(p) PROVE writer' = writer
          BY <4>2, EmitSteps
        <4>3. CASE WriterStep
          BY <4>3, WriterSteps DEF Takes, Goes, Rests
        <4>4. CASE PowerCut
          BY <1>1, <2>3, <4>4 DEF PowerCut
        <4> QED
          BY <4>1, <4>2, <4>3, <4>4 DEF Next
      <3> QED
        BY <1>1, <1>2, <1>5, <2>1, <2>3, <3>1
    <2> QED
      BY <1>2, <2>2, <2>3
  <1>6. writer.at = "write" => /\ writer.record \in Record /\ writer.record.boot = boot
                               /\ writer.record.sequence <= lastQueued
    BY <1>1 DEF Writing, PastInv
  <1>7. /\ \A r \in stored' : r.boot <= boot'
        /\ \A r \in stored' : r.boot = boot' => writer'.at # "boot" /\ r.sequence <= lastQueued'
    <2>1. ASSUME NEW r \in stored'
          PROVE  r.boot <= boot' /\ (r.boot = boot' => writer'.at # "boot" /\ r.sequence <= lastQueued')
      <3>1. r \in stored \/ (writer.at = "write" /\ r = writer.record)
        BY <2>1, FileOrigin
      <3> QED
        BY <1>1, <1>5, <1>6, <3>1 DEF PastInv
    <2> QED
      BY <2>1
  <1>8. ASSUME NEW g \in Generations, NEW m \in 1..Len(files'[g])
        PROVE  LET r == files'[g][m].record
               IN  r.boot <= boot' /\ (r.boot = boot' => writer'.at # "boot" /\ r.sequence <= lastQueued')
    <2> DEFINE r == files'[g][m].record
    <2>1. CASE \E h \in Generations : \E n \in 1..Len(files[h]) : files'[g][m] = files[h][n]
      <3>1. PICK h \in Generations : \E n \in 1..Len(files[h]) : files'[g][m] = files[h][n]
        BY <2>1
      <3>2. PICK n \in 1..Len(files[h]) : files'[g][m] = files[h][n]
        BY <3>1
      <3>3. files[h][n].record \in Record
        BY <3>2, Typed
      <3> QED
        BY <1>5, <3>2, <3>3 DEF PastInv
    <2>2. CASE writer.at = "write" /\ files'[g][m].record = writer.record
      BY <1>1, <1>5, <1>6, <2>2
    <2> QED
      BY <2>1, <2>2, FileOrigin
  <1> QED
    BY <1>3, <1>4, <1>7, <1>8 DEF PastInv, Writing

\* While nobody was overtaken, card, writer and queue stay one line in order.
LEMMA LineStep ==
    ASSUME TypeOK, PlaceInv, NumberInv, PastInv, LineInv, ~overtaken', Next
    PROVE  LineInv'
  <1>1. /\ boot \in Nat /\ lastQueued \in Nat /\ lastQueued' \in Nat
        /\ queue \in Seq(Record) /\ queue' \in Seq(Record)
        /\ files \in Files /\ files' \in Files /\ stored \subseteq Record /\ stored' \subseteq Record
        /\ Writing => writer.record \in Record
    BY Typed, QueueType, CardType
  <1>2. \* a record that is in line behind another stays so
        ASSUME NEW r \in Record, r.boot <= boot, r.boot = boot => r.sequence <= lastQueued,
               \A n \in 1..Len(queue) : Earlier(r, queue[n])
        PROVE  /\ \A n \in 1..Len(queue') : Earlier(r, queue'[n])
               /\ (Writing => Earlier(r, writer.record)) => (Writing' => Earlier(r, writer'.record))
    <2>0. r.boot \in Nat /\ r.sequence \in Nat
      BY DEF Record
    <2>1. ASSUME NEW n \in 1..Len(queue') PROVE Earlier(r, queue'[n])
      <3>1. queue'[n] \in Record
        BY <1>1
      <3>2. CASE \E k \in 1..Len(queue) : queue'[n] = queue[k]
        BY <1>2, <3>2
      <3>3. CASE queue'[n].boot = boot /\ queue'[n].sequence > lastQueued
        BY <1>1, <1>2, <2>0, <3>1, <3>3 DEF Earlier, Record
      <3> QED
        BY <3>2, <3>3, QueueOrigin
    <2>2. ASSUME Writing => Earlier(r, writer.record), Writing' PROVE Earlier(r, writer'.record)
      <3>1. CASE queue # <<>> /\ writer'.record = Head(queue)
        BY <1>1, <1>2, <3>1, QueueSteps
      <3> QED
        BY <2>2, <3>1, WriterOrigin
    <2> QED
      BY <2>1, <2>2
  <1>3. Writing => /\ writer.record.boot <= boot
                   /\ writer.record.boot = boot => writer.record.sequence <= lastQueued
                   /\ \A n \in 1..Len(queue) : Earlier(writer.record, queue[n])
    BY <1>1 DEF PastInv, LineInv, Earlier
  <1>4. writer.at = "write" /\ (Write \/ PowerCut) => ~Writing'
    <2>1. Write => writer'.at = "count"
      BY DEF Write, Result, TypeOK
    <2>2. PowerCut => writer'.at = "boot"
      BY DEF PowerCut, IdleWriter
    <2> QED
      BY <2>1, <2>2 DEF Writing
  <1>5. ASSUME NEW r \in stored'
        PROVE  /\ \A n \in 1..Len(queue') : Earlier(r, queue'[n])
               /\ Writing' => Earlier(r, writer'.record)
    <2>1. CASE r \in stored
      BY <1>1, <1>2, <2>1 DEF LineInv, PastInv
    <2>2. CASE writer.at = "write" /\ (Write \/ PowerCut) /\ r = writer.record
      BY <1>1, <1>2, <1>3, <1>4, <2>2 DEF Writing
    <2> QED
      BY <2>1, <2>2, FileOrigin
  <1>6. ASSUME NEW g \in Generations, NEW m \in 1..Len(files'[g])
        PROVE  /\ \A n \in 1..Len(queue') : Earlier(files'[g][m].record, queue'[n])
               /\ Writing' => Earlier(files'[g][m].record, writer'.record)
    <2>1. CASE \E h \in Generations : \E n \in 1..Len(files[h]) : files'[g][m] = files[h][n]
      <3>1. PICK h \in Generations : \E n \in 1..Len(files[h]) : files'[g][m] = files[h][n]
        BY <2>1
      <3>2. PICK k \in 1..Len(files[h]) : files'[g][m] = files[h][k]
        BY <3>1
      <3>3. files[h][k].record \in Record
        BY <3>2, Typed
      <3> QED
        BY <1>2, <3>2, <3>3 DEF LineInv, PastInv
    <2>2. CASE writer.at = "write" /\ (Write \/ PowerCut) /\ files'[g][m].record = writer.record
      BY <1>1, <1>2, <1>3, <1>4, <2>2 DEF Writing
    <2> QED
      BY <2>1, <2>2, FileOrigin
  <1>7. ASSUME Writing', NEW n \in 1..Len(queue')
        PROVE  writer'.record.sequence < queue'[n].sequence
    <2>1. CASE Writing /\ writer'.record = writer.record
      <3>1. writer.record.boot = boot /\ writer.record.sequence <= lastQueued
            /\ writer.record.sequence \in Nat /\ queue'[n].sequence \in Nat
        BY <1>1, <1>7, <2>1, RecordParts DEF PastInv
      <3>2. CASE \E k \in 1..Len(queue) : queue'[n] = queue[k]
        BY <2>1, <3>2 DEF LineInv
      <3>3. CASE queue'[n].sequence > lastQueued
        BY <1>1, <2>1, <3>1, <3>3
      <3> QED
        BY <3>2, <3>3, QueueOrigin
    <2>2. CASE queue # <<>> /\ queue' = Tail(queue) /\ writer'.record = Head(queue)
      <3>1. /\ Len(Tail(queue)) = Len(queue) - 1 /\ Head(queue) = queue[1] /\ Len(queue) \in Nat
            /\ \A k \in 1..(Len(queue) - 1) : Tail(queue)[k] = queue[k + 1]
        BY <1>1, <2>2, QueueSteps
      <3>2. n \in 1..(Len(queue) - 1) /\ 1 \in 1..Len(queue) /\ n + 1 \in 1..Len(queue) /\ 1 < n + 1
        BY <1>7, <2>2, <3>1
      <3> QED
        BY <2>2, <3>1, <3>2 DEF LineInv
    <2> QED
      BY <1>7, <2>1, <2>2, WriterOrigin
  <1>8. ASSUME NEW m \in 1..Len(queue'), NEW n \in 1..Len(queue'), m < n
        PROVE  queue'[m].sequence < queue'[n].sequence
    <2>1. CASE queue' = queue
      BY <1>8, <2>1 DEF LineInv
    <2>2. CASE queue # <<>> /\ queue' = Tail(queue)
      <3>1. /\ Len(Tail(queue)) = Len(queue) - 1 /\ Len(queue) \in Nat
            /\ \A k \in 1..(Len(queue) - 1) : Tail(queue)[k] = queue[k + 1]
        BY <1>1, <2>2, QueueSteps
      <3>2. /\ m \in 1..(Len(queue) - 1) /\ n \in 1..(Len(queue) - 1) /\ m + 1 < n + 1
            /\ m + 1 \in 1..Len(queue) /\ n + 1 \in 1..Len(queue)
        BY <1>8, <2>2, <3>1
      <3> QED
        BY <2>2, <3>1, <3>2 DEF LineInv
    <2>3. CASE Len(queue') <= 1
      BY <1>1, <1>8, <2>3
    <2>4. ASSUME NEW r \in Record, queue' = Append(queue, r), r.sequence > lastQueued
          PROVE  queue'[m].sequence < queue'[n].sequence
      <3>1. /\ Len(queue') = Len(queue) + 1 /\ Len(queue) \in Nat
            /\ \A k \in 1..Len(queue) : queue'[k] = queue[k]
            /\ queue'[Len(queue) + 1] = r
        BY <1>1, <2>4, QueueSteps
      <3>2. m \in 1..Len(queue) /\ (n \in 1..Len(queue) \/ n = Len(queue) + 1)
        BY <1>8, <3>1
      <3>3. CASE n \in 1..Len(queue)
        BY <1>8, <3>1, <3>2, <3>3 DEF LineInv
      <3>4. CASE n = Len(queue) + 1
        <4>1. queue[m].sequence \in Nat /\ r.sequence \in Nat /\ queue[m].sequence <= lastQueued
          BY <1>1, <3>2, RecordParts DEF PastInv
        <4> QED
          BY <1>1, <2>4, <3>1, <3>2, <3>4, <4>1
      <3> QED
        BY <3>2, <3>3, <3>4
    <2> QED
      BY <2>1, <2>2, <2>3, <2>4, QueueShape
  <1> QED
    BY <1>5, <1>6, <1>7, <1>8 DEF LineInv, Writing

-----------------------------------------------------------------------------
(* The generations. *)

\* The generation that the rotation is about to fill stays empty.
LEMMA GapStep ==
    ASSUME TypeOK, PlaceInv, GapInv, Next
    PROVE  GapInv'
  <1>1. /\ files \in Files
        /\ writer \in [at : {"boot", "wait", "encode", "unlink", "rename", "write", "count"},
                       record : Record \cup {None}, generation : Generations, ok : BOOLEAN]
    BY DEF TypeOK, Files, Item
  <1>2. CASE writer'.at \notin {"unlink", "rename"}
    BY <1>2 DEF GapInv
  <1>3. CASE JournalInit \/ PowerCut
    BY <1>2, <1>3 DEF JournalInit, PowerCut, IdleWriter
  <1>4. ASSUME NEW p \in Producers, Emit(p) PROVE GapInv'
    BY <1>4, EmitSteps DEF GapInv
  <1>5. \A ok \in BOOLEAN : Result(ok) => writer'.at = "count"
    BY <1>1 DEF Result
  <1>6. CASE Take
    BY <1>1, <1>2, <1>6 DEF Take
  <1>7. CASE Encode
    BY <1>1, <1>2, <1>5, <1>7 DEF Encode, GapInv
  <1>8. CASE Unlink
    <2>1. CASE Result(FALSE)
      BY <1>2, <1>5, <2>1
    <2>2. CASE files' = [files EXCEPT ![writer.generation] = <<>>] /\ writer' = [writer EXCEPT !.at = "rename"]
      <3>1. writer'.at = "rename" /\ writer'.generation = writer.generation
        BY <1>1, <2>2
      <3>2. files'[writer.generation] = <<>>
        BY <1>1, <2>2 DEF Files
      <3> QED
        BY <3>1, <3>2 DEF GapInv
    <2> QED
      BY <1>8, <2>1, <2>2 DEF Unlink
  <1>9. CASE Rename
    <2>1. CASE Result(FALSE)
      BY <1>2, <1>5, <2>1
    <2>2. CASE /\ files' = [files EXCEPT ![writer.generation] = files[writer.generation - 1],
                                        ![writer.generation - 1] = <<>>]
               /\ writer' = [writer EXCEPT !.at = IF writer.generation = 1 THEN "write" ELSE "unlink",
                                           !.generation = writer.generation - 1]
      <3>1. writer.generation - 1 \in Generations
        BY <1>9, GenerationsHave DEF Rename, TypeOK
      <3>2. files'[writer.generation - 1] = <<>>
        BY <1>1, <2>2, <3>1 DEF Files
      <3>3. writer'.at # "rename" /\ writer'.generation = writer.generation - 1
        BY <1>1, <2>2
      <3> QED
        BY <3>2, <3>3 DEF GapInv
    <2> QED
      BY <1>9, <2>1, <2>2 DEF Rename
  <1>10. CASE Write
    BY <1>2, <1>5, <1>10 DEF Write
  <1>11. CASE Count
    BY <1>2, <1>11 DEF Count, IdleWriter
  <1> QED
    BY <1>3, <1>4, <1>6, <1>7, <1>8, <1>9, <1>10, <1>11 DEF Next, WriterStep

\* What FilesGrow, FilesMove and FilesRepaired do to each item.
LEMMA Grown ==
    ASSUME TypeOK, NEW t \in BOOLEAN, FilesGrow(t)
    PROVE  LET x == [record |-> writer.record, torn |-> t]
           IN  /\ \A g \in Generations : g # 0 => files'[g] = files[g]
               /\ Len(files'[0]) = Len(files[0]) + 1 /\ Len(files[0]) \in Nat
               /\ \A m \in 1..Len(files[0]) : files'[0][m] = files[0][m]
               /\ files'[0][Len(files[0]) + 1] = x
               /\ \A m \in 1..Len(files[0]) : m \in 1..Len(files'[0])
               /\ Len(files[0]) + 1 \in 1..Len(files'[0])
               /\ \A m \in 1..Len(files'[0]) : m \in 1..Len(files[0]) \/ m = Len(files[0]) + 1
  <1> DEFINE x == [record |-> writer.record, torn |-> t]
  <1>1. x \in Item
    BY DEF FilesGrow, TypeOK, Item
  <1>2. files' = [files EXCEPT ![0] = @ \o <<x>>]
    BY DEF FilesGrow
  <1> HIDE DEF x
  <1>3. /\ \A g \in Generations : g # 0 => files'[g] = files[g]
        /\ Len(files'[0]) = Len(files[0]) + 1 /\ Len(files[0]) \in Nat
        /\ \A m \in 1..Len(files[0]) : files'[0][m] = files[0][m]
        /\ files'[0][Len(files[0]) + 1] = x
    BY <1>1, <1>2, AppendOne, Typed, GenerationsHave
  <1>4. /\ \A m \in 1..Len(files[0]) : m \in 1..Len(files'[0])
        /\ Len(files[0]) + 1 \in 1..Len(files'[0])
        /\ \A m \in 1..Len(files'[0]) : m \in 1..Len(files[0]) \/ m = Len(files[0]) + 1
    BY <1>3
  <1> QED
    BY <1>3, <1>4, Zenon DEF x

\* A rename moves one generation up, and leaves its place empty.
LEMMA Moved ==
    ASSUME TypeOK, FilesMove
    PROVE  /\ writer.generation \in Generations /\ writer.generation - 1 \in Generations
           /\ writer.generation \in Nat /\ writer.generation > 0
           /\ files'[writer.generation] = files[writer.generation - 1]
           /\ files'[writer.generation - 1] = <<>>
           /\ \A g \in Generations \ {writer.generation, writer.generation - 1} : files'[g] = files[g]
  <1>1. writer.generation \in Generations /\ writer.generation > 0 /\ files \in Files
    BY DEF TypeOK, FilesMove, Rename, Files, Item
  <1>2. writer.generation - 1 \in Generations /\ writer.generation \in Nat
    BY <1>1, GenerationsHave DEF Generations
  <1>3. files' = [files EXCEPT ![writer.generation] = files[writer.generation - 1],
                              ![writer.generation - 1] = <<>>]
    BY DEF FilesMove
  <1> QED
    BY <1>1, <1>2, <1>3 DEF Files

\* The repair changes the active file only.
LEMMA MadeGood ==
    ASSUME TypeOK, FilesRepaired
    PROVE  /\ \A g \in Generations : g # 0 => files'[g] = files[g]
           /\ files'[0] = Repaired(files[0])
  BY Typed, GenerationsHave DEF FilesRepaired, Files

\* While nobody was overtaken, the files stay in order through any rotation.
LEMMA OrderedStep ==
    ASSUME TypeOK, PlaceInv, LineInv, Ordered(files), Next
    PROVE  Ordered(files')
  <1>1. CASE FilesKept
    BY <1>1 DEF FilesKept
  <1>2. ASSUME NEW t \in BOOLEAN, FilesGrow(t) PROVE Ordered(files')
    <2>1. \A g \in Generations : \A m \in 1..Len(files[g]) : Earlier(files[g][m].record, writer.record)
      BY <1>2 DEF FilesGrow, LineInv, Writing
    <2>2. ASSUME NEW g \in Generations, NEW h \in Generations,
                 NEW m \in 1..Len(files'[g]), NEW n \in 1..Len(files'[h]), g > h \/ (g = h /\ m < n)
          PROVE  Earlier(files'[g][m].record, files'[h][n].record)
      <3>1. m \in 1..Len(files[g]) /\ files'[g][m] = files[g][m]
        <4>1. CASE g # 0
          BY <1>2, <2>2, <4>1, Grown
        <4>2. CASE g = 0
          <5>1. g = h /\ m < n
            BY <2>2, <4>2 DEF Generations
          <5>2. m \in 1..Len(files[0])
            <6>1. Len(files'[0]) = Len(files[0]) + 1 /\ Len(files[0]) \in Nat
              BY <1>2, Grown
            <6> QED
              BY <2>2, <4>2, <5>1, <6>1
          <5> QED
            BY <1>2, <4>2, <5>2, Grown
        <4> QED
          BY <4>1, <4>2
      <3>2. \/ n \in 1..Len(files[h]) /\ files'[h][n] = files[h][n]
            \/ files'[h][n] = [record |-> writer.record, torn |-> t]
        BY <1>2, <2>2, Grown DEF Generations
      <3> QED
        BY <2>1, <2>2, <3>1, <3>2 DEF Ordered
    <2> QED
      BY <2>2 DEF Ordered
  <1>3. CASE FilesLoseOne
    <2>1. \A g \in Generations : files'[g] = <<>> \/ files'[g] = files[g]
      BY <1>3, Typed DEF FilesLoseOne, Files
    <2> QED
      BY <2>1 DEF Ordered
  <1>4. CASE FilesMove
    <2>1. ASSUME NEW g \in Generations, NEW h \in Generations,
                 NEW m \in 1..Len(files'[g]), NEW n \in 1..Len(files'[h]), g > h \/ (g = h /\ m < n)
          PROVE  Earlier(files'[g][m].record, files'[h][n].record)
      <3> DEFINE w == writer.generation
                 was(x) == IF x = w THEN w - 1 ELSE x
      <3>1. g # w - 1 /\ h # w - 1
        BY <1>4, <2>1, Moved
      <3>2. files'[g] = files[was(g)] /\ files'[h] = files[was(h)]
            /\ was(g) \in Generations /\ was(h) \in Generations
        BY <1>4, <2>1, <3>1, Moved
      <3>3. was(g) > was(h) \/ (was(g) = was(h) /\ m < n)
        BY <1>4, <2>1, <3>1, Moved DEF Generations
      <3> QED
        BY <2>1, <3>2, <3>3 DEF Ordered
    <2> QED
      BY <2>1 DEF Ordered
  <1>5. CASE FilesRepaired
    <2>1. \A g \in Generations : \A m \in 1..Len(files'[g]) :
             m \in 1..Len(files[g]) /\ files'[g][m] = files[g][m]
      <3>1. \A m \in 1..Len(files'[0]) : m \in 1..Len(files[0]) /\ files'[0][m] = files[0][m]
        BY <1>5, MadeGood, RepairKeeps, Typed, GenerationsHave
      <3>2. \A g \in Generations \ {0} : files'[g] = files[g]
        BY <1>5, MadeGood
      <3> QED
        BY <3>1, <3>2
    <2> QED
      BY <2>1 DEF Ordered
  <1> QED
    BY <1>1, <1>2, <1>3, <1>4, <1>5, FileSteps

\* A part of a record stays the last item of the active file, until the next boot.
LEMMA TornStep ==
    ASSUME TypeOK, PlaceInv, TornInv, ~torn', Next
    PROVE  TornInv'
  <1>1. mounted' = mounted \/ PowerCut
    BY DEF Next, JournalInit, Emit, EmitContended, EmitNumbered, Send, Evict, Resend, PowerCut,
           WriterStep, WriterKeeps, Take, Encode, Unlink, Rename, Write, Count
  <1>2. PowerCut => writer'.at = "boot"
    BY DEF PowerCut, IdleWriter
  <1>3. writer.at = "boot" => JournalInit
    BY EmitSteps, WriterSteps DEF Next, PowerCut
  <1>4. writer.at \in {"unlink", "rename", "write"} =>
            \A g \in Generations : \A m \in 1..Len(files[g]) : ~files[g][m].torn
    BY DEF PlaceInv, TornInv
  <1>5. CASE FilesKept
    <2>1. files' = files /\ (writer.at = "boot" => ~mounted)
      BY <1>5 DEF FilesKept
    <2>2. (writer.at = "boot" \/ ~mounted) => (writer'.at = "boot" \/ ~mounted')
      BY <1>1, <1>2, <2>1
    <2> QED
      BY <2>1, <2>2 DEF TornInv
  <1>6. ASSUME NEW t \in BOOLEAN, FilesGrow(t) PROVE TornInv'
    <2>1. t => writer'.at = "boot"
      BY <1>2, <1>6 DEF FilesGrow
    <2>2. ASSUME NEW g \in Generations, NEW m \in 1..Len(files'[g]), files'[g][m].torn
          PROVE  t /\ g = 0 /\ m = Len(files'[0])
      <3>1. CASE g # 0
        <4>1. files'[g] = files[g]
          BY <1>6, <3>1, Grown
        <4> QED
          BY <1>4, <1>6, <2>2, <4>1 DEF FilesGrow
      <3>2. CASE g = 0 /\ m \in 1..Len(files[0])
        <4>1. files'[g][m] = files[0][m]
          BY <1>6, <3>2, Grown
        <4> QED
          BY <1>4, <1>6, <2>2, <3>2, <4>1 DEF FilesGrow
      <3>3. CASE g = 0 /\ m = Len(files[0]) + 1
        <4>1. files'[g][m] = [record |-> writer.record, torn |-> t] /\ m = Len(files'[0])
          BY <1>6, <3>3, Grown
        <4> QED
          BY <2>2, <3>3, <4>1
      <3>4. g = 0 => m \in 1..Len(files[0]) \/ m = Len(files[0]) + 1
        BY <1>6, <2>2, Grown
      <3> QED
        BY <3>1, <3>2, <3>3, <3>4
    <2> QED
      BY <2>1, <2>2 DEF TornInv
  <1>7. CASE FilesLoseOne
    <2>1. \A g \in Generations : files'[g] = <<>> \/ files'[g] = files[g]
      BY <1>7, Typed DEF FilesLoseOne, Files
    <2>2. writer.at = "unlink"
      BY <1>7 DEF FilesLoseOne, Unlink
    <2>3. \A g \in Generations : \A m \in 1..Len(files'[g]) : ~files'[g][m].torn
      BY <1>4, <2>1, <2>2
    <2> QED
      BY <2>3 DEF TornInv
  <1>8. CASE FilesMove
    <2>1. \A g \in Generations : files'[g] = <<>> \/ \E h \in Generations : files'[g] = files[h]
      BY <1>8, Moved
    <2>2. writer.at = "rename"
      BY <1>8 DEF FilesMove, Rename
    <2>3. \A g \in Generations : \A m \in 1..Len(files'[g]) : ~files'[g][m].torn
      BY <1>4, <2>1, <2>2
    <2> QED
      BY <2>3 DEF TornInv
  <1>9. CASE FilesRepaired
    <2>1. ASSUME NEW g \in Generations, NEW m \in 1..Len(files'[g]) PROVE ~files'[g][m].torn
      <3>1. CASE g # 0
        BY <1>9, <2>1, <3>1, MadeGood DEF TornInv
      <3>2. CASE g = 0
        <4> DEFINE f == files[0]
        <4>1. f \in Seq(Item) /\ Len(f) \in Nat /\ files'[0] = Repaired(f)
          BY <1>9, MadeGood, Typed, GenerationsHave
        <4>2. \A k \in 1..Len(f) : f[k].torn => k = Len(f)
          BY GenerationsHave DEF TornInv
        <4> HIDE DEF f
        <4>3. /\ Len(Repaired(f)) <= Len(f) /\ m \in 1..Len(Repaired(f)) /\ m \in 1..Len(f)
              /\ Repaired(f)[m] = f[m] /\ Repaired(f) # <<>> /\ ~f[Len(Repaired(f))].torn
              /\ Len(Repaired(f)) \in Nat
          <5>1. m \in 1..Len(Repaired(f)) /\ Repaired(f) \in Seq(Item) /\ Len(Repaired(f)) \in Nat
            BY <2>1, <3>2, <4>1, RepairKeeps
          <5>2. Repaired(f) # <<>>
            BY <5>1
          <5> QED
            BY <4>1, <5>1, <5>2, RepairKeeps
        <4> QED
          BY <3>2, <4>1, <4>2, <4>3
      <3> QED
        BY <3>1, <3>2
    <2> QED
      BY <2>1 DEF TornInv
  <1> QED
    BY <1>5, <1>6, <1>7, <1>8, <1>9, FileSteps

\* What goes from the card is older than all that stays.
LEMMA LostStep ==
    ASSUME TypeOK, PlaceInv, GapInv, LineInv, Ordered(files), LostInv, Next
    PROVE  LostInv'
  <1>1. CASE FilesKept
    BY <1>1 DEF FilesKept, LostInv, OnCard, Outlived
  <1>2. ASSUME NEW t \in BOOLEAN, FilesGrow(t) PROVE LostInv'
    <2>1. \A b \in stored : Earlier(b, writer.record)
      BY <1>2 DEF FilesGrow, LineInv, Writing
    <2>2. \A b : OnCard(b) => OnCard(b)'
      <3>1. ASSUME NEW b, NEW g \in Generations, NEW m \in 1..Len(files[g]), files[g][m] = Whole(b)
            PROVE  m \in 1..Len(files'[g]) /\ files'[g][m] = Whole(b)
        <4>1. CASE g # 0
          BY <1>2, <3>1, <4>1, Grown
        <4>2. CASE g = 0
          BY <1>2, <3>1, <4>2, Grown
        <4> QED
          BY <4>1, <4>2
      <3> QED
        BY <3>1 DEF OnCard
    <2>3. \A b \in stored : Outlived(b) => Outlived(b)'
      <3>1. ASSUME NEW b \in stored, Outlived(b), NEW g \in Generations, NEW m \in 1..Len(files'[g])
            PROVE  Earlier(b, files'[g][m].record)
        <4>1. \/ m \in 1..Len(files[g]) /\ files'[g][m] = files[g][m]
              \/ files'[g][m] = [record |-> writer.record, torn |-> t]
          <5>1. CASE g # 0
            BY <1>2, <3>1, <5>1, Grown
          <5>2. CASE g = 0
            BY <1>2, <3>1, <5>2, Grown
          <5> QED
            BY <5>1, <5>2
        <4> QED
          BY <2>1, <3>1, <4>1 DEF Outlived
      <3> QED
        BY <3>1 DEF Outlived
    <2>4. ~t => \A b : b = writer.record => OnCard(b)'
      <3>1. SUFFICES ASSUME ~t, NEW b, b = writer.record
                     PROVE  \E g \in Generations : \E m \in 1..Len(files'[g]) : files'[g][m] = Whole(b)
        BY DEF OnCard
      <3>2. files'[0][Len(files[0]) + 1] = [record |-> writer.record, torn |-> t]
            /\ Len(files[0]) + 1 \in 1..Len(files'[0])
        BY <1>2, Grown
      <3>3. Whole(b) = [record |-> writer.record, torn |-> t]
        BY <3>1 DEF Whole
      <3> QED
        BY <3>2, <3>3, GenerationsHave
    <2>5. \A b \in stored' : b \in stored \/ (~t /\ b = writer.record)
      BY <1>2 DEF FilesGrow
    <2> QED
      BY <2>2, <2>3, <2>4, <2>5 DEF LostInv
  <1>3. CASE FilesLoseOne
    <2> DEFINE w == writer.generation
    <2>1. w \in Generations /\ files'[w] = <<>> /\ \A g \in Generations \ {w} : files'[g] = files[g]
      BY <1>3, Typed DEF FilesLoseOne, Files, TypeOK
    <2>2. w # FirstGeneration => files[w] = <<>>
      BY <1>3 DEF FilesLoseOne, Unlink, GapInv
    <2>3. \A b \in stored : Outlived(b) => Outlived(b)'
      BY <2>1 DEF Outlived
    <2>4. ASSUME NEW b \in stored, OnCard(b) PROVE OnCard(b)' \/ Outlived(b)'
      <3>1. PICK g \in Generations : \E m \in 1..Len(files[g]) : files[g][m] = Whole(b)
        BY <2>4 DEF OnCard
      <3>2. PICK m \in 1..Len(files[g]) : files[g][m] = Whole(b)
        BY <3>1
      <3>3. CASE g # w
        BY <2>1, <3>2, <3>3 DEF OnCard
      <3>4. CASE g = w
        <4>1. w = FirstGeneration
          BY <2>2, <3>2, <3>4
        <4>2. files[g][m].record = b
          BY <3>2 DEF Whole
        <4>3. \A h \in Generations \ {w} : w > h
          BY <4>1, SizesAssumption DEF FirstGeneration, Generations
        <4>4. \A h \in Generations \ {w} : \A n \in 1..Len(files[h]) : Earlier(b, files[h][n].record)
          BY <3>2, <3>4, <4>2, <4>3 DEF Ordered
        <4> QED
          BY <2>1, <4>4 DEF Outlived
      <3> QED
        BY <3>3, <3>4
    <2> QED
      BY <1>3, <2>3, <2>4 DEF LostInv, FilesLoseOne
  <1>4. CASE FilesMove
    <2> DEFINE w == writer.generation
    <2>1. files[w] = <<>>
      BY <1>4 DEF FilesMove, Rename, GapInv
    <2>2. \A g \in Generations : files[g] # <<>> => \E h \in Generations : files'[h] = files[g]
      BY <1>4, <2>1, Moved
    <2>3. \A g \in Generations : files'[g] # <<>> => \E h \in Generations : files'[g] = files[h]
      BY <1>4, Moved
    <2>4. \A b : OnCard(b) => OnCard(b)'
      BY <2>2 DEF OnCard
    <2>5. \A b : Outlived(b) => Outlived(b)'
      BY <2>3 DEF Outlived
    <2> QED
      BY <1>4, <2>4, <2>5 DEF LostInv, FilesMove
  <1>5. CASE FilesRepaired
    <2>1. /\ \A m \in 1..Len(files'[0]) : m \in 1..Len(files[0]) /\ files'[0][m] = files[0][m]
          /\ \A m \in 1..Len(files[0]) : ~files[0][m].torn => m \in 1..Len(files'[0])
      <3>1. files[0] \in Seq(Item) /\ files'[0] = Repaired(files[0])
        BY <1>5, MadeGood, Typed, GenerationsHave
      <3>2. Len(Repaired(files[0])) \in Nat
        BY <3>1, RepairKeeps
      <3> QED
        BY <3>1, <3>2, RepairKeeps
    <2>2. \A g \in Generations \ {0} : files'[g] = files[g]
      BY <1>5, MadeGood
    <2>3. \A b : OnCard(b) => OnCard(b)'
      <3>1. \A b : ~Whole(b).torn
        BY DEF Whole
      <3> QED
        BY <2>1, <2>2, <3>1 DEF OnCard
    <2>4. \A b : Outlived(b) => Outlived(b)'
      BY <2>1, <2>2 DEF Outlived
    <2> QED
      BY <1>5, <2>3, <2>4 DEF LostInv, FilesRepaired
  <1> QED
    BY <1>1, <1>2, <1>3, <1>4, <1>5, FileSteps

-----------------------------------------------------------------------------
(* The theorems. *)

\* The invariant holds at first.
LEMMA InitInv == Init => IInv
  <1> SUFFICES ASSUME Init PROVE IInv
    OBVIOUS
  <1>1. 0 \in 0..MaxReboots /\ 0 \in 0..MaxFaults /\ Depth \in Nat
    BY BoundsAssumption, SizesAssumption
  <1>2. /\ queue = <<>> /\ queue \in Seq(Record) /\ Len(queue) = 0
        /\ \A g \in Generations : files[g] = <<>> /\ Len(files[g]) = 0
    BY DEF Init
  <1>3. files \in [Generations -> Seq(Item)]
    <2>1. <<>> \in Seq(Item)
      OBVIOUS
    <2> QED
      BY <2>1 DEF Init
  <1>4. InHand = 0
    BY BusyNone DEF Init, InHand, Busy, IdleWriter
  <1>5. calls = Len(queue) + InHand + dropped + written + failures
    BY <1>2, <1>4 DEF Init
  <1>6. /\ emit \in [Producers -> [at : {"idle", "send", "evict", "resend"}, record : Record \cup {None}]]
        /\ \A p \in Producers : emit[p].at = "idle" /\ emit[p].record = None
    BY DEF Init, IdleEmit
  <1>7. /\ writer \in [at : {"boot", "wait", "encode", "unlink", "rename", "write", "count"},
                       record : Record \cup {None}, generation : Generations, ok : BOOLEAN]
        /\ writer.at = "boot"
    BY GenerationsHave DEF Init, IdleWriter
  <1>8. TypeOK
    <2>1. nextSequence = 0 /\ lastQueued = 0 /\ mounted \in BOOLEAN /\ boot = 0 /\ faults = 0
          /\ stored = {} /\ overtaken = FALSE /\ torn = FALSE
          /\ dropped = 0 /\ written = 0 /\ failures = 0 /\ calls = 0
      BY DEF Init
    <2>2. /\ nextSequence \in Nat /\ lastQueued \in 0..nextSequence /\ Len(queue) <= Depth
          /\ \A c \in {dropped, written, failures, calls} : c \in Nat
      BY <1>1, <1>2, <2>1
    <2>3. /\ \A p \in Producers : emit[p].at # "idle" => emit[p].record \in Record
          /\ writer.at \in {"encode", "unlink", "rename", "write", "count"} => writer.record \in Record
          /\ writer.at \in {"unlink", "rename"} => writer.generation > 0
      BY <1>6, <1>7
    <2>4. stored \subseteq Record /\ {overtaken, torn} \subseteq BOOLEAN
      BY <2>1
    <2> QED
      BY <1>1, <1>2, <1>3, <1>5, <1>6, <1>7, <2>1, <2>2, <2>3, <2>4 DEF TypeOK, Item
  <1>9. PlaceInv /\ NumberInv
    BY <1>2, <1>6, <1>7 DEF PlaceInv, NumberInv, Active, Init
  <1>10. ~Writing /\ stored = {}
    BY <1>7 DEF Init, Writing
  <1>11. PastInv /\ LineInv
    BY <1>2, <1>10 DEF PastInv, LineInv
  <1>12. GapInv /\ TornInv /\ Ordered(files)
    BY <1>2, <1>7 DEF GapInv, TornInv, Ordered
  <1>13. LostInv
    BY <1>10 DEF LostInv
  <1> QED
    BY <1>8, <1>9, <1>11, <1>12, <1>13 DEF IInv

\* An exception, once noted, is not forgotten.
LEMMA HistoryStays ==
    ASSUME TypeOK, Next
    PROVE  (overtaken => overtaken') /\ (torn => torn')
  <1>1. overtaken => overtaken'
    BY DEF Next, JournalInit, Emit, EmitContended, EmitNumbered, Send, Evict, Resend, PowerCut,
           WriterStep, WriterKeeps, Take, Encode, Unlink, Rename, Write, Count, history, Queued, Dropped
  <1>2. torn => torn'
    BY DEF Next, JournalInit, Emit, EmitContended, EmitNumbered, Send, Evict, Resend, PowerCut,
           WriterStep, WriterKeeps, Take, Encode, Unlink, Rename, Write, Count, history
  <1> QED
    BY <1>1, <1>2

\* Every step keeps the invariant.
LEMMA NextInv == IInv /\ Next => IInv'
  <1> SUFFICES ASSUME IInv, Next PROVE IInv'
    OBVIOUS
  <1>1. TypeOK /\ PlaceInv /\ NumberInv /\ PastInv /\ GapInv
    BY DEF IInv
  <1>2. (overtaken => overtaken') /\ (torn => torn')
    BY <1>1, HistoryStays
  <1>3. TypeOK' /\ PlaceInv' /\ NumberInv' /\ PastInv' /\ GapInv'
    BY <1>1, TypeStep, PlaceStep, NumberStep, PastStep, GapStep
  <1>4. ~torn' => TornInv'
    BY <1>1, <1>2, TornStep DEF IInv
  <1>5. ~overtaken' => LineInv' /\ Ordered(files)'
    BY <1>1, <1>2, LineStep, OrderedStep DEF IInv
  <1>6. ~overtaken' /\ ~torn' => LostInv'
    BY <1>1, <1>2, LostStep DEF IInv
  <1> QED
    BY <1>3, <1>4, <1>5, <1>6 DEF IInv

\* So does a step in which nothing happens.
LEMMA StutterInv == IInv /\ UNCHANGED vars => IInv'
  <1> USE DEF vars, memory, counters, history
  <1>1. TypeOK /\ UNCHANGED vars => TypeOK'
    BY DEF TypeOK, InHand
  <1>2. PlaceInv /\ NumberInv /\ UNCHANGED vars => PlaceInv' /\ NumberInv'
    BY DEF PlaceInv, NumberInv, Active
  <1>3. PastInv /\ UNCHANGED vars => PastInv'
    BY DEF PastInv, Writing
  <1>4. LineInv /\ UNCHANGED vars => LineInv'
    BY DEF LineInv, Writing, Earlier
  <1>5. GapInv /\ UNCHANGED vars => GapInv'
    BY DEF GapInv
  <1>6. TornInv /\ UNCHANGED vars => TornInv'
    BY DEF TornInv
  <1>7. LostInv /\ UNCHANGED vars => LostInv'
    BY DEF LostInv, OnCard, Outlived
  <1>8. Ordered(files) /\ UNCHANGED vars => Ordered(files)'
    BY DEF Ordered
  <1> QED
    BY <1>1, <1>2, <1>3, <1>4, <1>5, <1>6, <1>7, <1>8 DEF IInv

\* The inductive invariant holds in every reachable state: types, the numbers in hand, the
\* line of records from the card to the queue, and what may be missing from it.
THEOREM Invariance == Spec => []IInv
  <1>1. IInv /\ [Next]_vars => IInv'
    BY NextInv, StutterInv
  <1> QED
    BY <1>1, InitInv, PTL DEF Spec

\* Whatever happens, every event of this boot is queued, in hand or counted, once.
THEOREM TypeCorrect == Spec => []TypeOK
  <1>1. IInv => TypeOK
    BY DEF IInv
  <1> QED
    BY <1>1, Invariance, PTL

\* Whatever step power is cut at, and however rotations fail, the host's report reads
\* the files, unless a failed write left a part, and has their records in order, unless
\* a producer was overtaken between its number and the queue.
THEOREM ReportReads == Spec => []ReportAccepts
  <1>1. IInv => ReportAccepts
    <2> SUFFICES ASSUME IInv PROVE ReportAccepts
      OBVIOUS
    <2>1. FilesParse
      BY DEF IInv, TornInv, FilesParse
    <2>2. OrderKept
      <3> SUFFICES ASSUME ~overtaken PROVE ReportOrder
        BY DEF OrderKept
      <3>1. Ordered(files) /\ TypeOK
        BY DEF IInv
      <3>2. ASSUME NEW g \in Generations, NEW h \in Generations,
                   NEW m \in 1..Len(files[g]), NEW n \in 1..Len(files[h]),
                   g > h \/ (g = h /\ m < n), files[g][m].record.boot = files[h][n].record.boot
            PROVE  files[g][m].record.sequence < files[h][n].record.sequence
        <4>1. Earlier(files[g][m].record, files[h][n].record)
          BY <3>1, <3>2 DEF Ordered
        <4>2. files[g][m].record.boot \in Nat
          BY <3>1, <3>2, Typed, RecordParts
        <4> QED
          BY <3>2, <4>1, <4>2 DEF Earlier
      <3> QED
        BY <3>2 DEF ReportOrder
    <2> QED
      BY <2>1, <2>2 DEF ReportAccepts
  <1> QED
    BY <1>1, Invariance, PTL

\* The card keeps the latest records, for any size and number of the files.
THEOREM LatestStay == Spec => []OldestGoFirst
  <1>1. IInv => OldestGoFirst
    <2> SUFFICES ASSUME IInv, ~overtaken, ~torn, NEW a \in Readable, NEW b \in stored, Earlier(a, b)
                 PROVE  b \in Readable
      BY DEF OldestGoFirst
    <2>1. TypeOK /\ TornInv /\ LostInv
      BY DEF IInv
    <2>2. PICK g \in Generations : \E n \in 1..Len(files[g]) : files[g][n].record = a
      BY DEF Readable
    <2>3. PICK n \in 1..Len(files[g]) : files[g][n].record = a
      BY <2>2
    <2>4. a \in Record /\ b \in Record
      BY <2>1, <2>3, Typed
    <2>5. ~Earlier(b, a)
      BY <2>4, RecordParts DEF Earlier
    <2>6. OnCard(b)
      BY <2>1, <2>3, <2>5 DEF LostInv, Outlived
    <2>7. PICK h \in Generations : \E m \in 1..Len(files[h]) : files[h][m] = Whole(b)
      BY <2>6 DEF OnCard
    <2>8. PICK m \in 1..Len(files[h]) : files[h][m] = Whole(b)
      BY <2>7
    <2>9. files[h][m].record = b /\ ~files[h][m].torn
      BY <2>8 DEF Whole
    <2>10. m # 1 => ~files[h][m - 1].torn
      <3>1. m # 1 => m - 1 \in 1..Len(files[h]) /\ m - 1 # Len(files[h])
        BY <2>1, <2>8, Typed
      <3> QED
        BY <2>1, <3>1 DEF TornInv
    <2>11. IsLine(files[h], m)
      BY <2>9, <2>10 DEF IsLine
    <2> QED
      BY <2>8, <2>9, <2>11 DEF Readable
  <1> QED
    BY <1>1, Invariance, PTL

\* No critical event that is on its way is dropped, but for another critical one or
\* for the slot that was freed for it.
THEOREM CriticalStay == Spec => CriticalKept
  <1>1. IInv /\ [Next]_vars =>
           [\A r \in OnItsWay \ {None} : r.critical /\ boot' = boot =>
              \/ r \in OnItsWay' \/ writer'.record = r
              \/ \E p \in Producers : emit'[p].at = "resend" /\ emit'[p].record.critical
              \/ \E p \in Producers : emit[p].record = r /\ emit[p].at \in {"evict", "resend"}]_vars
    <2> DEFINE Kept(r) ==
                   \/ r \in OnItsWay' \/ writer'.record = r
                   \/ \E p \in Producers : emit'[p].at = "resend" /\ emit'[p].record.critical
                   \/ \E p \in Producers : emit[p].record = r /\ emit[p].at \in {"evict", "resend"}
    <2>1. SUFFICES ASSUME IInv, Next, NEW r \in OnItsWay, r # None, r.critical, boot' = boot
                   PROVE  Kept(r)
      BY DEF vars, memory, OnItsWay
    <2> HIDE DEF Kept
    <2>2. TypeOK /\ PlaceInv /\ queue \in Seq(Record) /\ queue' \in Seq(Record)
      BY <2>1, NextInv DEF IInv, TypeOK
    <2>3. (\E n \in 1..Len(queue) : r = queue[n]) \/ (\E p \in Producers : Active(p) /\ r = emit[p].record)
      BY <2>1, <2>2 DEF OnItsWay, PlaceInv
    <2>4. \A n \in 1..Len(queue') : r = queue'[n] => Kept(r)
      BY DEF Kept, OnItsWay
    <2>5. \A p \in Producers : r = emit'[p].record => Kept(r)
      BY DEF Kept, OnItsWay
    <2>6. ~JournalInit /\ ~PowerCut
      <3>1. ~JournalInit
        BY <2>2, <2>3 DEF JournalInit, PlaceInv
      <3>2. ~PowerCut
        BY <2>1, <2>2 DEF PowerCut, TypeOK
      <3> QED
        BY <3>1, <3>2
    <2>7. \* an event in the queue but the first stays when the first is taken
          ASSUME queue # <<>>, queue' = Tail(queue), NEW n \in 1..Len(queue), r = queue[n], n # 1
          PROVE  Kept(r)
      <3>1. /\ Len(queue') = Len(queue) - 1 /\ Len(queue) \in Nat
            /\ \A k \in 1..(Len(queue) - 1) : queue'[k] = queue[k + 1]
        BY <2>2, <2>7, QueueSteps
      <3>2. n - 1 \in 1..(Len(queue) - 1) /\ (n - 1) + 1 = n
        BY <2>7, <3>1
      <3> QED
        BY <2>4, <2>7, <3>1, <3>2
    <2>8. CASE WriterStep
      <3>1. emit' = emit /\ (Takes \/ UNCHANGED queue)
        BY <2>2, <2>8, WriterSteps DEF Goes, Rests
      <3>2. CASE Takes
        <4>1. Head(queue) = queue[1]
          BY <2>2, <3>2, QueueSteps DEF Takes
        <4>2. r = queue[1] => Kept(r)
          BY <3>2, <4>1 DEF Takes, Kept
        <4> QED
          BY <2>3, <2>5, <2>7, <3>1, <3>2, <4>2 DEF Takes
      <3> QED
        BY <2>3, <2>4, <2>5, <3>1, <3>2
    <2>9. ASSUME NEW p \in Producers, Emit(p) PROVE Kept(r)
      <3>1. /\ \A q \in Producers \ {p} : emit'[q] = emit[q]
            /\ \/ UNCHANGED <<emit, nextSequence, queue, lastQueued, overtaken>>
               \/ Draws(p) \/ Leaves(p) \/ Presses(p)
        BY <2>2, <2>9, EmitSteps
      <3>2. \A q \in Producers \ {p} : r = emit[q].record => Kept(r)
        BY <2>5, <3>1
      <3>3. CASE UNCHANGED <<emit, queue>>
        BY <2>3, <2>4, <2>5, <3>3
      <3>4. CASE Draws(p)
        BY <2>3, <2>4, <3>2, <3>4 DEF Draws, Active
      <3>5. CASE Leaves(p) /\ Queued(p)
        <4>1. emit[p].record \in Record
          BY <2>2, <3>5 DEF Leaves, Active, TypeOK
        <4>2. /\ Len(queue') = Len(queue) + 1 /\ Len(queue) \in Nat
              /\ \A n \in 1..Len(queue) : queue'[n] = queue[n]
              /\ queue'[Len(queue) + 1] = emit[p].record
          BY <2>2, <3>5, <4>1, QueueSteps DEF Queued
        <4>3. Len(queue) + 1 \in 1..Len(queue') /\ \A n \in 1..Len(queue) : n \in 1..Len(queue')
          BY <4>2
        <4>4. r = emit[p].record => Kept(r)
          BY <2>4, <4>2, <4>3
        <4>5. \A n \in 1..Len(queue) : r = queue[n] => Kept(r)
          BY <2>4, <4>2, <4>3
        <4> QED
          BY <2>3, <3>2, <4>4, <4>5
      <3>6. CASE /\ Leaves(p) /\ UNCHANGED queue
                 /\ emit[p].at = "send" => ~emit[p].record.critical
        <4>1. r = emit[p].record => Kept(r)
          BY <2>1, <2>2, <3>6 DEF Leaves, Active, Kept, TypeOK
        <4> QED
          BY <2>3, <2>4, <3>2, <3>6, <4>1
      <3>7. CASE Presses(p)
        <4>1. r = emit[p].record => Kept(r)
          BY <2>5, <3>7 DEF Presses
        <4>2. CASE UNCHANGED queue
          BY <2>3, <2>4, <3>2, <4>1, <4>2
        <4>3. CASE queue # <<>> /\ queue' = Tail(queue) /\ emit'[p].at = "resend"
          <5>1. Kept(r)
            BY <3>7, <4>3 DEF Presses, Kept
          <5> QED
            BY <5>1
        <4> QED
          BY <3>7, <4>2, <4>3 DEF Presses
      <3> QED
        BY <3>1, <3>3, <3>4, <3>5, <3>6, <3>7 DEF Leaves
    <2> QED
      BY <2>1, <2>6, <2>8, <2>9 DEF Next
  <1> QED
    BY <1>1, Invariance, PTL DEF Spec, CriticalKept
=============================================================================
