------------------------- MODULE DatalogSpoolProofs -------------------------
(***************************************************************************)
(* For any rows, budget, cap, number of power cuts and set of faults, the  *)
(* spool of main/datalog.c loses no accepted row, replays in order and     *)
(* reads rows unaltered from every file that is not spoilt.                *)
(***************************************************************************)
EXTENDS DatalogSpool, TLAPS, SequenceTheorems, FiniteSetTheorems

CellType == [row : Rows, eol : BOOLEAN]

\* A place between two lines of the file f.
Boundary(f, c) == c \in 0..Len(f) /\ (c = 0 \/ f[c].eol)

\* f is a sequence of whole rows, each its two cells.
Whole(f) ==
    \A i \in 1..Len(f) :
        IF f[i].eol
        THEN i > 1 /\ ~f[i - 1].eol /\ f[i - 1].row = f[i].row
        ELSE i < Len(f) /\ f[i + 1].eol /\ f[i + 1].row = f[i].row

\* The rows of f up to offset c are in D.
Acked(f, c, D) == \A i \in 1..Len(f) : i <= c => f[i].row \in D

\* A cursor that may be replayed from.
Sound(c) == Boundary(file, c) /\ Acked(file, c, delivered)

\* Once they are loaded, s_spool_cursor is sound, and s_spool_size is what the
\* file holds unless unlink or stat failed.
RamInv == size # Unloaded => Sound(cursor) /\ (damage = {} => size = Len(file))

\* So is bms.cursor, unless it belongs to a file that is gone; and while that
\* is all a boot will find, there is no new file for it to be applied to.
DiskInv ==
    /\ ~staleCursor => Sound(diskCursor)
    /\ size = Unloaded /\ staleCursor => file = <<>>

\* No accepted row disappears from the file undelivered, spoilt or not.
KeptInv ==
    \A r \in accepted :
       \/ r \in delivered \union forfeited
       \/ \E i \in 1..Len(file) : file[i].row = r

\* What the task holds at each place of its loop; the spool is reset when it is
\* over its cap, or drained as far as s_spool_size goes.
LoopInv ==
    /\ pc \in {"append_write", "send", "close", "unlink", "save", "save_write"}
          => size # Unloaded
    /\ \/ pc \in {"publish", "append", "append_write"}
       \/ pc \in {"unlink", "save", "save_write"} /\ ret = "append_write"
       => row \in Rows
    /\ pc = "send" => budget > 0
    /\ advanced => pc \in {"send", "close"}
    /\ pc = "unlink" /\ ret = "receive" => cursor >= size

\* The files, until something spoils them.
Unspoilt == Whole(file) /\ RamInv /\ DiskInv

\* The inductive invariant.
IInv == TypeOK /\ LoopInv /\ KeptInv /\ (~Spoilt => Unspoilt)

-----------------------------------------------------------------------------
(* Appending to the file. *)

\* What a file looks like after a row was appended to it.
LEMMA AppendRow ==
    ASSUME NEW f \in Seq(CellType), NEW r \in Rows
    PROVE  /\ f \o RowCells(r) \in Seq(CellType)
           /\ Len(f) \in Nat
           /\ Len(f \o RowCells(r)) = Len(f) + 2
           /\ \A i \in 1..Len(f) : (f \o RowCells(r))[i] = f[i]
           /\ (f \o RowCells(r))[Len(f) + 1] = Cell(r, FALSE)
           /\ (f \o RowCells(r))[Len(f) + 2] = Cell(r, TRUE)
  <1> DEFINE cells == RowCells(r)
  <1>1. cells \in Seq(CellType) /\ Len(cells) = 2
    BY DEF RowCells, Cell, CellType
  <1>2. cells[1] = Cell(r, FALSE) /\ cells[2] = Cell(r, TRUE)
    BY DEF RowCells
  <1>3. Len(f) \in Nat
    BY LenProperties
  <1> HIDE DEF cells
  <1>4. /\ f \o cells \in Seq(CellType)
        /\ Len(f \o cells) = Len(f) + 2
        /\ \A i \in 1..(Len(f) + 2) :
              (f \o cells)[i] = IF i <= Len(f) THEN f[i] ELSE cells[i - Len(f)]
    <2>1. /\ f \o cells \in Seq(CellType)
          /\ Len(f \o cells) = Len(f) + Len(cells)
          /\ \A i \in 1..(Len(f) + Len(cells)) :
                (f \o cells)[i] = IF i <= Len(f) THEN f[i] ELSE cells[i - Len(f)]
      BY <1>1, ConcatProperties, Zenon
    <2>2. Len(f) + Len(cells) = Len(f) + 2
      BY <1>1
    <2> QED
      BY <2>1, <2>2, Zenon
  <1>5. Len(f) + 1 - Len(f) = 1 /\ Len(f) + 2 - Len(f) = 2
    BY <1>3
  <1>6. /\ (f \o cells)[Len(f) + 1] = cells[1]
        /\ (f \o cells)[Len(f) + 2] = cells[2]
    BY <1>3, <1>4, <1>5
  <1>7. \A i \in 1..Len(f) : (f \o cells)[i] = f[i]
    BY <1>3, <1>4
  <1> QED
    BY <1>2, <1>3, <1>4, <1>6, <1>7 DEF cells

\* Whatever part of a row reaches the card, the file remains a sequence of cells.
LEMMA AppendPart ==
    ASSUME NEW f \in Seq(CellType), NEW r \in Rows, NEW part \in PartialWrites(r)
    PROVE  f \o part \in Seq(CellType)
  <1>1. <<>> \in Seq(CellType) /\ <<Cell(r, FALSE)>> \in Seq(CellType)
    BY DEF Cell, CellType
  <1>2. RowCells(r) \in Seq(CellType)
    BY DEF RowCells, Cell, CellType
  <1>3. part \in Seq(CellType)
    BY <1>1, <1>2 DEF PartialWrites
  <1> QED
    BY <1>3, ConcatProperties

\* The write that power interrupts is empty or a part of the row being written.
LEMMA CutPart ==
    ASSUME TypeOK, LoopInv, NEW part \in CutWrites
    PROVE  part = <<>> \/ (pc = "append_write" /\ row \in Rows /\ part \in PartialWrites(row))
  BY DEF CutWrites, LoopInv, PartialWrites

-----------------------------------------------------------------------------
(* Types. *)

\* spool_load_state leaves numbers, whatever it can read.
LEMMA LoadType ==
    ASSUME TypeOK, Load
    PROVE  /\ size' \in Nat \union {Unloaded} /\ cursor' \in Nat
           /\ damage' \subseteq FileDamage \union SizeDamage
           /\ size # Unloaded => size' = size
           /\ size' # size => size = Unloaded /\ size' \in Nat
  <1>1. Len(file) \in Nat /\ diskCursor \in Nat
    <2>1. file \in Seq(CellType)
      BY DEF TypeOK, CellType
    <2> QED
      BY <2>1, LenProperties DEF TypeOK
  <1>2. CASE MustLoad
    <2>1. size' \in Nat /\ size = Unloaded
      BY <1>1, <1>2 DEF Load, OrZero, MustLoad
    <2>2. PICK c \in OrZero(diskCursor) : cursor' = Lesser(c, size')
      BY <1>2 DEF Load
    <2>3. cursor' \in Nat
      BY <1>1, <2>1, <2>2 DEF OrZero, Lesser
    <2>4. damage' \subseteq FileDamage \union SizeDamage
      BY <1>2 DEF Load, TypeOK, SizeDamage
    <2> QED
      BY <2>1, <2>3, <2>4
  <1>3. CASE ~MustLoad
    BY <1>3 DEF Load, TypeOK
  <1> QED
    BY <1>2, <1>3

\* Every step keeps every variable in its type.
LEMMA TypeStep ==
    ASSUME TypeOK, LoopInv, [Next]_vars
    PROVE  TypeOK'
  <1> USE BudgetAssumption, RowsAssumption
  <1>0. file \in Seq(CellType) /\ Len(file) \in Nat
    BY LenProperties DEF TypeOK, CellType
  <1>b. Load => /\ size' \in Nat \union {Unloaded} /\ cursor' \in Nat
                /\ damage' \subseteq FileDamage \union SizeDamage
    BY LoadType
  <1>c. \A i \in 1..Len(file) : file[i].row \in Rows
    <2>1. \A i \in 1..Len(file) : file[i] \in CellType
      BY <1>0, ElementOfSeq
    <2> QED
      BY <2>1 DEF CellType
  <1>1. ASSUME NEW r \in Rows, ReceiveRow(r) PROVE TypeOK'
    BY <1>1 DEF TypeOK, ReceiveRow, disk, Locations
  <1>2. CASE ReceiveTimeout
    BY <1>2 DEF TypeOK, ReceiveTimeout, disk, history, Locations
  <1>3. CASE PublishLive
    BY <1>3 DEF TypeOK, LoopInv, PublishLive, PublishAcked, PublishFailed, disk, Locations, NoRow
  <1>4. CASE AppendBegin
    BY <1>4, <1>b DEF TypeOK, AppendBegin, disk, Locations, NoRow
  <1>5. CASE AppendWrite
    <2>1. row \in Rows
      BY <1>5 DEF AppendWrite, LoopInv
    <2>2. file' \in Seq(CellType)
      BY <1>0, <1>5, <2>1, AppendRow DEF AppendWrite
    <2>3. size' \in Nat
      BY <1>5 DEF AppendWrite, LoopInv, TypeOK, Unloaded
    <2> QED
      BY <1>5, <2>1, <2>2, <2>3 DEF AppendWrite, TypeOK, Locations, NoRow, CellType
  <1>6. CASE AppendFails
    <2>1. row \in Rows
      BY <1>6 DEF AppendFails, LoopInv
    <2>2. file' \in Seq(CellType)
      BY <1>0, <1>6, <2>1, AppendPart DEF AppendFails
    <2>3. damage' \subseteq FileDamage \union SizeDamage
      BY <1>6 DEF AppendFails, TypeOK, FileDamage
    <2> QED
      BY <1>6, <2>2, <2>3 DEF AppendFails, TypeOK, Locations, NoRow, CellType
  <1>7. CASE ReplayBegin
    BY <1>7, <1>b DEF TypeOK, ReplayBegin, disk, Locations
  <1>8. CASE ReplayAcked
    <2>1. PICK e \in LineEnds(cursor) :
             PublishAcked(LineAt(cursor, e)) /\ cursor' = e
      BY <1>8 DEF ReplayAcked, NextCursor
    <2>2. e \in 1..Len(file) /\ e \in Nat /\ cursor + 1 \in Nat
      BY <1>0, <2>1 DEF LineEnds, TypeOK
    <2>3. LineAt(cursor, e) \in Rows \union {Garbage}
      BY <1>c, <2>2 DEF LineAt
    <2>4. budget' \in 0..ReplayPerTick
      BY <1>8 DEF ReplayAcked, LoopInv, TypeOK
    <2> QED
      BY <1>8, <2>1, <2>2, <2>3, <2>4 DEF ReplayAcked, PublishAcked, TypeOK, disk, Locations
  <1>9. CASE ReplayFailed
    <2>1. PICK e \in LineEnds(cursor) : PublishFailed(LineAt(cursor, e))
      BY <1>9 DEF ReplayFailed
    <2>2. e \in 1..Len(file) /\ cursor + 1 \in Nat
      BY <1>0, <2>1 DEF LineEnds, TypeOK
    <2>3. LineAt(cursor, e) \in Rows \union {Garbage}
      BY <1>c, <2>2 DEF LineAt
    <2> QED
      BY <1>9, <2>1, <2>3 DEF ReplayFailed, PublishFailed, TypeOK, disk, Locations
  <1>10. CASE ReplayEndOfFile
    BY <1>10 DEF TypeOK, ReplayEndOfFile, disk, history, Locations
  <1>11. CASE ReplayClose
    BY <1>11 DEF TypeOK, ReplayClose, AfterReplay, disk, history, Locations
  <1>12. CASE ResetUnlink
    <2>1. file' \in Seq(CellType)
      BY <1>0, <1>12, EmptySeq DEF ResetUnlink
    <2>2. forfeited' \subseteq Rows
      BY <1>12 DEF ResetUnlink, GivenUp, LostInDamage, TypeOK
    <2>3. damage' \subseteq FileDamage \union SizeDamage
      BY <1>12 DEF ResetUnlink, TypeOK, SizeDamage
    <2>4. staleCursor' \in BOOLEAN
      <3>1. (diskCursor > 0) \in BOOLEAN
        OBVIOUS
      <3> QED
        BY <1>12, <3>1, Zenon DEF ResetUnlink, TypeOK
    <2> QED
      BY <1>12, <2>1, <2>2, <2>3, <2>4 DEF ResetUnlink, TypeOK, Locations, CellType
  <1>13. CASE SaveOpen
    <2>1. staleCursor' \in BOOLEAN
      BY <1>13, Zenon DEF SaveOpen, TypeOK
    <2>2. diskCursor' \in Nat /\ pc' \in Locations
      BY <1>13 DEF SaveOpen, TypeOK, Locations
    <2> QED
      BY <1>13, <2>1, <2>2 DEF SaveOpen, TypeOK
  <1>14. CASE SaveWrite
    BY <1>14 DEF TypeOK, SaveWrite, history, Locations
  <1>15. CASE LinkChange
    BY <1>15 DEF TypeOK, LinkChange, task, disk, history
  <1>16. CASE Reboot
    <2>1. PICK part \in CutWrites :
             /\ file' = file \o part
             /\ accepted' = IF part = RowCells(row) THEN accepted \union {row} ELSE accepted
             /\ damage' = (damage \ SizeDamage)
                  \union (IF part # <<>> /\ part # RowCells(row) THEN {"torn_append"} ELSE {})
                  \union (IF staleCursor /\ file' # <<>> THEN {"stale_cursor"} ELSE {})
      BY <1>16 DEF Reboot
    <2>2. part = <<>> \/ (row \in Rows /\ part \in PartialWrites(row))
      BY CutPart
    <2>3. file' \in Seq(CellType)
      BY <1>0, <2>1, <2>2, AppendPart, ConcatEmptySeq
    <2>4. accepted' \subseteq Rows
      <3>1. part = RowCells(row) => row \in Rows
        <4>1. RowCells(row) # <<>>
          BY DEF RowCells
        <4> QED
          BY <2>2, <4>1
      <3> QED
        BY <2>1, <3>1 DEF TypeOK
    <2>5. damage' \subseteq FileDamage \union SizeDamage
      BY <2>1 DEF TypeOK, FileDamage
    <2>6. reboots' \in 0..MaxReboots
      BY <1>16, BoundsAssumption DEF Reboot, TypeOK
    <2>7. /\ pc' \in Locations /\ ret' \in {"receive", "append_write"}
          /\ row' \in Rows \union {NoRow}
          /\ size' \in Nat \union {Unloaded} /\ cursor' \in Nat
          /\ budget' \in 0..ReplayPerTick /\ advanced' \in BOOLEAN
          /\ mounted' \in BOOLEAN
      <3>1. /\ pc' = "receive" /\ ret' = "receive" /\ row' = NoRow
            /\ size' = Unloaded /\ cursor' = 0 /\ budget' = 0 /\ advanced' = FALSE
            /\ mounted' \in BOOLEAN
        BY <1>16, Zenon DEF Reboot
      <3>2. 0 \in 0..ReplayPerTick /\ 0 \in Nat /\ "receive" \in Locations
        BY DEF Locations
      <3> QED
        BY <3>1, <3>2, Zenon
    <2>8. /\ diskCursor' \in Nat /\ link' \in {"up", "flaky", "down"}
          /\ taken' \subseteq Rows /\ delivered' \subseteq Rows \union {Garbage}
          /\ forfeited' \subseteq Rows /\ staleCursor' \in BOOLEAN
      BY <1>16 DEF Reboot, TypeOK
    <2> QED
      BY <2>3, <2>4, <2>5, <2>6, <2>7, <2>8 DEF TypeOK, CellType
  <1>17. CASE UNCHANGED vars
    BY <1>17 DEF TypeOK, vars, task, disk, history
  <1> QED
    BY <1>1, <1>2, <1>3, <1>4, <1>5, <1>6, <1>7, <1>8, <1>9, <1>10, <1>11, <1>12,
       <1>13, <1>14, <1>15, <1>16, <1>17 DEF Next, TaskStep

-----------------------------------------------------------------------------
(* The task's loop. *)

\* Every step keeps what the task holds at each place of its loop.
LEMMA LoopStep ==
    ASSUME TypeOK, LoopInv, [Next]_vars
    PROVE  LoopInv'
  <1> USE DEF LoopInv
  <1>1. ASSUME NEW r \in Rows, ReceiveRow(r) PROVE LoopInv'
    BY <1>1 DEF ReceiveRow
  <1>2. CASE ReceiveTimeout
    BY <1>2 DEF ReceiveTimeout
  <1>3. CASE PublishLive
    BY <1>3 DEF PublishLive
  <1>4. CASE AppendBegin
    <2>1. size' # Unloaded \/ pc' = "replay"
      BY <1>4 DEF AppendBegin, Unloaded
    <2> QED
      BY <1>4, <2>1 DEF AppendBegin
  <1>5. CASE AppendWrite
    BY <1>5 DEF AppendWrite
  <1>6. CASE AppendFails
    BY <1>6 DEF AppendFails
  <1>7. CASE ReplayBegin
    <2>1. pc' = "send" => size' # Unloaded
      BY <1>7 DEF ReplayBegin, ReplayDue, Unloaded
    <2> QED
      BY <1>7, <2>1, BudgetAssumption DEF ReplayBegin
  <1>8. CASE ReplayAcked
    BY <1>8 DEF ReplayAcked, TickDone, TypeOK
  <1>9. CASE ReplayFailed
    BY <1>9 DEF ReplayFailed
  <1>10. CASE ReplayEndOfFile
    BY <1>10 DEF ReplayEndOfFile
  <1>11. CASE ReplayClose
    BY <1>11 DEF ReplayClose, AfterReplay
  <1>12. CASE ResetUnlink
    BY <1>12 DEF ResetUnlink, Unloaded
  <1>13. CASE SaveOpen
    BY <1>13 DEF SaveOpen, TypeOK
  <1>14. CASE SaveWrite
    BY <1>14 DEF SaveWrite, TypeOK
  <1>15. CASE LinkChange
    BY <1>15 DEF LinkChange, task
  <1>16. CASE Reboot
    BY <1>16 DEF Reboot
  <1>17. CASE UNCHANGED vars
    BY <1>17 DEF vars, task
  <1> QED
    BY <1>1, <1>2, <1>3, <1>4, <1>5, <1>6, <1>7, <1>8, <1>9, <1>10, <1>11, <1>12,
       <1>13, <1>14, <1>15, <1>16, <1>17 DEF Next, TaskStep

-----------------------------------------------------------------------------
(* The files, as long as nothing has spoilt them. *)

\* In a file of whole rows, the line at a boundary is the next row, unaltered.
LEMMA NextLine ==
    ASSUME TypeOK, Whole(file), NEW c \in Nat, Boundary(file, c), NEW e \in LineEnds(c)
    PROVE  /\ e = c + 2 /\ e \in 1..Len(file) /\ file[e].eol
           /\ LineAt(c, e) \in Rows
           /\ file[c + 1].row = LineAt(c, e) /\ file[e].row = LineAt(c, e)
  <1>0. Len(file) \in Nat /\ \A i \in 1..Len(file) : file[i].row \in Rows
    <2>1. file \in Seq(CellType)
      BY DEF TypeOK, CellType
    <2>2. Len(file) \in Nat /\ \A i \in 1..Len(file) : file[i] \in CellType
      BY <2>1, LenProperties, ElementOfSeq
    <2> QED
      BY <2>2 DEF CellType
  <1>1. e \in (c + 1)..Len(file) /\ (file[e].eol \/ e = Len(file))
    BY DEF LineEnds
  <1>2. \A i \in (c + 1)..(e - 1) : ~file[i].eol
    BY DEF LineEnds
  <1>3. ~file[c + 1].eol
    BY <1>0, <1>1 DEF Boundary, Whole
  <1>4. c + 1 < Len(file) /\ file[c + 2].eol /\ file[c + 2].row = file[c + 1].row
    BY <1>0, <1>1, <1>3 DEF Whole
  <1>5. e = c + 2
    BY <1>0, <1>1, <1>2, <1>3, <1>4
  <1>6. LineAt(c, e) = file[e].row
    BY <1>3, <1>4, <1>5 DEF LineAt
  <1> QED
    BY <1>0, <1>1, <1>4, <1>5, <1>6

\* Appending a row keeps a file whole, and its sound cursors sound.
LEMMA WholeAppend ==
    ASSUME NEW f \in Seq(CellType), NEW r \in Rows, Whole(f)
    PROVE  /\ Whole(f \o RowCells(r))
           /\ Boundary(f \o RowCells(r), Len(f) + 2)
           /\ \A c : Boundary(f, c) => Boundary(f \o RowCells(r), c)
           /\ \A c, D : Boundary(f, c) /\ Acked(f, c, D) => Acked(f \o RowCells(r), c, D)
           /\ \E i \in 1..Len(f \o RowCells(r)) : (f \o RowCells(r))[i].row = r
           /\ \A i \in 1..Len(f) : /\ i \in 1..Len(f \o RowCells(r))
                                   /\ (f \o RowCells(r))[i].row = f[i].row
  <1> DEFINE g == f \o RowCells(r)
             n == Len(f)
  <1>1. /\ n \in Nat /\ Len(g) = n + 2 /\ \A i \in 1..n : g[i] = f[i]
        /\ g[n + 1] = [row |-> r, eol |-> FALSE] /\ g[n + 2] = [row |-> r, eol |-> TRUE]
    BY AppendRow DEF Cell
  <1> HIDE DEF g
  <1>2. ASSUME NEW i \in 1..Len(g)
        PROVE  IF g[i].eol
               THEN i > 1 /\ ~g[i - 1].eol /\ g[i - 1].row = g[i].row
               ELSE i < Len(g) /\ g[i + 1].eol /\ g[i + 1].row = g[i].row
    <2>1. CASE i = n + 1
      BY <1>1, <2>1
    <2>2. CASE i = n + 2
      BY <1>1, <2>2
    <2>3. CASE i \in 1..n
      <3>1. g[i] = f[i] /\ (i > 1 => i - 1 \in 1..n /\ g[i - 1] = f[i - 1])
            /\ (i < n => i + 1 \in 1..n /\ g[i + 1] = f[i + 1])
        BY <1>1, <2>3
      <3> QED
        BY <1>1, <2>3, <3>1 DEF Whole
    <2> QED
      BY <1>1, <2>1, <2>2, <2>3
  <1>3. Whole(g)
    BY <1>2 DEF Whole
  <1>4. Boundary(g, n + 2)
    BY <1>1 DEF Boundary
  <1>5. ASSUME NEW c, Boundary(f, c) PROVE Boundary(g, c)
    BY <1>1, <1>5 DEF Boundary
  <1>6. ASSUME NEW c, NEW D, Boundary(f, c), Acked(f, c, D) PROVE Acked(g, c, D)
    BY <1>1, <1>6 DEF Boundary, Acked
  <1>7. n + 2 \in 1..Len(g) /\ g[n + 2].row = r
    BY <1>1
  <1>8. \A i \in 1..n : i \in 1..Len(g) /\ g[i].row = f[i].row
    BY <1>1
  <1> QED
    BY <1>3, <1>4, <1>5, <1>6, <1>7, <1>8 DEF g

\* Nothing is acknowledged at the front of a file: offset 0 is always sound.
LEMMA ZeroSound ==
    ASSUME NEW f, NEW D, Len(f) \in Nat
    PROVE  Boundary(f, 0) /\ Acked(f, 0, D)
  BY DEF Boundary, Acked

\* The offset that spool_load_state recovers is sound.
LEMMA RecoveredSound ==
    ASSUME TypeOK, DiskInv, size = Unloaded
    PROVE  Sound(RecoveredCursor)
  <1>1. Len(file) \in Nat /\ diskCursor \in Nat
    <2>1. file \in Seq(CellType)
      BY DEF TypeOK, CellType
    <2> QED
      BY <2>1, LenProperties DEF TypeOK
  <1>2. CASE staleCursor
    <2>1. file = <<>>
      BY <1>2 DEF DiskInv
    <2>2. Len(file) = 0
      BY <2>1
    <2>3. RecoveredCursor = 0
      BY <1>1, <2>2 DEF RecoveredCursor, Lesser
    <2> QED
      BY <1>1, <2>3, ZeroSound DEF Sound
  <1>3. CASE ~staleCursor
    <2>1. Sound(diskCursor)
      BY <1>3 DEF DiskInv
    <2>2. RecoveredCursor = diskCursor
      BY <1>1, <2>1 DEF Sound, Boundary, RecoveredCursor, Lesser
    <2> QED
      BY <2>1, <2>2
  <1> QED
    BY <1>2, <1>3

\* Whatever reaches the card of a row, the cells before it stay where they are.
LEMMA CellsStay ==
    ASSUME NEW f \in Seq(CellType), NEW r \in Rows, NEW part \in PartialWrites(r)
    PROVE  \A i \in 1..Len(f) : i \in 1..Len(f \o part) /\ (f \o part)[i] = f[i]
  <1>1. part \in Seq(CellType)
    <2>1. <<Cell(r, FALSE)>> \in Seq(CellType)
      BY DEF Cell, CellType
    <2>2. RowCells(r) \in Seq(CellType)
      BY DEF RowCells, Cell, CellType
    <2>3. <<>> \in Seq(CellType)
      OBVIOUS
    <2> QED
      BY <2>1, <2>2, <2>3, Zenon DEF PartialWrites
  <1>2. /\ Len(f) \in Nat /\ Len(part) \in Nat /\ Len(f \o part) = Len(f) + Len(part)
        /\ \A i \in 1..(Len(f) + Len(part)) :
              (f \o part)[i] = IF i <= Len(f) THEN f[i] ELSE part[i - Len(f)]
    BY <1>1, ConcatProperties, LenProperties
  <1> QED
    BY <1>2

\* What is undelivered of a file that is unlinked is given up or lost with it.
LEMMA UnlinkKeeps ==
    ASSUME TypeOK, LoopInv, KeptInv, ~Spoilt => Unspoilt, ResetUnlink, file' = <<>>,
           forfeited' = forfeited \union GivenUp \union LostInDamage
    PROVE  KeptInv'
  <1>0. Len(file) \in Nat /\ cursor \in Nat /\ size # Unloaded /\ ret \in {"receive", "append_write"}
    <2>1. file \in Seq(CellType)
      BY DEF TypeOK, CellType
    <2> QED
      BY <2>1, LenProperties DEF TypeOK, ResetUnlink, LoopInv
  <1>1. pc = "unlink" /\ UNCHANGED <<accepted, delivered>>
    BY DEF ResetUnlink
  <1>2. ASSUME NEW r \in accepted, r \notin delivered \union forfeited
        PROVE  r \in GivenUp \union LostInDamage
    <2>1. PICK i \in 1..Len(file) : file[i].row = r
      BY <1>2 DEF KeptInv
    <2>2. CASE damage # {}
      <3>1. r \in RowsFrom(0)
        BY <2>1 DEF RowsFrom
      <3> QED
        BY <1>2, <2>2, <3>1 DEF LostInDamage
    <2>3. CASE damage = {}
      <3>1. size = Len(file) /\ Acked(file, cursor, delivered)
        BY <1>0, <2>3 DEF Spoilt, Unspoilt, RamInv, Sound
      <3>2. ~(i <= cursor)
        BY <1>2, <2>1, <3>1 DEF Acked
      <3>3. ret = "append_write"
        BY <1>0, <1>1, <3>1, <3>2 DEF LoopInv
      <3>4. r \in RowsFrom(cursor)
        BY <1>0, <2>1, <3>2 DEF RowsFrom
      <3> QED
        BY <3>3, <3>4 DEF GivenUp
    <2> QED
      BY <2>2, <2>3
  <1> QED
    BY <1>1, <1>2 DEF KeptInv

\* Every step keeps the accepted rows in the file until they are delivered or
\* given up.
LEMMA KeptStep ==
    ASSUME TypeOK, LoopInv, KeptInv, ~Spoilt => Unspoilt, [Next]_vars
    PROVE  KeptInv'
  <1>0. file \in Seq(CellType) /\ Len(file) \in Nat /\ file \o <<>> = file
    BY LenProperties, ConcatEmptySeq DEF TypeOK, CellType
  \* Steps that leave the file alone.
  <1>a. ASSUME UNCHANGED <<file, accepted>>, delivered \subseteq delivered',
               forfeited \subseteq forfeited'
        PROVE  KeptInv'
    BY <1>a DEF KeptInv
  \* Steps that write to it.
  <1>b. ASSUME row \in Rows, NEW part \in PartialWrites(row), file' = file \o part,
               \/ accepted' = accepted
               \/ accepted' = accepted \union {row} /\ part = RowCells(row),
               UNCHANGED <<delivered, forfeited>>
        PROVE  KeptInv'
    <2>1. \A i \in 1..Len(file) : i \in 1..Len(file') /\ file'[i] = file[i]
      BY <1>0, <1>b, CellsStay
    <2>2. part = RowCells(row) => \E i \in 1..Len(file') : file'[i].row = row
      <3>1. part = RowCells(row) =>
               /\ Len(file') = Len(file) + 2
               /\ file'[Len(file) + 2] = Cell(row, TRUE)
        BY <1>0, <1>b, AppendRow
      <3> QED
        BY <1>0, <3>1 DEF Cell
    <2> QED
      BY <1>b, <2>1, <2>2 DEF KeptInv
  <1>1. CASE AppendWrite
    <2>1. row \in Rows /\ RowCells(row) \in PartialWrites(row)
      BY <1>1 DEF AppendWrite, LoopInv, PartialWrites
    <2> QED
      BY <1>1, <1>b, <2>1 DEF AppendWrite
  <1>2. CASE AppendFails
    <2>1. row \in Rows
      BY <1>2 DEF AppendFails, LoopInv
    <2>2. PICK part \in PartialWrites(row) : file' = file \o part
      BY <1>2 DEF AppendFails
    <2> QED
      BY <1>2, <1>b, <2>1, <2>2 DEF AppendFails
  <1>3. CASE Reboot
    <2>1. PICK part \in CutWrites :
             /\ file' = file \o part
             /\ accepted' = IF part = RowCells(row) THEN accepted \union {row} ELSE accepted
      BY <1>3 DEF Reboot
    <2>2. UNCHANGED <<delivered, forfeited>> /\ RowCells(row) # <<>>
      BY <1>3 DEF Reboot, RowCells
    <2>3. CASE part = <<>>
      BY <1>0, <1>a, <2>1, <2>2, <2>3
    <2>4. CASE row \in Rows /\ part \in PartialWrites(row)
      BY <1>b, <2>1, <2>2, <2>4
    <2> QED
      BY <2>3, <2>4, CutPart
  <1>4. CASE ResetUnlink
    <2>1. CASE file' = <<>> /\ forfeited' = forfeited \union GivenUp \union LostInDamage
      BY <1>4, <2>1, UnlinkKeeps
    <2>2. CASE UNCHANGED file /\ forfeited' = forfeited \union GivenUp
      BY <1>4, <1>a, <2>2 DEF ResetUnlink
    <2> QED
      BY <1>4, <2>1, <2>2 DEF ResetUnlink
  <1>5. CASE PublishLive \/ ReplayAcked \/ ReplayFailed
    BY <1>5, <1>a DEF PublishLive, ReplayAcked, ReplayFailed, PublishAcked, PublishFailed, disk
  <1>6. CASE UNCHANGED <<file, accepted, delivered, forfeited>>
    BY <1>6, <1>a
  <1> QED
    BY <1>1, <1>2, <1>3, <1>4, <1>5, <1>6
       DEF Next, TaskStep, ReceiveRow, ReceiveTimeout, AppendBegin, ReplayBegin, ReplayEndOfFile,
           ReplayClose, SaveOpen, SaveWrite, LinkChange, disk, history, vars

\* Only unlinking the spool ends what has spoilt it, and only that or a boot the
\* rest of its damage.
LEMMA DamageStays ==
    ASSUME [Next]_vars
    PROVE  \/ damage \subseteq damage'
           \/ Reboot /\ damage \ SizeDamage \subseteq damage'
           \/ ResetUnlink /\ damage' = {} /\ file' = <<>> /\ staleCursor' = (diskCursor > 0)
  BY DEF Next, TaskStep, ReceiveRow, ReceiveTimeout, PublishLive, AppendBegin, AppendWrite,
         AppendFails, ReplayBegin, ReplayAcked, ReplayFailed, ReplayEndOfFile, ReplayClose,
         ResetUnlink, SaveOpen, SaveWrite, LinkChange, Reboot, Load, vars, history

\* The unlinked spool is as good as new.
LEMMA UnlinkRepairs ==
    ASSUME TypeOK, ResetUnlink, file' = <<>>, staleCursor' = (diskCursor > 0)
    PROVE  Unspoilt'
  <1>1. size' = 0 /\ cursor' = 0 /\ UNCHANGED diskCursor /\ Len(file') = 0
    BY DEF ResetUnlink
  <1>2. Whole(file)' /\ Sound(0)'
    BY <1>1 DEF Whole, Sound, Boundary, Acked
  <1>3. RamInv'
    BY <1>1, <1>2 DEF RamInv
  <1>4. ~staleCursor' => diskCursor' = 0
    <2>1. ~(diskCursor > 0) => diskCursor = 0
      BY DEF TypeOK
    <2>2. ~staleCursor' => ~(diskCursor > 0)
      BY Zenon
    <2> QED
      BY <1>1, <2>1, <2>2
  <1>5. DiskInv'
    BY <1>2, <1>4 DEF DiskInv
  <1> QED
    BY <1>2, <1>3, <1>5 DEF Unspoilt

\* Every step that spoils nothing keeps the files unspoilt, and unlinking the
\* spool makes them so.
LEMMA UnspoiltStep ==
    ASSUME TypeOK, LoopInv, ~Spoilt => Unspoilt, [Next]_vars, ~Spoilt'
    PROVE  Unspoilt'
  <1>r. CASE ResetUnlink /\ file' = <<>> /\ staleCursor' = (diskCursor > 0)
    BY <1>r, UnlinkRepairs
  <1> SUFFICES ASSUME ~(ResetUnlink /\ file' = <<>> /\ staleCursor' = (diskCursor > 0))
               PROVE  Unspoilt'
    BY <1>r
  <1>0. file \in Seq(CellType) /\ Len(file) \in Nat
    BY LenProperties DEF TypeOK, CellType
  <1>d1. damage \subseteq damage' \/ (Reboot /\ damage \ SizeDamage \subseteq damage')
    BY DamageStays
  <1>d2. ~Spoilt
    BY <1>d1 DEF Spoilt, FileDamage, SizeDamage
  <1>a. Whole(file) /\ RamInv /\ DiskInv
    BY <1>d2 DEF Unspoilt
  \* Steps that touch neither the files nor the cursors.
  <1>b. ASSUME /\ UNCHANGED <<file, diskCursor, staleCursor, size, cursor>>
               /\ delivered \subseteq delivered' /\ damage \subseteq damage'
        PROVE  Unspoilt'
    <2>1. \A c : Sound(c) => Sound(c)'
      BY <1>b DEF Sound, Boundary, Acked
    <2>2. damage' = {} => damage = {}
      BY <1>b
    <2>3. Whole(file)' /\ RamInv' /\ DiskInv'
      BY <1>a, <1>b, <2>1, <2>2 DEF Whole, RamInv, DiskInv
    <2> QED
      BY <2>3 DEF Unspoilt
  <1>1. ASSUME NEW r \in Rows, ReceiveRow(r) PROVE Unspoilt'
    BY <1>1, <1>b DEF ReceiveRow, disk
  <1>2. CASE ReceiveTimeout
    BY <1>2, <1>b DEF ReceiveTimeout, disk, history
  <1>3. CASE PublishLive
    BY <1>3, <1>b DEF PublishLive, PublishAcked, PublishFailed, disk
  <1>9. CASE ReplayFailed
    BY <1>9, <1>b DEF ReplayFailed, PublishFailed, disk
  <1>10. CASE ReplayEndOfFile
    BY <1>10, <1>b DEF ReplayEndOfFile, disk, history
  <1>11. CASE ReplayClose
    BY <1>11, <1>b DEF ReplayClose, AfterReplay, disk, history
  <1>15. CASE LinkChange
    BY <1>15, <1>b DEF LinkChange, task, disk, history
  <1>17. CASE UNCHANGED vars
    BY <1>17, <1>b DEF vars, task, disk, history
  \* Steps that load the spool's state.
  <1>d. ASSUME /\ UNCHANGED <<disk, staleCursor, delivered>>
               /\ Load
        PROVE  Unspoilt'
    <2>1. \A c : Sound(c) => Sound(c)'
      BY <1>d DEF Sound, Boundary, Acked, disk
    <2>2. Whole(file)' /\ file' = file
      BY <1>a, <1>d DEF Whole, disk
    <2>3. CASE MustLoad
      <3>1. size = Unloaded /\ size' \in {Len(file), 0}
        BY <1>d, <2>3 DEF Load, MustLoad, OrZero
      <3>2. PICK c \in OrZero(diskCursor) : cursor' = Lesser(c, size')
        BY <1>d, <2>3 DEF Load
      <3>3. Sound(0) /\ Sound(RecoveredCursor)
        BY <1>0, <1>a, <3>1, ZeroSound, RecoveredSound DEF Sound
      <3>4. cursor' = 0 \/ cursor' = RecoveredCursor
        <4>1. c \in {diskCursor, 0} /\ diskCursor \in Nat
          BY <3>2 DEF OrZero, TypeOK
        <4> QED
          BY <1>0, <3>1, <3>2, <4>1 DEF Lesser, RecoveredCursor
      <3>5. Sound(cursor')
        BY <3>3, <3>4
      <3>6. damage' = {} => size' = Len(file')
        BY <1>0, <1>d, <2>2, <2>3, <3>1 DEF Load
      <3>7. RamInv'
        <4>1. Sound(cursor)'
          BY <1>d, <2>2, <3>5 DEF Sound
        <4> QED
          BY <3>6, <4>1 DEF RamInv
      <3>8. size' # Unloaded
        BY <1>0, <3>1 DEF Unloaded
      <3>9. DiskInv'
        BY <1>a, <1>d, <2>1, <3>8 DEF DiskInv, disk
      <3> QED
        BY <2>2, <3>7, <3>9 DEF Unspoilt
    <2>4. CASE ~MustLoad
      BY <1>b, <1>d, <2>4 DEF Load, disk
    <2> QED
      BY <2>3, <2>4
  <1>4. CASE AppendBegin
    BY <1>4, <1>d DEF AppendBegin
  <1>7. CASE ReplayBegin
    BY <1>7, <1>d DEF ReplayBegin
  \* Steps that change the file.
  <1>5. CASE AppendWrite
    <2>1. row \in Rows /\ size # Unloaded
      BY <1>5 DEF AppendWrite, LoopInv
    <2>2. /\ file' = file \o RowCells(row) /\ size' = size + 2
          /\ UNCHANGED <<cursor, diskCursor, delivered, staleCursor, damage>>
      BY <1>5 DEF AppendWrite
    <2>3. \A c : Sound(c) => Sound(c)'
      BY <1>0, <1>a, <2>1, <2>2, WholeAppend DEF Sound
    <2>4. Whole(file)'
      BY <1>0, <1>a, <2>1, <2>2, WholeAppend
    <2>5. Sound(cursor) /\ (damage = {} => size = Len(file) /\ size' = Len(file'))
      BY <1>0, <1>a, <2>1, <2>2, AppendRow DEF RamInv
    <2>6. RamInv' /\ DiskInv'
      <3>1. size' # Unloaded
        BY <2>1, <2>2 DEF Unloaded, TypeOK
      <3>2. ~staleCursor => Sound(diskCursor)
        BY <1>a DEF DiskInv
      <3>3. Sound(cursor)' /\ (~staleCursor' => Sound(diskCursor)')
        BY <2>2, <2>3, <2>5, <3>2
      <3> QED
        BY <2>2, <2>5, <3>1, <3>3 DEF RamInv, DiskInv
    <2> QED
      BY <2>4, <2>6 DEF Unspoilt
  <1>6. CASE AppendFails
    <2>1. file' = file
      <3>1. PICK part \in PartialWrites(row) :
               /\ file' = file \o part
               /\ damage' = IF part = <<>> THEN damage ELSE damage \union {"torn_append"}
        BY <1>6 DEF AppendFails
      <3>2. part = <<>>
        BY <3>1 DEF Spoilt, FileDamage
      <3> QED
        BY <1>0, <3>1, <3>2, ConcatEmptySeq
    <2> QED
      BY <1>6, <2>1, <1>b DEF AppendFails
  <1>12. CASE ResetUnlink
    <2>1. /\ UNCHANGED <<file, staleCursor, diskCursor, delivered>> /\ damage' # {}
          /\ size' = 0 /\ cursor' = 0
      BY <1>12 DEF ResetUnlink
    <2>2. Sound(0)' /\ (\A c : Sound(c) => Sound(c)') /\ Whole(file)'
      BY <1>0, <1>a, <2>1 DEF Whole, Sound, Boundary, Acked
    <2>3. RamInv' /\ DiskInv'
      BY <1>a, <2>1, <2>2 DEF RamInv, DiskInv, Unloaded
    <2> QED
      BY <2>2, <2>3 DEF Unspoilt
  \* Steps that change bms.cursor.
  <1>e. ASSUME /\ UNCHANGED <<file, size, cursor, delivered, damage>>
               /\ size # Unloaded
               /\ diskCursor' \in {0, cursor}
        PROVE  Unspoilt'
    <2>1. Sound(0) /\ Sound(cursor)
      BY <1>0, <1>a, <1>e, ZeroSound DEF RamInv, Sound
    <2>2. Sound(diskCursor')
      BY <1>e, <2>1
    <2>3. Sound(diskCursor)' /\ Sound(cursor)'
      BY <1>e, <2>1, <2>2 DEF Sound
    <2>4. Whole(file)' /\ RamInv' /\ DiskInv'
      BY <1>a, <1>e, <2>3 DEF RamInv, DiskInv, Whole
    <2> QED
      BY <2>4 DEF Unspoilt
  <1>13. CASE SaveOpen
    <2>1. CASE diskCursor' = 0 /\ pc' = "save_write"
      BY <1>13, <1>e, <2>1 DEF SaveOpen, LoopInv
    <2>2. CASE pc' = ret /\ UNCHANGED <<diskCursor, staleCursor>>
      BY <1>13, <1>b, <2>2 DEF SaveOpen
    <2> QED
      BY <1>13, <2>1, <2>2 DEF SaveOpen
  <1>14. CASE SaveWrite
    BY <1>14, <1>e DEF SaveWrite, LoopInv, history
  <1>8. CASE ReplayAcked
    <2>1. PICK e \in LineEnds(cursor) :
             delivered' = delivered \union {LineAt(cursor, e)} /\ cursor' = e
      BY <1>8 DEF ReplayAcked, PublishAcked, NextCursor
    <2>2. /\ cursor \in Nat /\ Boundary(file, cursor) /\ Acked(file, cursor, delivered)
          /\ size # Unloaded
      BY <1>8, <1>a DEF ReplayAcked, LoopInv, RamInv, Sound, TypeOK
    <2>3. /\ e = cursor + 2 /\ e \in 1..Len(file) /\ file[e].eol
          /\ LineAt(cursor, e) \in Rows
          /\ file[cursor + 1].row = LineAt(cursor, e) /\ file[e].row = LineAt(cursor, e)
      BY <1>a, <2>2, NextLine
    <2>4. UNCHANGED <<file, size, diskCursor, staleCursor, damage>>
      BY <1>8 DEF ReplayAcked, disk
    <2>5. \A c : Sound(c) => Sound(c)'
      BY <2>1, <2>4 DEF Sound, Boundary, Acked
    <2>6. Boundary(file, e) /\ Acked(file, e, delivered')
      <3>1. \A i \in 1..Len(file) : i <= e => i <= cursor \/ i = cursor + 1 \/ i = e
        BY <2>2, <2>3
      <3> QED
        BY <1>0, <2>1, <2>2, <2>3, <3>1 DEF Boundary, Acked
    <2>7. RamInv'
      BY <1>a, <2>1, <2>2, <2>4, <2>6 DEF RamInv, Sound
    <2>8. Whole(file)' /\ DiskInv'
      BY <1>a, <2>4, <2>5 DEF DiskInv, Whole
    <2> QED
      BY <2>7, <2>8 DEF Unspoilt
  <1>16. CASE Reboot
    <2>1. PICK part \in CutWrites :
             /\ file' = file \o part
             /\ accepted' = IF part = RowCells(row) THEN accepted \union {row} ELSE accepted
             /\ damage' = (damage \ SizeDamage)
                  \union (IF part # <<>> /\ part # RowCells(row) THEN {"torn_append"} ELSE {})
                  \union (IF staleCursor /\ file' # <<>> THEN {"stale_cursor"} ELSE {})
      BY <1>16 DEF Reboot
    <2>2. part = <<>> \/ (part = RowCells(row) /\ row \in Rows)
      BY <2>1, CutPart DEF Spoilt, FileDamage
    <2>3. staleCursor => file' = <<>>
      BY <2>1 DEF Spoilt, FileDamage
    <2>4. /\ size' = Unloaded /\ pc' = "receive"
          /\ UNCHANGED <<diskCursor, delivered, staleCursor>>
      BY <1>16 DEF Reboot
    <2>5. Whole(file)' /\ \A c : Sound(c) => Sound(c)'
      <3>1. CASE part = <<>>
        <4>1. file' = file
          BY <1>0, <2>1, <3>1, ConcatEmptySeq
        <4> QED
          BY <1>a, <2>4, <4>1 DEF Whole, Sound, Boundary, Acked
      <3>2. CASE part = RowCells(row) /\ row \in Rows
        BY <1>0, <1>a, <2>1, <2>4, <3>2, WholeAppend DEF Sound
      <3> QED
        BY <2>2, <3>1, <3>2
    <2>6. RamInv' /\ DiskInv'
      BY <1>a, <2>3, <2>4, <2>5 DEF RamInv, DiskInv
    <2> QED
      BY <2>5, <2>6 DEF Unspoilt
  <1> QED
    BY <1>1, <1>2, <1>3, <1>4, <1>5, <1>6, <1>7, <1>8, <1>9, <1>10, <1>11, <1>12,
       <1>13, <1>14, <1>15, <1>16, <1>17 DEF Next, TaskStep

-----------------------------------------------------------------------------
(* The theorems. *)

\* The boot with no spool file and no cursor satisfies the inductive invariant.
LEMMA InitInv == Init => IInv
  <1> SUFFICES ASSUME Init PROVE IInv
    OBVIOUS
  <1>1. file = <<>> /\ Len(file) = 0
    BY DEF Init
  <1>2. file \in Seq(CellType)
    BY <1>1, EmptySeq
  <1>3. 0 \in 0..ReplayPerTick /\ 0 \in 0..MaxReboots
    BY BudgetAssumption, BoundsAssumption
  <1>4. TypeOK
    BY <1>2, <1>3 DEF Init, TypeOK, Locations, NoRow, CellType
  <1>5. LoopInv
    BY DEF Init, LoopInv
  <1>6. Unspoilt /\ KeptInv
    BY <1>1 DEF Init, Unspoilt, Whole, RamInv, DiskInv, KeptInv, Sound, Boundary, Acked
  <1> QED
    BY <1>4, <1>5, <1>6 DEF IInv

\* The inductive invariant holds in every reachable state: types, what each step
\* of the loop has in hand, where each accepted row is and, until a file is
\* spoilt, where the cursors of RAM and card stand.
THEOREM Invariance == Spec => []IInv
  <1>1. Init => IInv
    BY InitInv
  <1>2. IInv /\ [Next]_vars => IInv'
    <2> SUFFICES ASSUME IInv, [Next]_vars PROVE IInv'
      OBVIOUS
    <2>1. TypeOK' /\ LoopInv'
      BY TypeStep, LoopStep DEF IInv
    <2>2. KeptInv'
      BY KeptStep DEF IInv
    <2>3. ~Spoilt' => Unspoilt'
      BY UnspoiltStep DEF IInv
    <2> QED
      BY <2>1, <2>2, <2>3 DEF IInv
  <1> QED
    BY <1>1, <1>2, PTL DEF Spec

\* Every variable of the spool always has its type.
THEOREM TypeCorrect == Spec => []TypeOK
  <1>1. IInv => TypeOK
    BY DEF IInv
  <1> QED
    BY <1>1, Invariance, PTL

\* The offset replay goes on from is a sound one.
LEMMA EffectiveSound ==
    ASSUME TypeOK, Unspoilt
    PROVE  Sound(EffectiveCursor)
  BY RecoveredSound DEF Unspoilt, RamInv, EffectiveCursor

\* A row the spool accepted -- appended to the file and counted, at any moment,
\* through any number of failed publishes, failed calls and power cuts -- is with
\* the broker, or still ahead of the replay cursor, or given up with a backlog over
\* its cap; what a damaged spool holds goes when it is unlinked, and no later row.
THEOREM SpoolLosesNothing == Spec => []NothingLost
  <1>1. ASSUME IInv PROVE NothingLost
    <2> SUFFICES ASSUME ~Spoilt, NEW r \in accepted, r \notin delivered \union forfeited
                 PROVE  r \in Owed
      BY DEF NothingLost
    <2>1. TypeOK /\ Unspoilt
      BY <1>1 DEF IInv
    <2>2. PICK i \in 1..Len(file) : file[i].row = r
      BY <1>1 DEF IInv, KeptInv
    <2>3. Sound(EffectiveCursor)
      BY <2>1, EffectiveSound
    <2>4. ~(i <= EffectiveCursor)
      BY <2>2, <2>3 DEF Sound, Acked
    <2>5. EffectiveCursor \in 0..Len(file) /\ Len(file) \in Nat
      <3>1. file \in Seq(CellType)
        BY <2>1 DEF TypeOK, CellType
      <3> QED
        BY <2>3, <3>1, LenProperties DEF Sound, Boundary
    <2>6. i \in (EffectiveCursor + 1)..Len(file)
      BY <2>4, <2>5
    <2> QED
      BY <2>2, <2>6 DEF Owed, RowsFrom
  <1> QED
    BY <1>1, Invariance, PTL

\* The cursor replay goes on from, and the one a power cut would leave behind,
\* only ever pass rows the broker has acknowledged.
THEOREM CursorsBehindAcks == Spec => []CursorBehindAcks
  <1>1. ASSUME IInv PROVE CursorBehindAcks
    <2> SUFFICES ASSUME ~Spoilt PROVE CursorBehindAcks
      BY DEF CursorBehindAcks
    <2>1. TypeOK /\ Unspoilt
      BY <1>1 DEF IInv
    <2>2. Len(file) \in Nat /\ diskCursor \in Nat
      <3>1. file \in Seq(CellType)
        BY <2>1 DEF TypeOK, CellType
      <3> QED
        BY <2>1, <3>1, LenProperties DEF TypeOK
    <2>3. ASSUME NEW c, Sound(c) PROVE RowsUpTo(c) \subseteq delivered
      BY <2>2, <2>3 DEF Sound, Boundary, Acked, RowsUpTo, Lesser
    <2>4. RowsUpTo(EffectiveCursor) \subseteq delivered
      BY <2>1, <2>3, EffectiveSound
    <2>5. ASSUME ~staleCursor PROVE RowsUpTo(RecoveredCursor) \subseteq delivered
      <3>1. Sound(diskCursor)
        BY <2>1, <2>5 DEF Unspoilt, DiskInv
      <3>2. RecoveredCursor = diskCursor
        BY <2>2, <3>1 DEF Sound, Boundary, RecoveredCursor, Lesser
      <3> QED
        BY <2>3, <3>1, <3>2
    <2> QED
      BY <2>4, <2>5 DEF CursorBehindAcks
  <1> QED
    BY <1>1, Invariance, PTL

\* What replay reads at its cursor from a file that is not spoilt is a row exactly
\* as it was appended.
THEOREM LinesUnaltered == Spec => []RowsIntact
  <1>1. ASSUME IInv PROVE RowsIntact
    <2> SUFFICES ASSUME ~Spoilt, pc = "send", NEW e \in LineEnds(cursor)
                 PROVE  LineAt(cursor, e) # Garbage
      BY DEF RowsIntact
    <2>1. TypeOK /\ LoopInv /\ Unspoilt
      BY <1>1 DEF IInv
    <2>2. cursor \in Nat /\ Boundary(file, cursor) /\ Whole(file)
      BY <2>1 DEF TypeOK, LoopInv, Unspoilt, RamInv, Sound
    <2>3. LineAt(cursor, e) \in Rows
      BY <2>1, <2>2, NextLine
    <2> QED
      BY <2>3, RowsAssumption
  <1> QED
    BY <1>1, Invariance, PTL

-----------------------------------------------------------------------------
(* How far the cursors are apart, and what the backlog holds. *)

\* The row in hand was never accepted before: it was dequeued once.
HandInv ==
    /\ accepted \subseteq taken
    /\ \/ pc \in {"publish", "append", "append_write"}
       \/ pc \in {"unlink", "save", "save_write"} /\ ret = "append_write"
       => row \in taken \ accepted

\* A backlog that is about to be given up is over its cap.
CapInv == pc = "unlink" /\ ret = "append_write" => size - cursor > SpoolMax

\* The rows of f from offset c on.
RowsOf(f, c) == {f[i].row : i \in (c + 1)..Len(f)}

\* The file holds accepted rows only, and every row from a boundary on once.
BacklogInv ==
    /\ \A i \in 1..Len(file) : file[i].row \in accepted
    /\ \A c \in 0..Len(file) :
          Boundary(file, c) => /\ IsFiniteSet(RowsOf(file, c))
                               /\ 2 * Cardinality(RowsOf(file, c)) = Len(file) - c

\* Without I/O errors bms.cursor never overtakes the cursor in RAM, and the two
\* agree but while a tick has advanced one and not yet saved it.
FollowInv ==
    size # Unloaded /\ ~staleCursor =>
        /\ diskCursor <= cursor
        /\ \/ pc \in {"receive", "publish", "append", "append_write", "replay"}
           \/ pc \in {"send", "close"} /\ ~advanced
           => diskCursor = cursor

\* The lines of f between two offsets, by their ends.
LinesIn(f, d, c) == {i \in (d + 1)..c : f[i].eol}

\* How many lines a power cut would send again.
Unsaved == Cardinality(LinesIn(file, diskCursor, cursor))

\* What is left of the tick's budget is what may still be added to them.
WindowInv ==
    size # Unloaded /\ ~staleCursor =>
        /\ pc # "save_write" => Unsaved <= ReplayPerTick
        /\ pc = "send" => Unsaved + budget <= ReplayPerTick

\* Neither unlink nor stat fails without I/O errors.
FaultInv == "io_error" \notin Faults => damage \subseteq FileDamage

\* The inductive invariant of the refinement and of the window.
RInv ==
    /\ IInv /\ HandInv /\ CapInv /\ FaultInv
    /\ ~Spoilt => BacklogInv
    /\ damage = {} /\ "io_error" \notin Faults => FollowInv /\ WindowInv

\* A row is accepted only while the task has it in hand.
LEMMA HandStep ==
    ASSUME TypeOK, LoopInv, HandInv, [Next]_vars
    PROVE  HandInv'
  <1> USE DEF HandInv
  <1>1. ASSUME NEW r \in Rows, ReceiveRow(r) PROVE HandInv'
    BY <1>1 DEF ReceiveRow
  <1>2. CASE UNCHANGED <<taken, accepted, row>>
    <2>1. CASE ReceiveTimeout \/ ReplayBegin \/ ReplayEndOfFile \/ ReplayClose \/ ReplayFailed
      BY <1>2, <2>1 DEF ReceiveTimeout, ReplayBegin, ReplayEndOfFile, ReplayClose, AfterReplay, ReplayFailed
    <2>2. CASE PublishLive \/ AppendBegin \/ ReplayAcked
      BY <1>2, <2>2 DEF PublishLive, AppendBegin, ReplayAcked, TickDone
    <2>3. CASE AppendFails
      BY <2>3 DEF AppendFails
    <2>4. CASE ResetUnlink
      BY <1>2, <2>4 DEF ResetUnlink
    <2>5. CASE SaveOpen \/ SaveWrite
      BY <1>2, <2>5 DEF SaveOpen, SaveWrite, TypeOK
    <2>6. CASE LinkChange \/ UNCHANGED vars
      BY <1>2, <2>6 DEF LinkChange, task, vars
    <2>7. CASE AppendWrite
      BY <1>2, <2>7 DEF AppendWrite
    <2>8. CASE Reboot
      BY <1>2, <2>8 DEF Reboot
    <2>9. ASSUME NEW r \in Rows, ReceiveRow(r) PROVE HandInv'
      BY <1>1, <2>9
    <2> QED
      BY <2>1, <2>2, <2>3, <2>4, <2>5, <2>6, <2>7, <2>8, <2>9 DEF Next, TaskStep
  <1>3. CASE (PublishLive \/ AppendBegin) /\ row' = NoRow /\ pc' = "replay"
    BY <1>3 DEF PublishLive, AppendBegin, history
  <1>4. CASE AppendWrite
    BY <1>4 DEF AppendWrite
  <1>5. CASE AppendFails
    BY <1>5 DEF AppendFails
  <1>6. CASE Reboot
    <2>1. pc' = "receive" /\ taken' = taken
      BY <1>6 DEF Reboot
    <2>2. PICK part \in CutWrites :
             accepted' = IF part = RowCells(row) THEN accepted \union {row} ELSE accepted
      BY <1>6 DEF Reboot
    <2>3. part = RowCells(row) => row \in taken
      <3>1. RowCells(row) # <<>>
        BY DEF RowCells
      <3> QED
        BY <3>1, <2>2, CutPart
    <2> QED
      BY <2>1, <2>2, <2>3
  <1> QED
    BY <1>1, <1>2, <1>3, <1>4, <1>5, <1>6
       DEF Next, TaskStep, ReceiveTimeout, PublishLive, AppendBegin, ReplayBegin, ReplayAcked,
           ReplayFailed, ReplayEndOfFile, ReplayClose, ResetUnlink, SaveOpen, SaveWrite,
           LinkChange, task, vars, history

\* Only a backlog over the cap sends the task to reset the spool before it appends.
LEMMA CapStep ==
    ASSUME TypeOK, CapInv, [Next]_vars
    PROVE  CapInv'
  <1>1. CASE UNCHANGED <<pc, ret, size, cursor>>
    BY <1>1 DEF CapInv
  <1>2. CASE AppendBegin
    BY <1>2 DEF CapInv, AppendBegin, OverCap
  <1>3. CASE pc' # "unlink" \/ ret' # "append_write"
    BY <1>3 DEF CapInv
  <1> QED
    BY <1>1, <1>2, <1>3
       DEF Next, TaskStep, ReceiveRow, ReceiveTimeout, PublishLive, AppendWrite, AppendFails,
           ReplayBegin, ReplayAcked, ReplayFailed, ReplayEndOfFile, ReplayClose, AfterReplay, ResetUnlink,
           SaveOpen, SaveWrite, LinkChange, Reboot, TickDone, TypeOK, task, vars

\* Without I/O errors the size of the file is read.
LEMMA NoErrorLoad ==
    ASSUME TypeOK, "io_error" \notin Faults, Load
    PROVE  damage' = damage
  <1>1. MustLoad => size' = Len(file)
    BY DEF Load, OrZero
  <1>2. Len(file) \in Nat
    <2>1. file \in Seq(CellType)
      BY DEF TypeOK, CellType
    <2> QED
      BY <2>1, LenProperties
  <1> QED
    BY <1>1, <1>2 DEF Load

\* Without I/O errors, what is damaged is a file.
LEMMA FaultStep ==
    ASSUME TypeOK, FaultInv, [Next]_vars
    PROVE  FaultInv'
  <1> SUFFICES ASSUME "io_error" \notin Faults PROVE damage' \subseteq FileDamage
    BY DEF FaultInv
  <1>0. damage \subseteq FileDamage
    BY DEF FaultInv
  <1>1. CASE Load
    BY <1>0, <1>1, NoErrorLoad
  <1>2. CASE Reboot
    BY <1>0, <1>2 DEF Reboot, FileDamage
  <1>3. CASE ResetUnlink \/ UNCHANGED damage
    BY <1>0, <1>3 DEF ResetUnlink
  <1>4. CASE AppendFails
    BY <1>4 DEF AppendFails
  <1> QED
    BY <1>1, <1>2, <1>3, <1>4
       DEF Next, TaskStep, ReceiveRow, ReceiveTimeout, PublishLive, AppendBegin, AppendWrite,
           ReplayBegin, ReplayAcked, ReplayFailed, ReplayEndOfFile, ReplayClose, SaveOpen,
           SaveWrite, LinkChange, vars, history

\* Every row of the file after an offset is one of the file before it grew, or the new one.
LEMMA AppendRowsOf ==
    ASSUME file \in Seq(CellType), NEW r \in Rows, file' = file \o RowCells(r)
    PROVE  /\ \A c \in 0..Len(file) : RowsOf(file', c) = RowsOf(file, c) \union {r}
           /\ RowsOf(file', Len(file) + 2) = {}
  <1>1. /\ Len(file) \in Nat /\ Len(file') = Len(file) + 2
        /\ \A i \in 1..Len(file) : file'[i] = file[i]
        /\ file'[Len(file) + 1].row = r /\ file'[Len(file) + 2].row = r
    <2>1. /\ Len(file) \in Nat /\ Len(file') = Len(file) + 2
          /\ \A i \in 1..Len(file) : file'[i] = file[i]
          /\ file'[Len(file) + 1] = Cell(r, FALSE) /\ file'[Len(file) + 2] = Cell(r, TRUE)
      BY AppendRow, Zenon
    <2>2. Cell(r, FALSE).row = r /\ Cell(r, TRUE).row = r
      BY DEF Cell
    <2> QED
      BY <2>1, <2>2
  <1>2. ASSUME NEW c \in 0..Len(file) PROVE RowsOf(file', c) = RowsOf(file, c) \union {r}
    <2>1. ASSUME NEW i \in (c + 1)..Len(file') PROVE file'[i].row \in RowsOf(file, c) \union {r}
      <3>1. i \in 1..Len(file) \/ i = Len(file) + 1 \/ i = Len(file) + 2
        BY <1>1
      <3>2. i \in 1..Len(file) => i \in (c + 1)..Len(file)
        BY <1>1
      <3> QED
        BY <1>1, <3>1, <3>2 DEF RowsOf
    <2>2. ASSUME NEW i \in (c + 1)..Len(file) PROVE file[i].row \in RowsOf(file', c)
      <3>1. i \in (c + 1)..Len(file') /\ file'[i] = file[i]
        BY <1>1
      <3> QED
        BY <3>1 DEF RowsOf
    <2>3. r \in RowsOf(file', c)
      <3>1. Len(file) + 1 \in (c + 1)..Len(file')
        BY <1>1
      <3> QED
        BY <1>1, <3>1 DEF RowsOf
    <2>4. RowsOf(file', c) \subseteq RowsOf(file, c) \union {r}
      BY <2>1, Zenon DEF RowsOf
    <2>5. RowsOf(file, c) \subseteq RowsOf(file', c)
      BY <2>2, Zenon DEF RowsOf
    <2> QED
      BY <2>3, <2>4, <2>5, Zenon
  <1>3. RowsOf(file', Len(file) + 2) = {}
    <2>1. (Len(file) + 2 + 1)..Len(file') = {}
      BY <1>1
    <2> QED
      BY <2>1 DEF RowsOf
  <1> QED
    BY <1>2, <1>3

\* The backlog still holds each accepted row once after a new row was appended.
LEMMA BacklogAppend ==
    ASSUME file \in Seq(CellType), BacklogInv, NEW r \in Rows, r \notin accepted,
           file' = file \o RowCells(r), accepted' = accepted \union {r}
    PROVE  BacklogInv'
  <1>0. /\ Len(file) \in Nat /\ Len(file') = Len(file) + 2
        /\ \A i \in 1..Len(file) : file'[i] = file[i]
        /\ file'[Len(file) + 1] = Cell(r, FALSE) /\ file'[Len(file) + 2] = Cell(r, TRUE)
    BY AppendRow, Zenon
  <1> DEFINE n == Len(file)
  <1>1. /\ n \in Nat /\ Len(file') = n + 2
        /\ \A i \in 1..n : file'[i] = file[i]
        /\ file'[n + 1] = Cell(r, FALSE) /\ file'[n + 2] = Cell(r, TRUE)
    BY <1>0
  <1>2. Cell(r, FALSE).row = r /\ Cell(r, TRUE).row = r /\ ~Cell(r, FALSE).eol
    BY SMT DEF Cell
  <1> HIDE DEF n
  <1>3. ASSUME NEW i \in 1..Len(file') PROVE file'[i].row \in accepted'
    <2>1. i \in 1..n \/ i = n + 1 \/ i = n + 2
      BY <1>1
    <2>2. i \in 1..n => file[i].row \in accepted
      BY DEF BacklogInv, n
    <2> QED
      BY <1>1, <1>2, <2>1, <2>2
  <1>4. ASSUME NEW c \in 0..Len(file'), Boundary(file', c)
        PROVE  /\ IsFiniteSet(RowsOf(file', c))
               /\ 2 * Cardinality(RowsOf(file', c)) = Len(file') - c
    <2>1. CASE c = n + 2
      <3>1. RowsOf(file', c) = {}
        BY <2>1, AppendRowsOf DEF n
      <3>2. IsFiniteSet(RowsOf(file', c)) /\ Cardinality(RowsOf(file', c)) = 0
        BY <3>1, FS_EmptySet
      <3>3. Len(file') - c = 0
        BY <1>1, <2>1
      <3> QED
        BY <3>2, <3>3
    <2>2. CASE c = n + 1
      <3>1. c # 0
        BY <1>1, <2>2
      <3> QED
        BY <1>1, <1>2, <1>4, <2>2, <3>1 DEF Boundary
    <2>3. CASE c \in 0..n
      <3>1. Boundary(file, c)
        <4>1. c # 0 => c \in 1..n
          BY <1>1, <2>3
        <4> QED
          BY <1>1, <1>4, <2>3, <4>1 DEF Boundary, n
      <3>2. IsFiniteSet(RowsOf(file, c)) /\ 2 * Cardinality(RowsOf(file, c)) = n - c
        BY <2>3, <3>1 DEF BacklogInv, n
      <3>3. r \notin RowsOf(file, c)
        <4>1. \A i \in (c + 1)..n : i \in 1..n
          BY <1>1, <2>3
        <4> QED
          BY <4>1 DEF BacklogInv, RowsOf, n
      <3>4. RowsOf(file', c) = RowsOf(file, c) \union {r}
        BY <2>3, AppendRowsOf DEF n
      <3>5. /\ IsFiniteSet(RowsOf(file', c))
            /\ Cardinality(RowsOf(file', c)) = Cardinality(RowsOf(file, c)) + 1
        BY <3>2, <3>3, <3>4, FS_AddElement
      <3>6. Cardinality(RowsOf(file, c)) \in Nat
        BY <3>2, FS_CardinalityType
      <3>7. 2 * (Cardinality(RowsOf(file, c)) + 1) = Len(file') - c
        <4>1. \A k \in Nat : 2 * k = n - c => 2 * (k + 1) = (n + 2) - c
          BY <1>1, <2>3
        <4> QED
          BY <1>1, <3>2, <3>6, <4>1, Zenon
      <3>8. 2 * Cardinality(RowsOf(file', c)) = 2 * (Cardinality(RowsOf(file, c)) + 1)
        BY <3>5
      <3> QED
        BY <3>5, <3>7, <3>8, Zenon
    <2> QED
      BY <1>1, <2>1, <2>2, <2>3
  <1> QED
    BY <1>3, <1>4 DEF BacklogInv

\* Whole rows are only ever appended to the file, or the file starts anew.
LEMMA FileStep ==
    ASSUME TypeOK, LoopInv, [Next]_vars, ~Spoilt'
    PROVE  \/ UNCHANGED <<file, accepted>>
           \/ /\ row \in Rows /\ pc = "append_write"
              /\ file' = file \o RowCells(row) /\ accepted' = accepted \union {row}
           \/ file' = <<>> /\ accepted' = accepted
  <1>0. file \in Seq(CellType) /\ file \o <<>> = file
    BY ConcatEmptySeq DEF TypeOK, CellType
  <1>1. CASE UNCHANGED <<file, accepted>>
    BY <1>1
  <1>2. CASE AppendWrite
    BY <1>2 DEF AppendWrite, LoopInv
  <1>3. CASE AppendFails
    <2>1. PICK part \in PartialWrites(row) :
             /\ file' = file \o part
             /\ damage' = IF part = <<>> THEN damage ELSE damage \union {"torn_append"}
      BY <1>3 DEF AppendFails
    <2>2. part = <<>>
      BY <2>1 DEF Spoilt, FileDamage
    <2> QED
      BY <1>0, <1>3, <2>1, <2>2 DEF AppendFails
  <1>4. CASE ResetUnlink
    BY <1>4 DEF ResetUnlink
  <1>5. CASE Reboot
    <2>1. PICK part \in CutWrites :
             /\ file' = file \o part
             /\ accepted' = IF part = RowCells(row) THEN accepted \union {row} ELSE accepted
             /\ damage' = (damage \ SizeDamage)
                  \union (IF part # <<>> /\ part # RowCells(row) THEN {"torn_append"} ELSE {})
                  \union (IF staleCursor /\ file' # <<>> THEN {"stale_cursor"} ELSE {})
      BY <1>5 DEF Reboot
    <2>2. part = <<>> \/ part = RowCells(row)
      BY <2>1 DEF Spoilt, FileDamage
    <2>3. RowCells(row) # <<>>
      BY DEF RowCells
    <2>4. part = RowCells(row) => pc = "append_write" /\ row \in Rows
      BY <2>1, <2>3, CutPart
    <2> QED
      BY <1>0, <2>1, <2>2, <2>3, <2>4
  <1> QED
    BY <1>1, <1>2, <1>3, <1>4, <1>5
       DEF Next, TaskStep, ReceiveRow, ReceiveTimeout, PublishLive, AppendBegin, ReplayBegin,
           ReplayAcked, ReplayFailed, ReplayEndOfFile, ReplayClose, SaveOpen, SaveWrite,
           LinkChange, disk, history, vars

\* Until it is unlinked, a spoilt file stays spoilt.
LEMMA SpoiltStays ==
    ASSUME [Next]_vars, Spoilt
    PROVE  Spoilt' \/ file' = <<>>
  <1>1. damage \subseteq damage' \/ damage \ SizeDamage \subseteq damage' \/ file' = <<>>
    BY DamageStays
  <1> QED
    BY <1>1 DEF Spoilt, FileDamage, SizeDamage

\* Every step that spoils nothing keeps the backlog free of unknown and repeated rows.
LEMMA BacklogStep ==
    ASSUME TypeOK, LoopInv, HandInv, ~Spoilt => BacklogInv, [Next]_vars, ~Spoilt'
    PROVE  BacklogInv'
  <1>0. file \in Seq(CellType) /\ Len(file) \in Nat
    BY LenProperties DEF TypeOK, CellType
  <1>1. CASE UNCHANGED <<file, accepted>> /\ BacklogInv
    BY <1>1 DEF BacklogInv, Boundary, RowsOf
  <1>2. CASE /\ row \in Rows /\ pc = "append_write" /\ BacklogInv
             /\ file' = file \o RowCells(row) /\ accepted' = accepted \union {row}
    <2>1. row \notin accepted
      BY <1>2 DEF HandInv
    <2> QED
      BY <1>0, <1>2, <2>1, BacklogAppend
  <1>3. CASE file' = <<>>
    <2>1. Len(file') = 0
      BY <1>3
    <2>2. RowsOf(file', 0) = {}
      BY <2>1 DEF RowsOf
    <2>3. IsFiniteSet(RowsOf(file', 0)) /\ 2 * Cardinality(RowsOf(file', 0)) = Len(file') - 0
      BY <2>1, <2>2, FS_EmptySet
    <2>4. \A c \in 0..Len(file') : c = 0
      BY <2>1
    <2>5. \A i \in 1..Len(file') : FALSE
      BY <2>1
    <2> QED
      BY <2>3, <2>4, <2>5, Zenon DEF BacklogInv
  <1> QED
    BY <1>1, <1>2, <1>3, FileStep, SpoiltStays

\* Without I/O errors, every step that spoils nothing keeps bms.cursor from
\* overtaking the cursor in RAM, and equal to it between the ticks.
LEMMA FollowStep ==
    ASSUME TypeOK, LoopInv, damage = {} => Unspoilt /\ FollowInv, "io_error" \notin Faults,
           [Next]_vars, damage' = {}, FaultInv
    PROVE  FollowInv'
  <1>0. /\ file \in Seq(CellType) /\ Len(file) \in Nat
        /\ cursor \in Nat /\ diskCursor \in Nat /\ cursor + 1 \in Nat
    BY LenProperties DEF TypeOK, CellType
  <1>8. CASE ResetUnlink
    <2>1. /\ staleCursor' = (diskCursor > 0) /\ cursor' = 0 /\ pc' = "save"
          /\ UNCHANGED <<advanced, diskCursor>> /\ pc = "unlink"
      BY <1>8 DEF ResetUnlink
    <2>2. ~staleCursor' => diskCursor' = 0
      <3>1. ~(diskCursor > 0) => diskCursor = 0
        BY <1>0
      <3>2. ~staleCursor' => ~(diskCursor > 0)
        BY <2>1, Zenon
      <3> QED
        BY <2>1, <3>1, <3>2
    <2> QED
      BY <2>1, <2>2 DEF FollowInv
  <1>11. CASE Reboot
    BY <1>11 DEF FollowInv, Reboot
  <1> SUFFICES ASSUME ~ResetUnlink, ~Reboot PROVE FollowInv'
    BY <1>8, <1>11
  <1>a. Unspoilt /\ FollowInv
    BY DamageStays
  <1>1. CASE UNCHANGED <<size, cursor, diskCursor, staleCursor, advanced, pc>>
    BY <1>1, <1>a DEF FollowInv
  <1>2. CASE (\E r \in Rows : ReceiveRow(r)) \/ ReceiveTimeout \/ PublishLive
    BY <1>2, <1>a DEF FollowInv, ReceiveRow, ReceiveTimeout, PublishLive, disk, history
  <1>3. CASE AppendWrite
    BY <1>3, <1>a DEF FollowInv, AppendWrite, LoopInv, Unloaded
  <1>4. CASE AppendBegin \/ ReplayBegin
    <2>1. /\ Load /\ UNCHANGED <<advanced, diskCursor, staleCursor>>
          /\ pc' # "save" /\ pc' # "close" /\ pc \in {"append", "replay"}
      BY <1>4 DEF AppendBegin, ReplayBegin, disk
    <2>2. ~advanced
      BY <2>1 DEF LoopInv
    <2>3. CASE MustLoad
      <3>1. ~staleCursor => diskCursor \in 0..Len(file)
        BY <1>a DEF Unspoilt, DiskInv, Sound, Boundary
      <3>2. cursor' = Lesser(diskCursor, Len(file))
        BY <2>1, <2>3 DEF Load, OrZero
      <3>3. ~staleCursor => cursor' = diskCursor
        BY <1>0, <3>1, <3>2 DEF Lesser
      <3> QED
        BY <1>0, <2>1, <2>2, <3>3 DEF FollowInv
    <2>4. CASE ~MustLoad
      BY <1>0, <1>a, <2>1, <2>2, <2>4 DEF FollowInv, Load
    <2> QED
      BY <2>3, <2>4
  <1>5. CASE ReplayAcked
    <2>1. cursor' \in Nat /\ cursor <= cursor'
      <3>1. PICK e \in LineEnds(cursor) : cursor' = e
        BY <1>5 DEF ReplayAcked, NextCursor
      <3> QED
        BY <1>0, <3>1 DEF LineEnds
    <2>2. /\ UNCHANGED <<size, diskCursor, staleCursor>> /\ advanced' = TRUE
          /\ pc' \in {"send", "close"}
      BY <1>5 DEF ReplayAcked, disk
    <2>3. size' # Unloaded /\ ~staleCursor' => diskCursor' <= cursor'
      BY <1>0, <1>a, <2>1, <2>2 DEF FollowInv
    <2> QED
      BY <2>2, <2>3 DEF FollowInv
  <1>6. CASE ReplayFailed \/ ReplayEndOfFile
    BY <1>6, <1>a DEF FollowInv, ReplayFailed, ReplayEndOfFile, disk, history
  <1>7. CASE ReplayClose
    BY <1>7, <1>a DEF FollowInv, ReplayClose, AfterReplay, disk, history
  <1>9. CASE SaveOpen
    <2>1. /\ diskCursor' = 0 /\ pc' = "save_write" /\ pc = "save"
          /\ UNCHANGED <<size, cursor, advanced>>
      BY <1>9 DEF SaveOpen
    <2> QED
      BY <1>0, <1>a, <2>1 DEF FollowInv
  <1>10. CASE SaveWrite
    <2>1. /\ diskCursor' = cursor /\ pc' \in {"receive", "append_write"} /\ pc = "save_write"
          /\ UNCHANGED <<size, cursor, advanced>>
      BY <1>10 DEF SaveWrite, TypeOK
    <2> QED
      BY <1>0, <1>a, <2>1 DEF FollowInv
  <1>12. CASE AppendFails
    BY <1>12 DEF AppendFails
  <1> QED
    BY <1>1, <1>2, <1>3, <1>4, <1>5, <1>6, <1>7, <1>9, <1>10, <1>12
       DEF Next, TaskStep, LinkChange, task, disk, history, vars

\* The lines between two offsets are finitely many, and none between equal ones.
LEMMA LinesInFinite ==
    ASSUME NEW f, NEW d \in Nat, NEW c \in Nat
    PROVE  /\ IsFiniteSet(LinesIn(f, d, c)) /\ Cardinality(LinesIn(f, d, c)) \in Nat
           /\ c <= d => Cardinality(LinesIn(f, d, c)) = 0
  <1>1. IsFiniteSet((d + 1)..c)
    BY FS_Interval
  <1>2. LinesIn(f, d, c) \in SUBSET ((d + 1)..c)
    BY DEF LinesIn
  <1>3. IsFiniteSet(LinesIn(f, d, c))
    BY <1>1, <1>2, FS_Subset
  <1>4. c <= d => LinesIn(f, d, c) = {}
    BY DEF LinesIn
  <1> QED
    BY <1>3, <1>4, FS_EmptySet, FS_CardinalityType

\* Every line that replay adds to those a power cut would send again is taken
\* from the budget of its tick.
LEMMA WindowStep ==
    ASSUME TypeOK, LoopInv, damage = {} => Unspoilt /\ FollowInv /\ WindowInv,
           "io_error" \notin Faults, [Next]_vars, damage' = {}, TypeOK', FollowInv'
    PROVE  WindowInv'
  <1> USE BudgetAssumption
  <1>0. /\ file \in Seq(CellType) /\ Len(file) \in Nat /\ budget \in Nat
        /\ cursor \in Nat /\ diskCursor \in Nat /\ cursor' \in Nat /\ diskCursor' \in Nat
    BY LenProperties DEF TypeOK, CellType
  <1>a. Unsaved \in Nat /\ Unsaved' \in Nat
    BY <1>0, LinesInFinite DEF Unsaved
  \* Where the cursors agree there is nothing to send again.
  <1>b. ASSUME size' # Unloaded /\ ~staleCursor' => cursor' <= diskCursor',
               pc' = "send" => budget' <= ReplayPerTick
        PROVE  WindowInv'
    <2>1. size' # Unloaded /\ ~staleCursor' => Unsaved' = 0
      BY <1>0, <1>b, LinesInFinite DEF Unsaved
    <2>2. budget' \in Nat /\ ReplayPerTick \in Nat
      BY DEF TypeOK
    <2>3. size' # Unloaded /\ ~staleCursor' =>
             Unsaved' <= ReplayPerTick /\ (pc' = "send" => Unsaved' + budget' <= ReplayPerTick)
      <3>1. \A u, b \in Nat : u = 0 => u <= ReplayPerTick /\ u + b = b
        BY <2>2
      <3>2. Unsaved' = 0 => Unsaved' <= ReplayPerTick /\ Unsaved' + budget' = budget'
        BY <1>a, <2>2, <3>1, Zenon
      <3> QED
        BY <1>b, <2>1, <3>2, Zenon
    <2> QED
      BY <2>3, Zenon DEF WindowInv
  <1>8. CASE ResetUnlink
    BY <1>0, <1>8, <1>b DEF ResetUnlink
  <1>2. CASE size' = Unloaded
    BY <1>2 DEF WindowInv
  <1>10. CASE Reboot
    BY <1>2, <1>10 DEF Reboot
  <1> SUFFICES ASSUME ~ResetUnlink, ~Reboot PROVE WindowInv'
    BY <1>8, <1>10
  <1>d. Unspoilt /\ FollowInv /\ WindowInv
    BY DamageStays
  \* Steps that leave the two cursors and the file below them alone.
  <1>c. ASSUME Unsaved' = Unsaved, UNCHANGED staleCursor, size # Unloaded, pc # "save_write",
               pc' = "send" => pc = "send" /\ budget' = budget
        PROVE  WindowInv'
    BY <1>c, <1>d DEF WindowInv
  <1>1. CASE UNCHANGED <<size, cursor, diskCursor, staleCursor, budget, pc, file>>
    BY <1>1, <1>d DEF WindowInv, Unsaved
  <1>3. CASE pc' \in {"receive", "publish", "append", "append_write", "replay"}
    BY <1>0, <1>3, <1>b DEF FollowInv
  <1>4. CASE AppendBegin
    <2>1. CASE pc' = "unlink"
      <3>1. CASE size = Unloaded
        <4>1. /\ Load /\ UNCHANGED <<diskCursor, staleCursor>>
          BY <1>4 DEF AppendBegin, disk
        <4>2. CASE MustLoad
          <5>1. cursor' = Lesser(diskCursor, Len(file))
            BY <4>1, <4>2 DEF Load, OrZero
          <5>2. cursor' <= diskCursor'
            BY <1>0, <4>1, <5>1 DEF Lesser
          <5> QED
            BY <2>1, <5>2, <1>b
        <4>3. CASE ~MustLoad
          <5>1. size' = Unloaded
            BY <3>1, <4>1, <4>3 DEF Load
          <5> QED
            BY <1>2, <5>1
        <4> QED
          BY <4>2, <4>3
      <3>2. CASE size # Unloaded
        <4>1. UNCHANGED <<cursor, diskCursor, file, staleCursor>>
          BY <1>4, <3>2 DEF AppendBegin, Load, MustLoad, disk
        <4>2. Unsaved' = Unsaved
          BY <4>1 DEF Unsaved
        <4>3. pc = "append"
          BY <1>4 DEF AppendBegin
        <4> QED
          BY <1>c, <2>1, <3>2, <4>1, <4>2, <4>3
      <3> QED
        BY <3>1, <3>2
    <2> QED
      BY <1>3, <1>4, <2>1 DEF AppendBegin
  <1>5. CASE ReplayBegin
    <2>1. CASE pc' = "send"
      <3>1. budget' = ReplayPerTick /\ advanced' = advanced /\ pc = "replay"
        BY <1>5, <2>1 DEF ReplayBegin
      <3>2. size' # Unloaded /\ ~staleCursor' => cursor' = diskCursor'
        BY <2>1, <3>1 DEF FollowInv, LoopInv
      <3> QED
        BY <1>0, <1>b, <3>1, <3>2
    <2> QED
      BY <1>3, <1>5, <2>1 DEF ReplayBegin
  <1>6. CASE ReplayAcked
    <2>1. PICK e \in LineEnds(cursor) : cursor' = e
      BY <1>6 DEF ReplayAcked, NextCursor
    <2>2. /\ pc = "send" /\ budget' = budget - 1 /\ pc' \in {"send", "close"}
          /\ pc' = "close" => budget = 1
          /\ UNCHANGED <<size, file, diskCursor, staleCursor>>
      BY <1>6 DEF ReplayAcked, TickDone, disk
    <2>3. Boundary(file, cursor) /\ size # Unloaded /\ Whole(file) /\ budget > 0
      BY <1>d, <2>2 DEF LoopInv, Unspoilt, RamInv, Sound
    <2>4. e = cursor + 2 /\ e \in 1..Len(file) /\ file[e].eol
      BY <1>0, <2>1, <2>3, NextLine
    <2>5. ~file[cursor + 1].eol
      <3>1. cursor + 1 \in (cursor + 1)..(e - 1)
        BY <1>0, <2>4
      <3> QED
        BY <2>1, <3>1 DEF LineEnds
    <2>6. ~staleCursor => Unsaved' <= Unsaved + 1
      <3>1. \A i \in (diskCursor + 1)..(cursor + 2) :
               i \in (diskCursor + 1)..cursor \/ i = cursor + 1 \/ i = cursor + 2
        BY <1>0
      <3>2. LinesIn(file, diskCursor, cursor + 2) \in
               SUBSET (LinesIn(file, diskCursor, cursor) \union {cursor + 2})
        BY <2>5, <3>1 DEF LinesIn
      <3>3. /\ IsFiniteSet(LinesIn(file, diskCursor, cursor))
            /\ Cardinality(LinesIn(file, diskCursor, cursor)) \in Nat
        BY <1>0, LinesInFinite
      <3>4. /\ IsFiniteSet(LinesIn(file, diskCursor, cursor) \union {cursor + 2})
            /\ Cardinality(LinesIn(file, diskCursor, cursor) \union {cursor + 2})
                  <= Cardinality(LinesIn(file, diskCursor, cursor)) + 1
            /\ Cardinality(LinesIn(file, diskCursor, cursor) \union {cursor + 2}) \in Nat
        <4> DEFINE A == LinesIn(file, diskCursor, cursor)
        <4>1. IsFiniteSet(A) /\ Cardinality(A) \in Nat
          BY <3>3
        <4> HIDE DEF A
        <4>2. /\ IsFiniteSet(A \union {cursor + 2})
              /\ Cardinality(A \union {cursor + 2}) \in {Cardinality(A), Cardinality(A) + 1}
          BY <4>1, FS_AddElement, Zenon
        <4>3. \A k \in Nat : k <= k + 1 /\ k + 1 <= k + 1 /\ k + 1 \in Nat
          OBVIOUS
        <4>4. /\ Cardinality(A \union {cursor + 2}) <= Cardinality(A) + 1
              /\ Cardinality(A \union {cursor + 2}) \in Nat
          BY <4>1, <4>2, <4>3, Zenon
        <4> QED
          BY <4>2, <4>4 DEF A
      <3>5. /\ Cardinality(LinesIn(file, diskCursor, cursor + 2))
                  <= Cardinality(LinesIn(file, diskCursor, cursor) \union {cursor + 2})
            /\ Cardinality(LinesIn(file, diskCursor, cursor + 2)) \in Nat
        <4>1. IsFiniteSet(LinesIn(file, diskCursor, cursor + 2))
          BY <3>2, <3>4, FS_Subset
        <4>2. Cardinality(LinesIn(file, diskCursor, cursor + 2))
                 <= Cardinality(LinesIn(file, diskCursor, cursor) \union {cursor + 2})
          BY <3>2, <3>4, FS_Subset
        <4>3. Cardinality(LinesIn(file, diskCursor, cursor + 2)) \in Nat
          BY <4>1, FS_CardinalityType
        <4> QED
          BY <4>2, <4>3, Zenon
      <3>6. Unsaved' = Cardinality(LinesIn(file, diskCursor, cursor + 2))
        BY <2>1, <2>2, <2>4 DEF Unsaved
      <3> QED
        BY <3>3, <3>4, <3>5, <3>6 DEF Unsaved
    <2>7. ~staleCursor => Unsaved + budget <= ReplayPerTick
      BY <1>d, <2>2, <2>3 DEF WindowInv
    <2>8. ASSUME ~staleCursor
          PROVE  Unsaved' <= ReplayPerTick /\ (pc' = "send" => Unsaved' + budget' <= ReplayPerTick)
      <3>1. ReplayPerTick \in Nat
        OBVIOUS
      <3>2. \A u, v, b \in Nat :
               v <= u + 1 /\ u + b <= ReplayPerTick /\ b > 0
               => v <= ReplayPerTick /\ v + (b - 1) <= ReplayPerTick
        BY <3>1
      <3>3. Unsaved' <= Unsaved + 1 /\ Unsaved + budget <= ReplayPerTick /\ budget > 0
        BY <2>3, <2>6, <2>7, <2>8
      <3>4. Unsaved' <= ReplayPerTick /\ Unsaved' + (budget - 1) <= ReplayPerTick
        BY <1>0, <1>a, <3>2, <3>3, Zenon
      <3> QED
        BY <2>2, <3>4, Zenon
    <2> QED
      BY <2>2, <2>8 DEF WindowInv
  <1>7. CASE ReplayFailed \/ ReplayEndOfFile \/ ReplayClose
    <2>1. /\ UNCHANGED <<cursor, diskCursor, file, staleCursor>> /\ pc \in {"send", "close"}
          /\ pc' # "send"
      BY <1>7 DEF ReplayFailed, ReplayEndOfFile, ReplayClose, AfterReplay, disk, history
    <2>2. Unsaved' = Unsaved /\ size # Unloaded
      BY <2>1 DEF Unsaved, LoopInv
    <2> QED
      BY <1>c, <2>1, <2>2
  <1>9. CASE SaveOpen
    <2>1. pc' = "save_write"
      BY <1>9 DEF SaveOpen
    <2> QED
      BY <2>1 DEF WindowInv
  <1> QED
    BY <1>1, <1>2, <1>3, <1>4, <1>5, <1>6, <1>7, <1>9
       DEF Next, TaskStep, ReceiveRow, ReceiveTimeout, PublishLive, AppendWrite, AppendFails,
           SaveWrite, TypeOK, LinkChange, task, disk, history, vars

\* The boot satisfies the invariant of the refinement.
LEMMA InitR == Init => RInv
  <1> SUFFICES ASSUME Init PROVE RInv
    OBVIOUS
  <1>1. IInv
    BY InitInv
  <1>2. HandInv /\ CapInv /\ FaultInv /\ FollowInv /\ WindowInv
    BY DEF Init, HandInv, CapInv, FaultInv, FollowInv, WindowInv
  <1>3. BacklogInv
    <2>1. Len(file) = 0
      BY DEF Init
    <2>2. RowsOf(file, 0) = {}
      BY <2>1 DEF RowsOf
    <2>3. IsFiniteSet(RowsOf(file, 0)) /\ 2 * Cardinality(RowsOf(file, 0)) = Len(file) - 0
      BY <2>1, <2>2, FS_EmptySet
    <2>4. \A c \in 0..Len(file) : c = 0
      BY <2>1
    <2>5. \A i \in 1..Len(file) : FALSE
      BY <2>1
    <2> QED
      BY <2>3, <2>4, <2>5, Zenon DEF BacklogInv
  <1> QED
    BY <1>1, <1>2, <1>3 DEF RInv

\* Every step keeps the invariant of the refinement.
LEMMA StepR == RInv /\ [Next]_vars => RInv'
  <1> SUFFICES ASSUME RInv, [Next]_vars PROVE RInv'
    OBVIOUS
  <1>0. /\ TypeOK /\ LoopInv /\ KeptInv /\ HandInv /\ CapInv /\ FaultInv
        /\ ~Spoilt => Unspoilt /\ BacklogInv
    BY DEF RInv, IInv
  <1>1. IInv'
    <2>1. TypeOK' /\ LoopInv' /\ KeptInv'
      BY <1>0, TypeStep, LoopStep, KeptStep
    <2>2. ~Spoilt' => Unspoilt'
      BY <1>0, UnspoiltStep
    <2> QED
      BY <2>1, <2>2 DEF IInv
  <1>2. HandInv' /\ CapInv' /\ FaultInv'
    BY <1>0, HandStep, CapStep, FaultStep
  <1>3. ~Spoilt' => BacklogInv'
    BY <1>0, BacklogStep
  <1>4. ASSUME damage' = {}, "io_error" \notin Faults PROVE FollowInv' /\ WindowInv'
    <2>1. damage = {} => Unspoilt /\ FollowInv /\ WindowInv
      BY <1>0, <1>4 DEF RInv, Spoilt
    <2>2. FollowInv'
      BY <1>0, <1>4, <2>1, FollowStep
    <2>3. TypeOK'
      BY <1>1 DEF IInv
    <2> QED
      BY <1>0, <1>4, <2>1, <2>2, <2>3, WindowStep
  <1> QED
    BY <1>1, <1>2, <1>3, <1>4 DEF RInv

\* The invariant of the refinement holds in every reachable state.
THEOREM RefinementInvariance == Spec => []RInv
  BY InitR, StepR, PTL DEF Spec

\* Without I/O errors a power cut re-sends at most the rows of one tick, whatever
\* the budget: between ticks the cursors of RAM and card agree, and within one
\* bms.cursor trails by at most SPOOL_REPLAY_PER_TICK rows.
THEOREM WindowBounded == Spec => []ReplayWindow
  <1>1. ASSUME RInv PROVE ReplayWindow
    <2> SUFFICES ASSUME "io_error" \notin Faults, damage = {}, ~staleCursor
                 PROVE  /\ pc # "save_write" =>
                             Cardinality(LinesIn(file, RecoveredCursor, EffectiveCursor)) <= ReplayPerTick
                        /\ pc \in {"receive", "publish", "append"} => RecoveredCursor = EffectiveCursor
      BY DEF ReplayWindow, LinesIn
    <2>1. TypeOK /\ Unspoilt /\ FollowInv /\ WindowInv
      BY <1>1 DEF RInv, IInv, Spoilt
    <2>2. Len(file) \in Nat /\ diskCursor \in Nat /\ ReplayPerTick \in Nat
      <3>1. file \in Seq(CellType)
        BY <2>1 DEF TypeOK, CellType
      <3> QED
        BY <2>1, <3>1, LenProperties, BudgetAssumption DEF TypeOK
    <2>3. RecoveredCursor = diskCursor
      BY <2>1, <2>2 DEF Unspoilt, DiskInv, Sound, Boundary, RecoveredCursor, Lesser
    <2>4. CASE size = Unloaded
      <3>1. EffectiveCursor = RecoveredCursor
        BY <2>4 DEF EffectiveCursor
      <3>2. Cardinality(LinesIn(file, diskCursor, diskCursor)) = 0
        BY <2>2, LinesInFinite
      <3>3. 0 <= ReplayPerTick
        BY <2>2
      <3> QED
        BY <2>3, <3>1, <3>2, <3>3, Zenon
    <2>5. CASE size # Unloaded
      <3>1. EffectiveCursor = cursor
        BY <2>5 DEF EffectiveCursor
      <3>2. pc # "save_write" => Cardinality(LinesIn(file, diskCursor, cursor)) <= ReplayPerTick
        BY <2>1, <2>5 DEF WindowInv, Unsaved
      <3>3. pc \in {"receive", "publish", "append"} => diskCursor = cursor
        BY <2>1, <2>5 DEF FollowInv
      <3> QED
        BY <2>3, <3>1, <3>2, <3>3, Zenon
    <2> QED
      BY <2>4, <2>5
  <1> QED
    BY <1>1, RefinementInvariance, PTL

-----------------------------------------------------------------------------
(* The promise of StoreForward.                                            *)

PromiseStep == Promise!Next \/ UNCHANGED Promise!vars

\* StoreForward counts rows as this module does.
LEMMA SameCount == \A S : Promise!Cardinality(S) = Cardinality(S)
  BY DEF Promise!Cardinality, Cardinality

\* When all rows of a file were accepted, those that are owed are those ahead of the cursor.
LEMMA AllOwed ==
    ASSUME NEW f, NEW A, NEW c \in Nat, Len(f) \in Nat, \A i \in 1..Len(f) : f[i].row \in A
    PROVE  A \intersect RowsOf(f, c) = RowsOf(f, c)
  <1>1. \A i \in (c + 1)..Len(f) : i \in 1..Len(f)
    OBVIOUS
  <1> QED
    BY <1>1 DEF RowsOf

\* The rows between two offsets are owed again when the cursor falls back.
LEMMA FallBack ==
    ASSUME NEW f, NEW d \in Nat, NEW c \in Nat, d <= c, c <= Len(f), Len(f) \in Nat
    PROVE  RowsOf(f, d) = RowsOf(f, c) \union {f[i].row : i \in (d + 1)..c}
  <1>1. \A i : i \in (d + 1)..Len(f) <=> i \in (c + 1)..Len(f) \/ i \in (d + 1)..c
    OBVIOUS
  <1> QED
    BY <1>1 DEF RowsOf

\* Every step of the spool that spoils nothing is a step of the store it promises
\* to be, or changes nothing the store can see.
LEMMA StepRefines ==
    ASSUME RInv, RInv', [Next]_vars, damage = {}, damage' = {}, "io_error" \notin Faults
    PROVE  PromiseStep
  <1>a. /\ TypeOK /\ LoopInv /\ Unspoilt /\ HandInv /\ CapInv /\ BacklogInv /\ FollowInv
        /\ TypeOK' /\ Unspoilt' /\ BacklogInv' /\ FollowInv'
    BY DEF RInv, IInv, Spoilt
  <1>0. /\ file \in Seq(CellType) /\ Len(file) \in Nat /\ Len(file') \in Nat
        /\ cursor \in Nat /\ diskCursor \in Nat /\ cursor' \in Nat /\ diskCursor' \in Nat
    <2>1. file \in Seq(CellType) /\ file' \in Seq(CellType)
      BY <1>a DEF TypeOK, CellType
    <2> QED
      BY <1>a, <2>1, LenProperties DEF TypeOK
  <1>b. /\ EffectiveCursor \in Nat /\ EffectiveCursor' \in Nat
    BY <1>0 DEF EffectiveCursor, RecoveredCursor, Lesser
  <1>c. Owed = RowsOf(file, EffectiveCursor) /\ Owed' = RowsOf(file', EffectiveCursor')
    <2>1. accepted \intersect RowsOf(file, EffectiveCursor) = RowsOf(file, EffectiveCursor)
      BY <1>0, <1>a, <1>b, AllOwed DEF BacklogInv
    <2>2. accepted' \intersect RowsOf(file', EffectiveCursor') = RowsOf(file', EffectiveCursor')
      BY <1>0, <1>a, <1>b, AllOwed DEF BacklogInv
    <2> QED
      BY <2>1, <2>2 DEF Owed, RowsFrom, RowsOf
  <1>e. size # Unloaded => EffectiveCursor = cursor /\ size = Len(file) /\ cursor <= Len(file)
    BY <1>a DEF EffectiveCursor, Unspoilt, RamInv, Sound, Boundary
  \* Steps the store does not see.
  <1>s. ASSUME UNCHANGED <<file, accepted, delivered, forfeited>>, EffectiveCursor' = EffectiveCursor
        PROVE  PromiseStep
    BY <1>c, <1>s DEF PromiseStep, Promise!vars
  \* Steps in which the broker may receive a row.
  <1>t. ASSUME NEW r \in Rows, delivered' \in {delivered, delivered \union {r}},
               Owed' \in {Owed, Owed \ {r}}, delivered' = delivered => Owed' = Owed,
               UNCHANGED <<accepted, forfeited>>
        PROVE  PromiseStep
    <2>1. CASE delivered' = delivered
      BY <1>t, <2>1 DEF PromiseStep, Promise!vars
    <2>2. CASE delivered' = delivered \union {r}
      <3>1. delivered' \ {Garbage} = (delivered \ {Garbage}) \union {r}
        BY <2>2, RowsAssumption
      <3>2. Promise!Deliver(r)
        BY <1>t, <3>1 DEF Promise!Deliver
      <3> QED
        BY <3>2 DEF PromiseStep, Promise!Next
    <2> QED
      BY <1>t, <2>1, <2>2
  \* Steps that accept the row in hand.
  <1>u. ASSUME row \in Rows, pc = "append_write", accepted' = accepted \union {row},
               file' = file \o RowCells(row), EffectiveCursor' = cursor,
               UNCHANGED <<delivered, forfeited>>
        PROVE  PromiseStep
    <2>1. row \notin accepted /\ size # Unloaded
      BY <1>a, <1>u DEF HandInv, LoopInv
    <2>2. cursor \in 0..Len(file)
      BY <1>0, <1>e, <2>1
    <2>3. Owed' = Owed \union {row}
      BY <1>0, <1>c, <1>e, <1>u, <2>1, <2>2, AppendRowsOf
    <2>4. Promise!Accept(row)
      BY <1>u, <2>1, <2>3 DEF Promise!Accept
    <2> QED
      BY <1>u, <2>4 DEF PromiseStep, Promise!Next
  <1>1. CASE (\E r \in Rows : ReceiveRow(r)) \/ ReceiveTimeout \/ ReplayEndOfFile \/ ReplayClose
             \/ LinkChange \/ UNCHANGED vars
    <2>1. UNCHANGED <<file, accepted, delivered, forfeited, size, cursor, diskCursor>>
      BY <1>1 DEF ReceiveRow, ReceiveTimeout, ReplayEndOfFile, ReplayClose, LinkChange, task,
         disk, history, vars
    <2>2. EffectiveCursor' = EffectiveCursor
      BY <2>1 DEF EffectiveCursor, RecoveredCursor
    <2> QED
      BY <1>s, <2>1, <2>2
  <1>2. CASE AppendBegin \/ ReplayBegin
    <2>1. UNCHANGED <<file, accepted, delivered, forfeited, diskCursor>> /\ Load
      BY <1>2 DEF AppendBegin, ReplayBegin, disk
    <2>2. EffectiveCursor' = EffectiveCursor
      <3>1. CASE MustLoad
        <4>1. size = Unloaded /\ size' = Len(file) /\ cursor' = RecoveredCursor
          BY <2>1, <3>1 DEF Load, OrZero, MustLoad, RecoveredCursor
        <4> QED
          BY <1>0, <4>1 DEF EffectiveCursor, Unloaded
      <3>2. CASE ~MustLoad
        BY <2>1, <3>2 DEF Load, EffectiveCursor, RecoveredCursor
      <3> QED
        BY <3>1, <3>2
    <2> QED
      BY <1>s, <2>1, <2>2
  <1>3. CASE SaveOpen \/ SaveWrite
    <2>1. /\ UNCHANGED <<file, accepted, delivered, forfeited, size, cursor>>
          /\ pc \in {"save", "save_write"}
      BY <1>3 DEF SaveOpen, SaveWrite, history
    <2>2. EffectiveCursor' = EffectiveCursor
      BY <1>a, <2>1 DEF EffectiveCursor, LoopInv
    <2> QED
      BY <1>s, <2>1, <2>2
  <1>4. CASE PublishLive
    <2>1. /\ row \in Rows /\ delivered' \in {delivered, delivered \union {row}}
          /\ UNCHANGED <<file, accepted, forfeited, size, cursor, diskCursor>>
      BY <1>4, <1>a DEF PublishLive, PublishAcked, PublishFailed, LoopInv, disk
    <2>2. EffectiveCursor' = EffectiveCursor
      BY <2>1 DEF EffectiveCursor, RecoveredCursor
    <2>3. Owed' = Owed
      BY <1>c, <2>1, <2>2
    <2> QED
      BY <1>t, <2>1, <2>3
  <1>5. CASE AppendWrite
    <2>1. /\ row \in Rows /\ pc = "append_write" /\ accepted' = accepted \union {row}
          /\ file' = file \o RowCells(row) /\ UNCHANGED <<cursor, delivered, forfeited>>
          /\ size # Unloaded /\ size' = size + 2
      BY <1>5, <1>a DEF AppendWrite, LoopInv
    <2>2. EffectiveCursor' = cursor
      BY <1>0, <1>e, <2>1 DEF EffectiveCursor, Unloaded
    <2> QED
      BY <1>u, <2>1, <2>2
  <1>6. CASE AppendFails
    BY <1>6 DEF AppendFails
  <1>7. CASE ReplayAcked \/ ReplayFailed
    <2>1. PICK e \in LineEnds(cursor) :
             /\ delivered' \in {delivered, delivered \union {LineAt(cursor, e)}}
             /\ \/ cursor' = cursor
                \/ cursor' = e /\ delivered' = delivered \union {LineAt(cursor, e)}
      BY <1>7 DEF ReplayAcked, ReplayFailed, PublishAcked, PublishFailed, NextCursor
    <2>2. pc = "send" /\ UNCHANGED <<file, size, diskCursor, accepted, forfeited>>
      BY <1>7 DEF ReplayAcked, ReplayFailed, disk
    <2>3. /\ size # Unloaded /\ EffectiveCursor = cursor /\ EffectiveCursor' = cursor'
          /\ Whole(file) /\ Boundary(file, cursor)
      BY <1>a, <2>2 DEF LoopInv, EffectiveCursor, Unspoilt, RamInv, Sound
    <2> DEFINE r == LineAt(cursor, e)
    <2>4. /\ e = cursor + 2 /\ e \in 1..Len(file) /\ r \in Rows
          /\ file[cursor + 1].row = r /\ file[e].row = r
      BY <1>0, <1>a, <2>3, NextLine
    <2> HIDE DEF r
    <2>5. cursor' = cursor => Owed' = Owed
      BY <1>c, <2>2, <2>3
    <2>6. cursor' = e => Owed' \in {Owed, Owed \ {r}}
      <3>1. RowsOf(file, cursor) =
               RowsOf(file, e) \union {file[i].row : i \in (cursor + 1)..e}
        <4>1. Len(file) \in Nat /\ cursor \in Nat /\ e \in Nat /\ cursor <= e /\ e <= Len(file)
          BY <1>0, <2>4
        <4> QED
          BY <4>1, FallBack
      <3>2. \A i \in (cursor + 1)..e : file[i].row = r
        BY <1>0, <2>4
      <3>3. cursor + 1 \in (cursor + 1)..e
        BY <1>0, <2>4
      <3>4. RowsOf(file, cursor) = RowsOf(file, e) \union {r}
        BY <2>4, <3>1, <3>2, <3>3
      <3>5. cursor' = e => Owed = RowsOf(file, cursor) /\ Owed' = RowsOf(file, e)
        BY <1>c, <2>2, <2>3
      <3> QED
        BY <3>4, <3>5
    <2>7. delivered' = delivered => r \in delivered \/ cursor' = cursor
      BY <2>1 DEF r
    <2>8. delivered' \in {delivered, delivered \union {r}}
      BY <2>1 DEF r
    <2>9. CASE cursor' = cursor
      BY <1>t, <2>2, <2>4, <2>5, <2>8, <2>9
    <2>10. CASE cursor' = e /\ delivered' = delivered \union {r}
      <3>1. delivered' \ {Garbage} = (delivered \ {Garbage}) \union {r}
        BY <2>4, <2>10, RowsAssumption
      <3>2. Promise!Deliver(r)
        BY <2>2, <2>6, <2>10, <3>1 DEF Promise!Deliver
      <3> QED
        BY <2>4, <3>2 DEF PromiseStep, Promise!Next
    <2> QED
      BY <2>1, <2>9, <2>10 DEF r
  <1>8. CASE ResetUnlink
    <2>1. /\ file' = <<>> /\ size' = 0 /\ cursor' = 0 /\ pc = "unlink"
          /\ forfeited' = IF ret = "append_write"
                          THEN forfeited \union (accepted \intersect RowsFrom(cursor))
                          ELSE forfeited
          /\ UNCHANGED <<accepted, delivered>>
      BY <1>8 DEF ResetUnlink, GivenUp, LostInDamage
    <2>2. /\ size = Len(file) /\ EffectiveCursor = cursor /\ cursor <= Len(file)
          /\ Owed = RowsOf(file, cursor) /\ Boundary(file, cursor)
      BY <1>a, <1>c, <1>e, <2>1 DEF LoopInv, Unspoilt, RamInv, Sound
    <2>3. Owed' = {}
      <3>1. Len(file') = 0
        BY <2>1
      <3>2. RowsOf(file', EffectiveCursor') = {}
        BY <1>b, <3>1 DEF RowsOf
      <3> QED
        BY <1>c, <3>2
    <2>4. CASE ret = "append_write"
      <3>1. IsFiniteSet(Owed) /\ 2 * Cardinality(Owed) = Len(file) - cursor
        BY <1>a, <2>2 DEF BacklogInv, Boundary
      <3>2. Len(file) - cursor > SpoolMax
        BY <1>a, <2>1, <2>2, <2>4 DEF CapInv
      <3>3. Cardinality(Owed) > SpoolMax \div 2
        <4>1. \A k, m, n \in Nat : 2 * k = n /\ n > m => k > m \div 2
          OBVIOUS
        <4>2. Cardinality(Owed) \in Nat /\ SpoolMax \in Nat /\ Len(file) - cursor \in Nat
          BY <1>0, <2>2, <3>1, FS_CardinalityType, BoundsAssumption
        <4> QED
          BY <3>1, <3>2, <4>1, <4>2, Zenon
      <3>4. accepted \intersect RowsFrom(cursor) = Owed
        BY <2>2 DEF Owed
      <3>5. forfeited' = forfeited \union Owed
        BY <2>1, <2>4, <3>4, Zenon
      <3>6. UNCHANGED <<accepted, delivered \ {Garbage}>>
        BY <2>1
      <3>7. Promise!Sacrifice
        BY <2>3, <3>3, <3>5, <3>6, SameCount, Zenon DEF Promise!Sacrifice
      <3> QED
        BY <3>7 DEF PromiseStep, Promise!Next
    <2>5. CASE ret = "receive"
      <3>1. cursor >= size
        BY <1>a, <2>1, <2>5 DEF LoopInv
      <3>2. (cursor + 1)..Len(file) = {}
        BY <1>0, <2>2, <3>1
      <3>3. Owed = {}
        BY <2>2, <3>2 DEF RowsOf
      <3> QED
        BY <2>1, <2>3, <2>5, <3>3 DEF PromiseStep, Promise!vars
    <2> QED
      BY <1>a, <2>4, <2>5 DEF TypeOK
  <1>9. CASE Reboot
    <2>1. PICK part \in CutWrites :
             /\ file' = file \o part
             /\ accepted' = IF part = RowCells(row) THEN accepted \union {row} ELSE accepted
             /\ damage' = (damage \ SizeDamage)
                  \union (IF part # <<>> /\ part # RowCells(row) THEN {"torn_append"} ELSE {})
                  \union (IF staleCursor /\ file' # <<>> THEN {"stale_cursor"} ELSE {})
      BY <1>9 DEF Reboot
    <2>2. /\ part = <<>> \/ part = RowCells(row)
          /\ staleCursor => file' = <<>>
      BY <2>1
    <2>3. /\ size' = Unloaded /\ UNCHANGED <<diskCursor, delivered, forfeited>>
      BY <1>9 DEF Reboot
    <2>4. EffectiveCursor' = Lesser(diskCursor, Len(file'))
      BY <2>3 DEF EffectiveCursor, RecoveredCursor, Lesser
    <2>5. RowCells(row) # <<>>
      BY DEF RowCells
    <2>6. CASE part = <<>>
      <3>1. file' = file /\ accepted' = accepted
        BY <1>0, <2>1, <2>5, <2>6, ConcatEmptySeq
      <3>2. CASE staleCursor
        <4>1. Len(file) = 0
          <5>1. file = <<>>
            BY <2>2, <3>1, <3>2, Zenon
          <5> QED
            BY <5>1
        <4>2. \A c \in Nat : (c + 1)..Len(file) = {}
          BY <4>1
        <4>3. RowsOf(file, EffectiveCursor) = {} /\ RowsOf(file, EffectiveCursor') = {}
          BY <1>b, <4>2 DEF RowsOf
        <4>4. Owed = {} /\ Owed' = {}
          BY <1>c, <3>1, <4>3
        <4> QED
          BY <2>3, <3>1, <4>4 DEF PromiseStep, Promise!vars
      <3>3. CASE ~staleCursor
        <4>1. diskCursor <= Len(file) /\ EffectiveCursor' = diskCursor
          BY <1>0, <1>a, <2>4, <3>1, <3>3 DEF Unspoilt, DiskInv, Sound, Boundary, Lesser
        <4>2. diskCursor <= EffectiveCursor /\ EffectiveCursor <= Len(file)
          <5>1. CASE size = Unloaded
            BY <1>0, <4>1, <5>1 DEF EffectiveCursor, RecoveredCursor, Lesser
          <5>2. CASE size # Unloaded
            BY <1>a, <1>e, <3>3, <5>2 DEF FollowInv
          <5> QED
            BY <5>1, <5>2
        <4> DEFINE R == {file[i].row : i \in (diskCursor + 1)..EffectiveCursor}
        <4>3. Owed' = Owed \union R
          BY <1>0, <1>b, <1>c, <3>1, <4>1, <4>2, FallBack
        <4>4. R \subseteq accepted \intersect (delivered \ {Garbage}) /\ R \subseteq Rows
          <5>1. Acked(file, EffectiveCursor, delivered)
            BY <1>a, EffectiveSound DEF Sound
          <5>2. \A i \in (diskCursor + 1)..EffectiveCursor : i \in 1..Len(file) /\ i <= EffectiveCursor
            BY <1>0, <1>b, <4>2
          <5>3. \A i \in (diskCursor + 1)..EffectiveCursor :
                   file[i].row \in delivered /\ file[i].row \in accepted
            BY <1>a, <5>1, <5>2 DEF Acked, BacklogInv
          <5>4. accepted \subseteq Rows
            BY <1>a DEF TypeOK
          <5> QED
            BY <5>3, <5>4, RowsAssumption
        <4> HIDE DEF R
        <4>5. Promise!Reopen(R)
          BY <2>3, <3>1, <4>3, <4>4 DEF Promise!Reopen
        <4> QED
          BY <4>4, <4>5 DEF PromiseStep, Promise!Next
      <3> QED
        BY <3>2, <3>3
    <2>7. CASE part = RowCells(row)
      <3>1. pc = "append_write" /\ row \in Rows
        BY <1>a, <2>1, <2>5, <2>7, CutPart
      <3>2. file' = file \o RowCells(row) /\ accepted' = accepted \union {row}
        BY <2>1, <2>7
      <3>3. Len(file') = Len(file) + 2
        BY <1>0, <3>1, <3>2, AppendRow
      <3>4. ~staleCursor
        <4>1. file' # <<>>
          BY <1>0, <3>3
        <4> QED
          BY <2>2, <4>1
      <3>5. diskCursor = cursor /\ cursor <= Len(file)
        BY <1>a, <1>e, <3>1, <3>4 DEF FollowInv, LoopInv
      <3>6. EffectiveCursor' = cursor
        BY <1>0, <2>4, <3>3, <3>5 DEF Lesser
      <3> QED
        BY <1>u, <2>3, <3>1, <3>2, <3>6
    <2> QED
      BY <2>2, <2>6, <2>7
  <1> QED
    BY <1>1, <1>2, <1>3, <1>4, <1>5, <1>6, <1>7, <1>8, <1>9 DEF Next, TaskStep

\* Without I/O errors, every step that neither starts from nor leaves a damaged
\* spool is a step of the store that StoreForward specifies: only a power cut inside
\* an append or a reset takes the spool from its promise, until it is next unlinked.
THEOREM SpoolImplementsStore ==
    ASSUME "io_error" \notin Faults
    PROVE  Spec => [][damage = {} /\ damage' = {} => [Promise!Next]_(Promise!vars)]_vars
  <1>1. ASSUME RInv, RInv', [Next]_vars
        PROVE  [damage = {} /\ damage' = {} => [Promise!Next]_(Promise!vars)]_vars
    BY <1>1, StepRefines DEF PromiseStep
  <1> QED
    BY <1>1, RefinementInvariance, PTL DEF Spec

\* Without those faults nothing spoils the files: spool_reset is not cut between
\* its two files.
NoDamage == damage = {} /\ (staleCursor => pc = "save" /\ size = 0)

\* The spool keeps its promise through any number of power cuts between the steps
\* of the task, failed and repeated publishes and changes of the link.
THEOREM PromiseKept ==
    ASSUME Faults = {}
    PROVE  Spec => KeepsPromise
  <1>1. Init => Promise!Init /\ NoDamage
    <2> SUFFICES ASSUME Init PROVE Promise!Init /\ NoDamage
      OBVIOUS
    <2>1. accepted = {} /\ delivered = {} /\ forfeited = {} /\ damage = {} /\ ~staleCursor
      BY DEF Init
    <2> QED
      BY <2>1 DEF Promise!Init, NoDamage, Owed
  <1>2. NoDamage /\ RInv /\ RInv' /\ [Next]_vars => NoDamage'
    <2> SUFFICES ASSUME NoDamage, RInv, RInv', [Next]_vars PROVE NoDamage'
      OBVIOUS
    <2>1. CASE Reboot
      <3>1. PICK part \in CutWrites :
               /\ file' = file \o part
               /\ damage' = (damage \ SizeDamage)
                    \union (IF part # <<>> /\ part # RowCells(row) THEN {"torn_append"} ELSE {})
                    \union (IF staleCursor /\ file' # <<>> THEN {"stale_cursor"} ELSE {})
        BY <2>1 DEF Reboot
      <3>2. part = <<>> \/ part = RowCells(row)
        BY DEF CutWrites
      <3>3. ~staleCursor /\ staleCursor' = staleCursor
        BY <2>1 DEF Reboot, InResetWindow, NoDamage
      <3> QED
        BY <3>1, <3>2, <3>3 DEF NoDamage
    <2>6. CASE Load /\ UNCHANGED staleCursor /\ (pc # "save" \/ UNCHANGED <<pc, size>>)
      BY <2>6, NoErrorLoad DEF NoDamage, RInv, IInv
    <2>2. CASE SaveOpen
      BY <2>2 DEF SaveOpen, NoDamage
    <2>3. CASE ResetUnlink
      BY <2>3 DEF ResetUnlink, NoDamage
    <2>4. CASE AppendFails
      BY <2>4 DEF AppendFails
    <2>5. CASE UNCHANGED <<damage, staleCursor>> /\ (pc # "save" \/ UNCHANGED <<pc, size>>)
      BY <2>5 DEF NoDamage
    <2> QED
      BY <2>1, <2>2, <2>3, <2>4, <2>5, <2>6
         DEF Next, TaskStep, ReceiveRow, ReceiveTimeout, PublishLive, AppendBegin, AppendWrite,
             ReplayBegin, ReplayAcked, ReplayFailed, ReplayEndOfFile, ReplayClose, SaveWrite,
             LinkChange, task, history, vars
  <1>3. ASSUME RInv, RInv', [Next]_vars, NoDamage, NoDamage' PROVE [Promise!Next]_(Promise!vars)
    BY <1>3, StepRefines DEF PromiseStep, NoDamage
  <1> QED
    BY <1>1, <1>2, <1>3, RefinementInvariance, PTL DEF Spec, KeepsPromise, Promise!Spec
=============================================================================
