----------------------------- MODULE RingProofs -----------------------------
(***************************************************************************)
(* What the ring guarantees for every capacity, cursor range, numbering    *)
(* and choice of batches.  First the arithmetic of wrapping cursors, the   *)
(* facts about Distance, Advance and Offset on which everything rests.     *)
(* Then the writer: none of its bound checks fails, and the amount it      *)
(* reports is not too small.  That argument measures every cursor from     *)
(* snapConsumer, the consumer cursor the call loaded at its start: the     *)
(* consumer, the producer and the planned cursor stay in that order and    *)
(* within one capacity of it, however far the consumer has moved since.    *)
(* Last the data area: what is in flight lies in the ring without gap and  *)
(* without overlap, header for header and cell for cell, so the reader     *)
(* finds at its cursor the record the writer put there, and the ring       *)
(* implements RecordQueue.                                                 *)
(***************************************************************************)
EXTENDS RingProperties, FiniteSetTheorems, WellFoundedInduction, TLAPS

\* Capacity divides the cursor range, as every power of two does: a cursor
\* that wraps keeps its physical offset.
Aligned == CursorModulus % Capacity = 0

\* The capacity a cursor may run ahead is less than half of its range.
LEMMA Geometry ==
  /\ Capacity \in Nat /\ Capacity > 0
  /\ CursorModulus \in Nat
  /\ 2 * Capacity < CursorModulus
BY GeometryAssumption

\* A distance is a number of cells below the cursor range.
LEMMA DistanceType ==
  ASSUME NEW a \in Cursor, NEW b \in Cursor
  PROVE  /\ Distance(a, b) \in Nat
         /\ Distance(a, b) < CursorModulus
BY Geometry DEF Distance, Cursor

\* A cursor advanced by at most the capacity is a cursor, that far ahead.
LEMMA AdvanceType ==
  ASSUME NEW a \in Cursor, NEW n \in 0 .. Capacity
  PROVE  /\ Advance(a, n) \in Cursor
         /\ Distance(Advance(a, n), a) = n
BY Geometry DEF Advance, Distance, Cursor

\* Distances from one base add up as long as they stay below the range.
LEMMA AdvanceDistance ==
  ASSUME NEW a \in Cursor, NEW base \in Cursor, NEW n \in 0 .. Capacity,
         Distance(a, base) <= Capacity
  PROVE  Distance(Advance(a, n), base) = Distance(a, base) + n
BY Geometry DEF Advance, Distance, Cursor

\* Two cursors seen from a third one, the nearer one first.
LEMMA DistanceBetween ==
  ASSUME NEW a \in Cursor, NEW b \in Cursor, NEW base \in Cursor,
         Distance(a, base) <= Distance(b, base)
  PROVE  Distance(b, a) = Distance(b, base) - Distance(a, base)
BY Geometry DEF Distance, Cursor

\* The base moves forward to a cursor that is not beyond the other one.
LEMMA DistanceRebase ==
  ASSUME NEW a \in Cursor, NEW base \in Cursor, NEW next \in Cursor,
         Distance(next, base) <= Distance(a, base)
  PROVE  Distance(a, next) = Distance(a, base) - Distance(next, base)
BY Geometry DEF Distance, Cursor

\* Distances in a row add up as long as they stay below the range.
LEMMA DistanceChain ==
  ASSUME NEW a \in Cursor, NEW b \in Cursor, NEW base \in Cursor,
         Distance(b, base) + Distance(a, b) < CursorModulus
  PROVE  Distance(a, base) = Distance(b, base) + Distance(a, b)
BY Geometry DEF Distance, Cursor

-----------------------------------------------------------------------------
(* Physical offsets. *)

\* The remainder is the only one with its quotient.
LEMMA ModUnique ==
  ASSUME NEW m \in Nat \ {0}, NEW a \in Nat, NEW q \in Nat, NEW r \in Nat,
         a = m * q + r, r < m
  PROVE  a % m = r
OBVIOUS

LEMMA ModRange ==
  ASSUME NEW m \in Nat \ {0}, NEW a \in Nat
  PROVE  /\ a % m \in Nat /\ a % m < m
         /\ a \div m \in Nat
         /\ a = m * (a \div m) + (a % m)
OBVIOUS

\* Every number is a quotient and a remainder.
LEMMA ModSplit ==
  ASSUME NEW m \in Nat \ {0}, NEW a \in Nat
  PROVE  \E q \in Nat, r \in Nat : r < m /\ a = m * q + r /\ a % m = r
BY ModRange

\* Adding within one revolution.
LEMMA ModAdd ==
  ASSUME NEW m \in Nat \ {0}, NEW a \in Nat, NEW n \in Nat,
         n <= m
  PROVE  (a + n) % m = IF (a % m) + n < m THEN (a % m) + n ELSE (a % m) + n - m
<1>1. PICK q \in Nat, r \in Nat : r < m /\ a = m * q + r /\ a % m = r
  BY ModSplit
<1>2. CASE r + n < m
  <2>1. a + n = m * q + (r + n)
    BY <1>1
  <2> QED BY <1>1, <1>2, <2>1, ModUnique
<1>3. CASE ~(r + n < m)
  <2>1. PICK s \in Nat : s = r + n - m /\ s < m
    BY <1>1, <1>3
  <2>2. PICK p \in Nat : p = q + 1
    OBVIOUS
  <2>3. m * p = m * q + m
    BY <2>2
  <2>4. a + n \in Nat /\ a + n = m * p + s
    BY <1>1, <2>1, <2>3
  <2>5. (a + n) % m = s
    BY <2>1, <2>4, ModUnique
  <2> QED BY <1>1, <1>3, <2>1, <2>5
<1> QED BY <1>1, <1>2, <1>3

\* Taking away a multiple.
LEMMA ModSubtract ==
  ASSUME NEW m \in Nat \ {0}, NEW w \in Nat, w % m = 0,
         NEW a \in Nat, a >= w
  PROVE  (a - w) % m = a % m
<1>1. PICK k \in Nat : w = m * k
  <2>1. PICK k \in Nat, z \in Nat : z < m /\ w = m * k + z /\ w % m = z
    BY ModSplit
  <2> QED BY <2>1
<1>2. PICK q \in Nat, r \in Nat : r < m /\ a - w = m * q + r /\ (a - w) % m = r
  <2>1. a - w \in Nat
    OBVIOUS
  <2> QED BY <2>1, ModSplit
<1>3. PICK p \in Nat : p = k + q
  OBVIOUS
<1>4. m * p = m * k + m * q
  BY <1>3
<1>5. a = m * p + r
  BY <1>1, <1>2, <1>4
<1>6. a % m = r
  BY <1>2, <1>5, ModUnique
<1> QED BY <1>2, <1>6

\* An offset is inside the data area.
LEMMA OffsetType ==
  ASSUME NEW c \in Cursor
  PROVE  Offset(c) \in Offsets
BY Geometry, ModRange DEF Offset, Offsets, Cursor

\* The offset of an advanced cursor, which holds at the wrap of the cursor too
\* because the capacity divides its range.
LEMMA OffsetAdvance ==
  ASSUME Aligned, NEW c \in Cursor, NEW n \in 0 .. Capacity
  PROVE  Offset(Advance(c, n)) = IF Offset(c) + n < Capacity
                                 THEN Offset(c) + n
                                 ELSE Offset(c) + n - Capacity
<1>1. Capacity \in Nat \ {0} /\ CursorModulus \in Nat /\ c \in Nat /\ n \in Nat /\ n <= Capacity
  BY Geometry DEF Cursor
<1>2. (c + n) % Capacity = IF (c % Capacity) + n < Capacity
                           THEN (c % Capacity) + n
                           ELSE (c % Capacity) + n - Capacity
  BY <1>1, ModAdd
<1>3. CASE c + n < CursorModulus
  BY <1>2, <1>3 DEF Advance, Offset
<1>4. CASE ~(c + n < CursorModulus)
  <2>1. PICK s \in Nat : s = c + n /\ s >= CursorModulus
    BY <1>1, <1>4
  <2>2. CursorModulus % Capacity = 0
    BY DEF Aligned
  <2>3. (s - CursorModulus) % Capacity = s % Capacity
    BY <1>1, <2>1, <2>2, ModSubtract
  <2>4. Advance(c, n) = s - CursorModulus
    BY <1>1, <1>4, <2>1 DEF Advance
  <2>5. Offset(Advance(c, n)) = s % Capacity
    BY <2>3, <2>4 DEF Offset
  <2> QED BY <1>2, <2>1, <2>5 DEF Offset
<1> QED BY <1>3, <1>4

-----------------------------------------------------------------------------
(* The invariant of the writer. *)

Ahead(c) == Distance(c, snapConsumer)

Calling == wpc \in {"planning", "storing"}

\* The snapshot, the consumer, the producer and the plan, in this order.
SnapshotOrder ==
  Calling => /\ Ahead(consumer) <= Ahead(producer)
             /\ Ahead(producer) <= Ahead(planCursor)
             /\ Ahead(planCursor) <= Capacity

\* A planned write lies between producer and plan and does not straddle the end.
PlannedInside ==
  Calling => \A i \in DOMAIN planned :
               LET w == planned[i]
               IN  /\ Ahead(producer) <= Ahead(w.cursor)
                   /\ Ahead(w.cursor) + w.rec.length <= Ahead(planCursor)
                   /\ Offset(w.cursor) + w.rec.length <= Capacity

\* What the last call reported still bounds what is unconsumed.
OutcomeCurrent ==
  /\ Calling => outcome.result # "sent"
  /\ wpc = "committed" => producer = planCursor
  /\ BufferedNotUnderstated

WriterInv ==
  /\ CodeTypes
  /\ Used <= Capacity
  /\ WriterNeverFails
  /\ SnapshotOrder
  /\ PlannedInside
  /\ OutcomeCurrent

USE DEF WriterNeverFails

\* An element of a concatenation comes from one of its parts.
LEMMA ConcatElements ==
  ASSUME NEW S, NEW s \in Seq(S), NEW t \in Seq(S), NEW i \in DOMAIN (s \o t)
  PROVE  \/ i \in DOMAIN s /\ (s \o t)[i] = s[i]
         \/ i - Len(s) \in DOMAIN t /\ (s \o t)[i] = t[i - Len(s)]
OBVIOUS

LEMMA NoRecordType == NoRecord \in Record
BY Geometry, NumberingAssumption DEF NoRecord, Record, Sequence

LEMMA ZeroCellType == ZeroCell \in Cell
BY Geometry, NoRecordType DEF ZeroCell, Cell, Offsets

\* The wrap tail of a record is shorter than the capacity, and lets the record
\* end inside the data area.
LEMMA PaddingType ==
  ASSUME Aligned, NEW c \in Cursor, NEW length \in 1 .. Capacity
  PROVE  /\ WrapPadding(c, length) \in 0 .. Capacity
         /\ WrapPadding(c, length) < length
         /\ WrapPadding(c, length) > 0 => Offset(c) + WrapPadding(c, length) = Capacity
         /\ Offset(Advance(c, WrapPadding(c, length))) + length <= Capacity
<1>1. Offset(c) \in Offsets
  BY OffsetType
<1>2. CASE length > RoomBeforeEnd(c)
  <2>1. /\ WrapPadding(c, length) \in 0 .. Capacity
        /\ WrapPadding(c, length) = Capacity - Offset(c)
    BY <1>1, <1>2, Geometry DEF WrapPadding, RoomBeforeEnd, Offsets
  <2>2. Offset(Advance(c, WrapPadding(c, length))) = 0
    BY <1>1, <2>1, OffsetAdvance, Geometry DEF Offsets
  <2> QED BY <1>1, <1>2, <2>1, <2>2, Geometry DEF RoomBeforeEnd, Offsets
<1>3. CASE ~(length > RoomBeforeEnd(c))
  <2>1. WrapPadding(c, length) = 0
    BY <1>3 DEF WrapPadding
  <2>2. Offset(Advance(c, 0)) = Offset(c)
    BY <1>1, OffsetAdvance, Geometry DEF Offsets
  <2> QED BY <1>1, <1>3, <2>1, <2>2, Geometry DEF RoomBeforeEnd, Offsets
<1> QED BY <1>2, <1>3

\* Storing a record leaves every cell a cell.
LEMMA StoredType ==
  ASSUME NEW memory \in [Offsets -> Cell], NEW c \in Cursor, NEW rec \in Record
  PROVE  Stored(memory, c, rec) \in [Offsets -> Cell]
<1> SUFFICES ASSUME NEW o \in Offsets
             PROVE  Stored(memory, c, rec)[o] \in Cell
  BY DEF Stored
<1>1. CASE o \in Span(c, rec.length)
  <2>1. o - Offset(c) \in Offsets
    BY <1>1, OffsetType, Geometry DEF Span, Offsets, Record
  <2>2. CellOf(rec, o - Offset(c)) \in Cell
    BY <2>1, ZeroCellType DEF CellOf, Cell
  <2> QED BY <1>1, <2>2 DEF Stored
<1>2. CASE o \notin Span(c, rec.length)
  BY <1>2 DEF Stored
<1> QED BY <1>1, <1>2

\* Ids and sequence numbers wrap within their types.
LEMMA NumbersType ==
  /\ \A s \in Sequence : NextSequence(s) \in Sequence
  /\ \A id \in MessageId : NextId(id) \in MessageId
<1>1. ASSUME NEW s \in Sequence PROVE NextSequence(s) \in Sequence
  BY NumberingAssumption, ModRange DEF Sequence, NextSequence
<1>2. ASSUME NEW id \in MessageId PROVE NextId(id) \in MessageId
  BY NumberingAssumption, ModRange DEF MessageId, NextId
<1> QED BY <1>1, <1>2

LEMMA WriterInit == Init => WriterInv
<1> SUFFICES ASSUME Init PROVE WriterInv
  OBVIOUS
<1> USE Geometry, NumberingAssumption
<1>1. producer \in Cursor /\ consumer \in Cursor /\ planCursor \in Cursor
      /\ snapConsumer \in Cursor /\ Used = 0
  BY DEF Init, Cursor, Used, Distance
<1>2. bytes \in [Offsets -> Cell] /\ seen \in [Offsets -> Cell]
  BY ZeroCellType DEF Init
<1>3. /\ nextSequence \in Sequence /\ planSequence \in Sequence
      /\ expectedSequence \in Sequence /\ nextId \in MessageId
  BY DEF Init, Sequence, MessageId
<1>4. outcome \in [result : {"none", "backpressured", "sent"},
                   buffered : 0 .. Capacity, signal : BOOLEAN]
  BY DEF Init, NoOutcome
<1>5. /\ receipt \in [current : Cursor, next : Cursor, rec : Record]
      /\ received \in Record
  BY NoRecordType, <1>1 DEF Init, NoReceipt
<1>6. CodeTypes
  BY <1>1, <1>2, <1>3, <1>4, <1>5 DEF CodeTypes, Init
<1>7. /\ Used <= Capacity /\ wpc = "idle" /\ outcome.result = "none"
  BY <1>1 DEF Init, NoOutcome
<1> QED
  BY <1>6, <1>7 DEF WriterInv, SnapshotOrder, PlannedInside, OutcomeCurrent,
                    Calling, BufferedNotUnderstated

-----------------------------------------------------------------------------
(* One lemma per action of the writer. *)

LEMMA BeginSendStep ==
  ASSUME WriterInv,
         NEW call \in {"single", "fragments"}, NEW batch \in Batches,
         BeginSend(call, batch)
  PROVE  WriterInv'
<1> USE Geometry, NumberingAssumption
<1>1. /\ wpc' = "planning" /\ outcome' = NoOutcome
      /\ planCursor' = producer /\ snapConsumer' = consumer /\ planned' = <<>>
      /\ UNCHANGED <<sharedVars, nextSequence, nextId, readerVars>>
  BY DEF BeginSend, WriterInv, Used
<1>2. CodeTypes'
  <2>1. outcome' \in [result : {"none", "backpressured", "sent"},
                      buffered : 0 .. Capacity, signal : BOOLEAN]
    BY <1>1 DEF NoOutcome
  <2>2. /\ op' \in {"single", "fragments"}
        /\ unplanned' \in Seq(RecordPrefix .. Capacity)
        /\ planned' \in Seq(PlannedWrite) /\ stored' \in 0 .. Len(planned')
    BY <1>1 DEF BeginSend
  <2>3. /\ planCursor' \in Cursor /\ snapConsumer' \in Cursor
        /\ planSequence' \in Sequence
    BY <1>1 DEF WriterInv, CodeTypes, BeginSend
  <2> QED
    BY <1>1, <2>1, <2>2, <2>3 DEF WriterInv, CodeTypes, sharedVars, readerVars
<1>3. Used' = Used
  BY <1>1 DEF Used, sharedVars
<1>4. SnapshotOrder'
  BY <1>1 DEF SnapshotOrder, Ahead, WriterInv, Used, CodeTypes, sharedVars, Distance, Cursor
<1>5. PlannedInside'
  BY <1>1 DEF PlannedInside
<1>6. OutcomeCurrent'
  BY <1>1 DEF OutcomeCurrent, NoOutcome, BufferedNotUnderstated
<1> QED
  BY <1>1, <1>2, <1>3, <1>4, <1>5, <1>6 DEF WriterInv

LEMMA PlanRecordStep ==
  ASSUME Aligned, WriterInv, PlanRecord
  PROVE  WriterInv'
<1> USE Geometry, NumberingAssumption
<1> DEFINE length == Head(unplanned)
           padding == WrapPadding(planCursor, length)
           start == Advance(planCursor, padding)
           tail == IF padding = 0 THEN <<>>
                   ELSE <<[cursor |-> planCursor, rec |-> PaddingRecord(padding)]>>
           write == [cursor |-> start, rec |-> DataRecord(length)]
<1>1. /\ wpc = "planning" /\ wpc' \in {"planning", "storing"}
      /\ planned' = planned \o tail \o <<write>>
      /\ planCursor' = Advance(planCursor, padding + length)
      /\ padding + length <= Capacity - Ahead(planCursor)
      /\ UNCHANGED <<sharedVars, nextSequence, nextId, op, stored, snapConsumer,
                     outcome, readerVars>>
  BY DEF PlanRecord, Fits, Required, Ahead
<1>2. CodeTypes
  BY DEF WriterInv
<1>3. length \in RecordPrefix .. Capacity /\ length \in 1 .. Capacity
  BY <1>2 DEF PlanRecord, CodeTypes, RecordPrefix
<1>4. /\ planCursor \in Cursor /\ snapConsumer \in Cursor
      /\ Ahead(planCursor) \in Nat /\ Ahead(planCursor) <= Capacity
  BY <1>1, <1>2, DistanceType DEF CodeTypes, WriterInv, SnapshotOrder, Calling, Ahead
<1>5. /\ padding \in 0 .. Capacity
      /\ padding > 0 => Offset(planCursor) + padding = Capacity
      /\ Offset(start) + length <= Capacity
  BY <1>3, <1>4, PaddingType
<1> HIDE DEF length, padding
<1>6. padding + length \in 0 .. Capacity
  BY <1>1, <1>3, <1>4, <1>5
<1>7. /\ start \in Cursor /\ planCursor' \in Cursor
      /\ Ahead(start) = Ahead(planCursor) + padding
      /\ Ahead(planCursor)' = Ahead(planCursor) + padding + length
  BY <1>1, <1>3, <1>4, <1>5, <1>6, AdvanceType, AdvanceDistance DEF Ahead
<1>8. write \in PlannedWrite
  <2>1. DataRecord(length) \in Record
    BY <1>2, <1>3 DEF DataRecord, Record, CodeTypes, MessageId
  <2> QED BY <1>7, <2>1 DEF PlannedWrite
<1>9. tail \in Seq(PlannedWrite)
  <2>1. CASE padding = 0
    BY <2>1
  <2>2. CASE padding # 0
    <3>1. PaddingRecord(padding) \in Record
      BY <1>2, <1>5, <2>2 DEF PaddingRecord, Record, CodeTypes
    <3>2. [cursor |-> planCursor, rec |-> PaddingRecord(padding)] \in PlannedWrite
      BY <1>4, <3>1 DEF PlannedWrite
    <3> QED BY <2>2, <3>2
  <2> QED BY <2>1, <2>2
<1>10. planned \in Seq(PlannedWrite) /\ stored \in 0 .. Len(planned)
  BY <1>2 DEF CodeTypes
<1>11. CodeTypes'
  <2>1. planned' \in Seq(PlannedWrite) /\ stored' \in 0 .. Len(planned')
    BY <1>1, <1>8, <1>9, <1>10
  <2>2. unplanned' \in Seq(RecordPrefix .. Capacity)
    BY <1>2 DEF CodeTypes, PlanRecord
  <2>3. planSequence' \in Sequence
    BY <1>2, NumbersType DEF CodeTypes, PlanRecord
  <2>4. UNCHANGED <<producer, consumer, bytes, seen, nextSequence, nextId, op, snapConsumer,
                    outcome, expectedSequence, rpc, receipt, received>>
    BY <1>1 DEF sharedVars, readerVars
  <2> QED
    BY <1>1, <1>2, <1>7, <2>1, <2>2, <2>3, <2>4 DEF CodeTypes
<1>12. /\ UNCHANGED <<producer, consumer, snapConsumer>>
       /\ Ahead(consumer) <= Ahead(producer) /\ Ahead(producer) <= Ahead(planCursor)
       /\ Ahead(producer) \in Nat /\ Ahead(consumer) \in Nat
  BY <1>1, <1>2, DistanceType
     DEF sharedVars, WriterInv, SnapshotOrder, Calling, Ahead, CodeTypes
<1>13. SnapshotOrder'
  <2>1. Ahead(planCursor)' <= Capacity
    BY <1>1, <1>3, <1>4, <1>5, <1>7
  <2>2. Ahead(consumer)' <= Ahead(producer)'
    BY <1>12 DEF Ahead
  <2>3. Ahead(producer)' <= Ahead(planCursor)'
    <3>1. Ahead(producer)' = Ahead(producer)
      BY <1>12 DEF Ahead
    <3> QED BY <1>3, <1>4, <1>5, <1>7, <1>12, <3>1
  <2> QED BY <2>1, <2>2, <2>3 DEF SnapshotOrder
<1>14. PlannedInside'
  <2> DEFINE Inside(w) == /\ Ahead(producer) <= Ahead(w.cursor)
                          /\ Ahead(w.cursor) + w.rec.length
                               <= Ahead(planCursor) + padding + length
                          /\ Offset(w.cursor) + w.rec.length <= Capacity
  <2>1. \A i \in DOMAIN planned : Inside(planned[i])
    <3> SUFFICES ASSUME NEW i \in DOMAIN planned PROVE Inside(planned[i])
      OBVIOUS
    <3>1. planned[i] \in PlannedWrite
      BY <1>10
    <3>2. Ahead(planned[i].cursor) \in Nat /\ planned[i].rec.length \in Nat
      BY <1>4, <3>1, DistanceType DEF PlannedWrite, Ahead, Record
    <3>3. Ahead(planned[i].cursor) + planned[i].rec.length <= Ahead(planCursor)
          /\ Ahead(producer) <= Ahead(planned[i].cursor)
          /\ Offset(planned[i].cursor) + planned[i].rec.length <= Capacity
      BY <1>1 DEF WriterInv, PlannedInside, Calling
    <3> QED BY <1>3, <1>4, <1>5, <3>2, <3>3
  <2>2. Inside(write)
    BY <1>3, <1>4, <1>5, <1>7, <1>12 DEF DataRecord
  <2>3. padding # 0 => Inside([cursor |-> planCursor, rec |-> PaddingRecord(padding)])
    BY <1>3, <1>4, <1>5, <1>12 DEF PaddingRecord
  <2> HIDE DEF Inside
  <2>4. \A i \in DOMAIN planned' : Inside(planned'[i])
    <3>1. \A i \in DOMAIN (tail \o <<write>>) : Inside((tail \o <<write>>)[i])
      BY <2>2, <2>3
    <3>2. tail \o <<write>> \in Seq(PlannedWrite)
      BY <1>8, <1>9
    <3> HIDE DEF tail, write
    <3>3. planned' = planned \o (tail \o <<write>>)
      BY <1>1, <1>8, <1>9, <1>10
    <3> QED BY <1>10, <2>1, <3>1, <3>2, <3>3, ConcatElements
  <2> QED
    BY <1>7, <1>12, <2>4 DEF PlannedInside, Inside, Ahead
<1>15. OutcomeCurrent'
  BY <1>1 DEF OutcomeCurrent, WriterInv, Calling, BufferedNotUnderstated
<1>16. Used' <= Capacity
  BY <1>12 DEF WriterInv, Used
<1> QED
  BY <1>1, <1>11, <1>13, <1>14, <1>15, <1>16 DEF WriterInv

LEMMA RefuseSendStep ==
  ASSUME WriterInv, RefuseSend
  PROVE  WriterInv'
<1>1. /\ wpc' = "idle" /\ outcome' = [NoOutcome EXCEPT !.result = "backpressured"]
      /\ UNCHANGED <<producer, consumer, bytes, seen, nextSequence, nextId, op, unplanned,
                     planned, stored, planCursor, planSequence, snapConsumer,
                     expectedSequence, rpc, receipt, received>>
  BY DEF RefuseSend, sharedVars, callVars, readerVars
<1>2. /\ outcome'.result = "backpressured"
      /\ outcome' \in [result : {"none", "backpressured", "sent"},
                       buffered : 0 .. Capacity, signal : BOOLEAN]
  <2>1. outcome' = [result |-> "backpressured", buffered |-> 0, signal |-> FALSE]
    BY <1>1 DEF NoOutcome
  <2> QED BY <2>1, Geometry
<1>3. CodeTypes'
  BY <1>1, <1>2 DEF WriterInv, CodeTypes
<1> QED
  BY <1>1, <1>2, <1>3 DEF WriterInv, Used, SnapshotOrder, PlannedInside, Calling,
                          OutcomeCurrent, BufferedNotUnderstated

LEMMA StoreRecordStep ==
  ASSUME WriterInv, StoreRecord
  PROVE  WriterInv'
<1> USE Geometry
<1> DEFINE write == planned[stored + 1]
           length == write.rec.length
<1>1. CodeTypes /\ wpc = "storing" /\ stored < Len(planned)
  BY DEF WriterInv, StoreRecord
<1>2. stored + 1 \in DOMAIN planned /\ write \in PlannedWrite
  BY <1>1 DEF CodeTypes
<1>3. /\ write.cursor \in Cursor /\ length \in Nat
      /\ producer \in Cursor /\ consumer \in Cursor /\ snapConsumer \in Cursor
      /\ planCursor \in Cursor
  BY <1>1, <1>2 DEF PlannedWrite, Record, CodeTypes
<1>4. /\ Ahead(consumer) <= Ahead(producer)
      /\ Ahead(producer) <= Ahead(write.cursor)
      /\ Ahead(write.cursor) + length <= Capacity
      /\ Offset(write.cursor) + length <= Capacity
  <2>1. /\ Ahead(consumer) <= Ahead(producer) /\ Ahead(planCursor) <= Capacity
        /\ Ahead(producer) <= Ahead(write.cursor)
        /\ Ahead(write.cursor) + length <= Ahead(planCursor)
        /\ Offset(write.cursor) + length <= Capacity
    BY <1>1, <1>2 DEF WriterInv, SnapshotOrder, PlannedInside, Calling
  <2> QED BY <1>3, <2>1, DistanceType DEF Ahead
<1>5. /\ Distance(producer, consumer) = Ahead(producer) - Ahead(consumer)
      /\ Distance(write.cursor, producer) = Ahead(write.cursor) - Ahead(producer)
  BY <1>3, <1>4, DistanceBetween DEF Ahead
<1>6. MayWrite(producer, consumer, write.cursor, length)
  <2>1. /\ Ahead(producer) \in Nat /\ Ahead(consumer) \in Nat /\ Ahead(write.cursor) \in Nat
    BY <1>3, DistanceType DEF Ahead
  <2> QED BY <1>3, <1>4, <1>5, <2>1 DEF MayWrite, WriterInv, Used
<1>7. /\ bytes' = Stored(bytes, write.cursor, write.rec) /\ wpc' = "storing"
      /\ stored' = stored + 1
      /\ UNCHANGED <<producer, consumer, seen, nextSequence, nextId, op, unplanned, planned,
                     planCursor, planSequence, snapConsumer, outcome,
                     expectedSequence, rpc, receipt, received>>
  BY <1>6 DEF StoreRecord, readerVars
<1>8. CodeTypes'
  <2>1. bytes' \in [Offsets -> Cell]
    BY <1>1, <1>2, <1>7, StoredType DEF CodeTypes, PlannedWrite
  <2>2. stored' \in 0 .. Len(planned')
    BY <1>1, <1>7 DEF CodeTypes
  <2> QED BY <1>1, <1>7, <2>1, <2>2 DEF CodeTypes
<1> QED
  BY <1>1, <1>7, <1>8 DEF WriterInv, Used, SnapshotOrder, PlannedInside, Calling, Ahead,
                          OutcomeCurrent, BufferedNotUnderstated

LEMMA PublishStep ==
  ASSUME WriterInv, Publish
  PROVE  WriterInv'
<1> USE Geometry
<1>1. CodeTypes /\ wpc = "storing"
  BY DEF WriterInv, Publish
<1>2. /\ producer \in Cursor /\ consumer \in Cursor /\ snapConsumer \in Cursor
      /\ planCursor \in Cursor
  BY <1>1 DEF CodeTypes
<1>3. /\ Ahead(consumer) <= Ahead(producer)
      /\ Ahead(producer) <= Ahead(planCursor)
      /\ Ahead(planCursor) <= Capacity
      /\ Ahead(producer) \in Nat /\ Ahead(consumer) \in Nat /\ Ahead(planCursor) \in Nat
  BY <1>1, <1>2, DistanceType DEF WriterInv, SnapshotOrder, Calling, Ahead
<1>4. /\ Distance(producer, consumer) = Ahead(producer) - Ahead(consumer)
      /\ Distance(planCursor, producer) = Ahead(planCursor) - Ahead(producer)
      /\ Distance(planCursor, consumer) = Ahead(planCursor) - Ahead(consumer)
  BY <1>2, <1>3, DistanceBetween DEF Ahead
<1>5. MayPublish(producer, consumer, planCursor)
  BY <1>2, <1>3, <1>4 DEF MayPublish
<1>6. /\ producer' = planCursor /\ seen' = bytes
      /\ nextSequence' = planSequence /\ nextId' = NextId(nextId)
      /\ outcome' = [result |-> "sent", buffered |-> BufferedAfterPublish,
                     signal |-> SnapshotEmpty]
      /\ wpc' \in {"committed", "idle"}
      /\ UNCHANGED <<consumer, bytes, op, unplanned, planned, stored, planCursor,
                     planSequence, snapConsumer, expectedSequence, rpc, receipt, received>>
  BY <1>5 DEF Publish, ReleaseCursor, callVars, readerVars
<1>7. Used' = Ahead(planCursor) - Ahead(consumer)
  BY <1>4, <1>6 DEF Used
<1>8. /\ outcome'.result = "sent" /\ outcome'.buffered = Ahead(planCursor)
      /\ outcome' \in [result : {"none", "backpressured", "sent"},
                       buffered : 0 .. Capacity, signal : BOOLEAN]
  BY <1>3, <1>6 DEF BufferedAfterPublish, SnapshotEmpty, Ahead
<1>9. CodeTypes'
  <2>1. nextId' \in MessageId /\ nextSequence' \in Sequence
    BY <1>1, <1>6, NumbersType DEF CodeTypes
  <2> QED BY <1>1, <1>6, <1>8, <2>1 DEF CodeTypes
<1> QED
  BY <1>3, <1>6, <1>7, <1>8, <1>9
     DEF WriterInv, SnapshotOrder, PlannedInside, Calling, OutcomeCurrent,
         BufferedNotUnderstated

LEMMA MeasureBufferedStep ==
  ASSUME WriterInv, MeasureBuffered
  PROVE  WriterInv'
<1> USE Geometry
<1>1. CodeTypes /\ Used <= Capacity /\ producer = planCursor
  BY DEF WriterInv, MeasureBuffered, OutcomeCurrent
<1>2. /\ wpc' = "idle" /\ outcome' = [outcome EXCEPT !.buffered = Used]
      /\ UNCHANGED <<producer, consumer, bytes, seen, nextSequence, nextId, op, unplanned,
                     planned, stored, planCursor, planSequence, snapConsumer,
                     expectedSequence, rpc, receipt, received>>
  BY <1>1 DEF MeasureBuffered, sharedVars, callVars, readerVars, Used
<1>3. Used \in 0 .. Capacity
  BY <1>1, DistanceType DEF Used, CodeTypes
<1>4. /\ outcome' \in [result : {"none", "backpressured", "sent"},
                       buffered : 0 .. Capacity, signal : BOOLEAN]
      /\ outcome'.buffered = Used
  BY <1>1, <1>2, <1>3 DEF CodeTypes
<1>5. CodeTypes'
  BY <1>1, <1>2, <1>4 DEF CodeTypes
<1> QED
  BY <1>1, <1>2, <1>3, <1>4, <1>5
     DEF WriterInv, Used, SnapshotOrder, PlannedInside, Calling, OutcomeCurrent,
         BufferedNotUnderstated

\* A dropped write and a dead producer leave everything but the call's place.
LEMMA AbandonStep ==
  ASSUME WriterInv, DropPending \/ CrashProducer
  PROVE  WriterInv'
<1>1. /\ wpc' \in {"idle", "crashed"} /\ (wpc' = "idle" => wpc = "storing")
      /\ UNCHANGED <<producer, consumer, bytes, seen, nextSequence, nextId, op, unplanned,
                     planned, stored, planCursor, planSequence, snapConsumer, outcome,
                     expectedSequence, rpc, receipt, received>>
  BY DEF DropPending, CrashProducer, sharedVars, callVars, readerVars
<1>2. CodeTypes'
  BY <1>1 DEF WriterInv, CodeTypes
<1> QED
  BY <1>1, <1>2 DEF WriterInv, Used, SnapshotOrder, PlannedInside, Calling,
                    OutcomeCurrent, BufferedNotUnderstated

LEMMA PropagateStep ==
  ASSUME WriterInv, Propagate
  PROVE  WriterInv'
<1>1. /\ seen' = bytes
      /\ UNCHANGED <<producer, consumer, bytes, nextSequence, nextId, wpc, op, unplanned,
                     planned, stored, planCursor, planSequence, snapConsumer, outcome,
                     expectedSequence, rpc, receipt, received>>
  BY DEF Propagate, writerVars, callVars, readerVars
<1>2. CodeTypes'
  BY <1>1 DEF WriterInv, CodeTypes
<1> QED
  BY <1>1, <1>2 DEF WriterInv, Used, SnapshotOrder, PlannedInside, Calling, Ahead,
                    OutcomeCurrent, BufferedNotUnderstated

-----------------------------------------------------------------------------
(* The reader's two actions: neither touches a variable of the writer.     *)

\* A receipt moves the consumer by the length of the record it carries.
LEMMA ReceiptType ==
  ASSUME CodeTypes, NEW rec \in Record
  PROVE  ReceiptFor(rec) \in [current : Cursor, next : Cursor, rec : Record]
<1>1. rec.length \in 0 .. Capacity
  BY Geometry DEF Record
<1> QED BY <1>1, AdvanceType DEF ReceiptFor, CodeTypes

LEMMA PeekStep ==
  ASSUME WriterInv, Peek
  PROVE  WriterInv'
<1> USE Geometry
<1>1. CodeTypes /\ Used \in 0 .. Capacity
  <2>1. producer \in Cursor /\ consumer \in Cursor /\ Used <= Capacity
    BY DEF WriterInv, CodeTypes
  <2> QED BY <2>1, DistanceType DEF WriterInv, Used
<1>2. Offset(consumer) \in Offsets
  BY <1>1, OffsetType DEF CodeTypes
<1>3. receipt' \in [current : Cursor, next : Cursor, rec : Record]
  <2>1. CASE ImplicitPadding(consumer, Used) > 0
    <3>1. ImplicitPadding(consumer, Used) \in 1 .. Capacity
      BY <1>1, <1>2, <2>1 DEF ImplicitPadding, RoomBeforeEnd, Offsets
    <3>2. [NoRecord EXCEPT !.length = ImplicitPadding(consumer, Used)] \in Record
      BY <3>1, NoRecordType DEF Record
    <3> QED BY <1>1, <2>1, <3>2, ReceiptType DEF Peek
  <2>2. CASE ~(ImplicitPadding(consumer, Used) > 0)
    <3>1. CopyOut \in Record
      <4>1. Header \in Record
        BY <1>1, <1>2 DEF Header, CodeTypes, Cell
      <4>2. [Header EXCEPT !.kind = "torn"] \in Record
        BY <4>1 DEF Record
      <4> QED BY <4>1, <4>2 DEF CopyOut
    <3> QED BY <1>1, <2>2, <3>1, ReceiptType DEF Peek, CodeTypes
  <2> QED BY <2>1, <2>2
<1>4. /\ rpc' \in {"peeked", "failed"}
      /\ UNCHANGED <<producer, consumer, bytes, seen, nextSequence, nextId, wpc, op,
                     unplanned, planned, stored, planCursor, planSequence, snapConsumer,
                     outcome, expectedSequence, received>>
  BY DEF Peek, sharedVars, writerVars, callVars
<1>5. CodeTypes'
  BY <1>1, <1>3, <1>4 DEF CodeTypes
<1> QED
  BY <1>4, <1>5 DEF WriterInv, Used, SnapshotOrder, PlannedInside, Calling, Ahead,
                    OutcomeCurrent, BufferedNotUnderstated

\* The consumer moves forward, and not beyond the producer.
LEMMA ConsumeStep ==
  ASSUME WriterInv, Consume
  PROVE  WriterInv'
<1> USE Geometry
<1>1. CodeTypes /\ Used <= Capacity
  BY DEF WriterInv
<1>2. /\ producer \in Cursor /\ consumer \in Cursor /\ snapConsumer \in Cursor
      /\ planCursor \in Cursor /\ receipt.next \in Cursor /\ receipt.rec \in Record
  BY <1>1 DEF CodeTypes
<1>3. /\ UNCHANGED <<producer, bytes, seen, nextSequence, nextId, wpc, op,
                     unplanned, planned, stored, planCursor, planSequence, snapConsumer,
                     outcome, receipt>>
      /\ rpc' \in {"idle", "failed"}
      /\ expectedSequence' \in {expectedSequence, NextSequence(expectedSequence)}
      /\ received' \in {received, receipt.rec}
      /\ \/ consumer' = consumer
         \/ consumer' = receipt.next /\ Distance(receipt.next, consumer) <= Used
  BY DEF Consume, writerVars, callVars, MayConsume, Used
<1>4. CodeTypes'
  <2>1. expectedSequence' \in Sequence
    BY <1>1, <1>3, NumbersType DEF CodeTypes
  <2>2. consumer' \in Cursor
    BY <1>2, <1>3
  <2>3. received' \in Record
    BY <1>1, <1>2, <1>3 DEF CodeTypes
  <2> QED BY <1>1, <1>3, <2>1, <2>2, <2>3 DEF CodeTypes
<1>5. CASE consumer' = consumer
  BY <1>3, <1>4, <1>5 DEF WriterInv, Used, SnapshotOrder, PlannedInside, Calling, Ahead,
                          OutcomeCurrent, BufferedNotUnderstated
<1>6. CASE consumer' = receipt.next /\ Distance(receipt.next, consumer) <= Used
  <2>1. Used' = Used - Distance(receipt.next, consumer)
    BY <1>2, <1>3, <1>6, DistanceRebase DEF Used
  <2>2. Used' <= Used /\ Used' <= Capacity
    BY <1>1, <1>2, <2>1, DistanceType DEF Used
  <2>3. SnapshotOrder'
    <3> SUFFICES ASSUME Calling
                 PROVE  /\ Ahead(consumer)' <= Ahead(producer)'
                        /\ Ahead(producer)' <= Ahead(planCursor)'
                        /\ Ahead(planCursor)' <= Capacity
      BY <1>3 DEF SnapshotOrder, Calling
    <3>1. /\ Ahead(consumer) <= Ahead(producer)
          /\ Ahead(producer) <= Ahead(planCursor) /\ Ahead(planCursor) <= Capacity
      BY DEF WriterInv, SnapshotOrder
    <3>2. Ahead(producer) = Ahead(consumer) + Used
      BY <1>2, <3>1, DistanceBetween, DistanceType DEF Ahead, Used
    <3>3. Distance(receipt.next, snapConsumer) = Ahead(consumer) + Distance(receipt.next, consumer)
      <4>1. Ahead(consumer) + Distance(receipt.next, consumer) < CursorModulus
        BY <1>2, <1>6, <3>1, <3>2, DistanceType DEF Ahead, Used
      <4> QED BY <1>2, <4>1, DistanceChain DEF Ahead
    <3>4. Ahead(consumer)' <= Ahead(producer)
      BY <1>2, <1>3, <1>6, <3>2, <3>3, DistanceType DEF Ahead, Used
    <3> QED BY <1>3, <3>1, <3>4 DEF Ahead
  <2>4. PlannedInside'
    BY <1>3 DEF WriterInv, PlannedInside, Calling, Ahead
  <2>5. OutcomeCurrent'
    <3>1. wpc = "idle" /\ outcome.result = "sent" => Used' <= outcome.buffered
      <4> SUFFICES ASSUME wpc = "idle", outcome.result = "sent" PROVE Used' <= outcome.buffered
        OBVIOUS
      <4>1. Used <= outcome.buffered
        BY DEF WriterInv, OutcomeCurrent, BufferedNotUnderstated
      <4>2. outcome.buffered \in Nat /\ Used \in Nat /\ Used' \in Nat
        BY <1>1, <1>4, DistanceType DEF CodeTypes, Used
      <4> QED BY <2>2, <4>1, <4>2
    <3> QED BY <1>3, <3>1 DEF WriterInv, OutcomeCurrent, Calling, BufferedNotUnderstated
  <2> QED BY <1>3, <1>4, <2>2, <2>3, <2>4, <2>5 DEF WriterInv
<1> QED BY <1>3, <1>5, <1>6

LEMMA WriterStutter ==
  ASSUME WriterInv, UNCHANGED vars
  PROVE  WriterInv'
<1>1. UNCHANGED <<producer, consumer, bytes, seen, nextSequence, nextId, wpc, op, unplanned,
                  planned, stored, planCursor, planSequence, snapConsumer, outcome,
                  expectedSequence, rpc, receipt, received>>
  BY DEF vars, sharedVars, writerVars, callVars, readerVars
<1>2. CodeTypes'
  BY <1>1 DEF WriterInv, CodeTypes
<1> QED
  BY <1>1, <1>2 DEF WriterInv, Used, SnapshotOrder, PlannedInside, Calling, Ahead,
                    OutcomeCurrent, BufferedNotUnderstated

-----------------------------------------------------------------------------
(* The theorems.                                                           *)

LEMMA WriterStep ==
  ASSUME Aligned, WriterInv, [Next]_vars
  PROVE  WriterInv'
<1>1. CASE UNCHANGED vars
  BY <1>1, WriterStutter
<1>2. CASE \E call \in {"single", "fragments"}, batch \in Batches : BeginSend(call, batch)
  BY <1>2, BeginSendStep
<1>3. CASE PlanRecord
  BY <1>3, PlanRecordStep
<1>4. CASE RefuseSend
  BY <1>4, RefuseSendStep
<1>5. CASE StoreRecord
  BY <1>5, StoreRecordStep
<1>6. CASE Propagate
  BY <1>6, PropagateStep
<1>7. CASE Publish
  BY <1>7, PublishStep
<1>8. CASE MeasureBuffered
  BY <1>8, MeasureBufferedStep
<1>9. CASE DropPending \/ CrashProducer
  BY <1>9, AbandonStep
<1>10. CASE Peek
  BY <1>10, PeekStep
<1>11. CASE Consume
  BY <1>11, ConsumeStep
<1> QED
  BY <1>1, <1>2, <1>3, <1>4, <1>5, <1>6, <1>7, <1>8, <1>9, <1>10, <1>11
     DEF Next, Write, Read

\* The invariant of the writer holds in every reachable state.
THEOREM WriterInvariance ==
  ASSUME Aligned
  PROVE  Spec => []WriterInv
<1>1. Init => WriterInv
  BY WriterInit
<1>2. WriterInv /\ [Next]_vars => WriterInv'
  BY WriterStep
<1> QED BY <1>1, <1>2, PTL DEF Spec

\* RingWriter never fails on a bound of ProducerMemory, whatever the consumer
\* does between its snapshot, its stores and its publication.
THEOREM WriterSafe ==
  ASSUME Aligned
  PROVE  Spec => []WriterNeverFails
<1>1. WriterInv => WriterNeverFails
  BY DEF WriterInv
<1> QED BY <1>1, WriterInvariance, PTL

\* The buffered amount that send reports, and FlowControl is driven by, is at
\* least what is unconsumed whenever the call has returned.
THEOREM BufferedSafe ==
  ASSUME Aligned
  PROVE  Spec => []BufferedNotUnderstated
<1>1. WriterInv => BufferedNotUnderstated
  BY DEF WriterInv, OutcomeCurrent
<1> QED BY <1>1, WriterInvariance, PTL

-----------------------------------------------------------------------------
\* The data area.

\* A cursor of the ring together with the sequence number due there.
Position(write) == [cursor |-> write.cursor, seq |-> write.rec.seq]

\* The position behind a write: padding has the number of the record after it.
After(write) ==
  [cursor |-> Advance(write.cursor, write.rec.length),
   seq |-> IF write.rec.kind = "data" THEN NextSequence(write.rec.seq) ELSE write.rec.seq]

ReadPosition == [cursor |-> consumer, seq |-> expectedSequence]
WritePosition == [cursor |-> producer, seq |-> nextSequence]
PlanPosition == [cursor |-> planCursor, seq |-> planSequence]

\* A write as the planner places it: a record has a header, padding reaches the
\* physical end and has a header whenever there is room for one.
Placed ==
  {write \in PlannedWrite :
     /\ write.rec.kind \in {"data", "padding", "zeros"}
     /\ Offset(write.cursor) + write.rec.length <= Capacity
     /\ write.rec.kind = "data" => write.rec.length >= RecordPrefix
     /\ write.rec.kind # "data" =>
          /\ Offset(write.cursor) + write.rec.length = Capacity
          /\ write.rec.kind = "zeros" <=> write.rec.length < RecordPrefix}

\* The position at which element number i of the sequence starts or would start.
StartOf(writes, i, last) == IF i \in DOMAIN writes THEN Position(writes[i]) ELSE last

\* The writes lead from the first position to the last without a gap.
Linked(writes, first, last) ==
  /\ StartOf(writes, 1, last) = first
  /\ \A i \in DOMAIN writes : StartOf(writes, i + 1, last) = After(writes[i])

\* Seen from base the writes end before the next ones start, and before limit.
InOrder(writes, base, limit) ==
  \A i \in DOMAIN writes :
    LET reach == Distance(writes[i].cursor, base) + writes[i].rec.length
    IN  /\ reach <= Distance(limit, base)
        /\ \A j \in DOMAIN writes : i < j => reach <= Distance(writes[j].cursor, base)

\* Every cell of the write is in the memory as it was stored.
Holds(memory, write) ==
  \A part \in 0 .. write.rec.length - 1 :
    memory[Offset(write.cursor) + part] = CellOf(write.rec, part)

\* What is in flight fills the ring from the consumer to the producer.
InflightInv ==
  /\ inflight \in Seq(Placed)
  /\ Linked(inflight, ReadPosition, WritePosition)
  /\ InOrder(inflight, consumer, producer)
  /\ \A i \in DOMAIN inflight : Holds(bytes, inflight[i]) /\ Holds(seen, inflight[i])

\* What is planned continues from the producer, and is stored as far as the
\* call has come.
PlanInv ==
  Calling =>
    /\ planned \in Seq(Placed)
    /\ Linked(planned, WritePosition, PlanPosition)
    /\ InOrder(planned, snapConsumer, planCursor)
    /\ \A i \in 1 .. stored : Holds(bytes, planned[i])

\* The records planned so far are a message, or the beginning of one.
MessageInv ==
  Calling =>
    /\ wpc = "planning" <=> unplanned # <<>>
    /\ wpc = "storing" => DataOf(planned) # <<>>
    /\ \A i \in DOMAIN DataOf(planned) :
         /\ DataOf(planned)[i].id = nextId
         /\ DataOf(planned)[i].end <=> wpc = "storing" /\ i = Len(DataOf(planned))

\* The reader never fails, and its receipt is for the first write in flight.
ReaderInv ==
  /\ rpc # "failed"
  /\ rpc = "peeked" =>
       /\ inflight # <<>>
       /\ receipt.current = consumer
       /\ receipt.next = Advance(consumer, Head(inflight).rec.length)
       /\ IF Head(inflight).rec.kind = "data"
          THEN receipt.rec = Head(inflight).rec
          ELSE receipt.rec.kind \notin {"data", "torn"}

QueueInv == WriterInv /\ InflightInv /\ PlanInv /\ MessageInv /\ ReaderInv

-----------------------------------------------------------------------------
(* Recursion over the elements of a sequence.  The library states induction *)
(* for operators; over sets of numbers it follows from its theorem that the *)
(* finite sets are well-founded under strict inclusion.                     *)

\* A set of numbers with 0 and each successor of its members is Nat.
LEMMA SetInduction ==
  ASSUME NEW P \in SUBSET Nat, 0 \in P, \A n \in P : n + 1 \in P
  PROVE  P = Nat
<1> SUFFICES ASSUME P # Nat PROVE FALSE
  OBVIOUS
<1> DEFINE T == {0 .. k : k \in Nat \ P}
           R == StrictSubsetOrdering(Nat)
<1>1. T \subseteq FiniteSubsetsOf(Nat)
  <2>1. \A k \in Nat : IsFiniteSet(0 .. k) /\ 0 .. k \in SUBSET Nat
    BY FS_Interval
  <2> QED BY <2>1 DEF FiniteSubsetsOf
<1>2. T # {}
  OBVIOUS
<1>3. IsWellFoundedOn(R, FiniteSubsetsOf(Nat))
  BY FS_StrictSubsetOrderingWellFounded
<1> HIDE DEF R
<1>4. \E x \in T : \A y \in T : ~ (<<y, x>> \in R)
  <2> HIDE DEF T
  <2> QED BY <1>1, <1>2, <1>3, WFMin
<1>5. PICK k \in Nat \ P : \A j \in Nat \ P : ~ (<<0 .. j, 0 .. k>> \in R)
  BY <1>4
<1>6. PICK j \in Nat : k = j + 1
  OBVIOUS
<1>7. <<0 .. j, 0 .. k>> \in R
  <2>1. 0 .. j \in SUBSET Nat /\ 0 .. k \in SUBSET Nat /\ 0 .. j \subseteq 0 .. k
    BY <1>6
  <2>2. k \in 0 .. k /\ k \notin 0 .. j
    BY <1>6
  <2>3. 0 .. j # 0 .. k
    BY <2>2
  <2> QED BY <2>1, <2>3 DEF R, StrictSubsetOrdering
<1>8. j \in P
  BY <1>5, <1>7
<1> QED BY <1>5, <1>6, <1>8

\* A step function on S has a run of every length.
LEMMA RecursionExists ==
  ASSUME NEW N \in Nat, NEW S, NEW x \in S, NEW g \in [1 .. N -> [S -> S]]
  PROVE  \E f \in [0 .. N -> S] : f[0] = x /\ \A n \in 1 .. N : f[n] = g[n][f[n - 1]]
<1> DEFINE Run(n, f) == f[0] = x /\ \A k \in 1 .. n : f[k] = g[k][f[k - 1]]
           P == {n \in Nat : n <= N => \E f \in [0 .. n -> S] : Run(n, f)}
<1>1. 0 \in P
  <2> DEFINE f == [k \in 0 .. 0 |-> x]
  <2>1. f \in [0 .. 0 -> S] /\ Run(0, f)
    OBVIOUS
  <2> QED BY <2>1
<1>2. ASSUME NEW n \in P PROVE n + 1 \in P
  <2> SUFFICES ASSUME n + 1 <= N PROVE \E f \in [0 .. n + 1 -> S] : Run(n + 1, f)
    OBVIOUS
  <2>1. PICK e \in [0 .. n -> S] : Run(n, e)
    OBVIOUS
  <2> DEFINE f == [k \in 0 .. n + 1 |-> IF k <= n THEN e[k] ELSE g[n + 1][e[n]]]
  <2>2. f \in [0 .. n + 1 -> S]
    OBVIOUS
  <2>3. f[0] = x
    BY <2>1
  <2>4. ASSUME NEW k \in 1 .. n + 1 PROVE f[k] = g[k][f[k - 1]]
    <3>1. CASE k \in 1 .. n
      <4>1. f[k] = e[k] /\ f[k - 1] = e[k - 1]
        BY <3>1
      <4> QED BY <2>1, <3>1, <4>1
    <3>2. CASE k = n + 1
      BY <3>2
    <3> QED BY <3>1, <3>2
  <2> QED BY <2>2, <2>3, <2>4
<1>3. N \in P
  BY <1>1, <1>2, SetInduction
<1> QED BY <1>3

\* Two runs that start alike and step alike are alike.
LEMMA RecursionUnique ==
  ASSUME NEW N \in Nat, NEW f, NEW h, f[0] = h[0],
         \A n \in 1 .. N : f[n - 1] = h[n - 1] => f[n] = h[n]
  PROVE  \A n \in 0 .. N : f[n] = h[n]
<1> DEFINE P == {n \in Nat : n <= N => f[n] = h[n]}
<1>1. 0 \in P
  OBVIOUS
<1>2. ASSUME NEW n \in P PROVE n + 1 \in P
  <2> SUFFICES ASSUME n + 1 <= N PROVE f[n + 1] = h[n + 1]
    OBVIOUS
  <2>1. n + 1 \in 1 .. N /\ (n + 1) - 1 = n /\ f[n] = h[n]
    OBVIOUS
  <2> QED BY <2>1
<1>3. P \in SUBSET Nat
  OBVIOUS
<1>4. P = Nat
  <2> HIDE DEF P
  <2> QED BY <1>1, <1>2, <1>3, SetInduction
<1> QED BY <1>4

-----------------------------------------------------------------------------
(* The records among some writes, and the cells of some records.           *)

\* One step of DataOf.
Kept(records, write) ==
  IF write.rec.kind = "data" THEN Append(records, write.rec) ELSE records

\* f[n] are the records among the first n writes.
Collects(f, writes) ==
  /\ f \in [0 .. Len(writes) -> Seq(Record)]
  /\ f[0] = <<>>
  /\ \A n \in 1 .. Len(writes) : f[n] = Kept(f[n - 1], writes[n])

LEMMA WriteTypes ==
  /\ \A w \in PlannedWrite : w.cursor \in Cursor /\ w.rec \in Record
  /\ \A r \in Record : r.length \in 1 .. Capacity /\ r.seq \in Sequence
  /\ \A r \in Seq(Record), w \in PlannedWrite : Kept(r, w) \in Seq(Record)
<1>1. \A w \in PlannedWrite : w.cursor \in Cursor /\ w.rec \in Record
  BY DEF PlannedWrite
<1>2. \A r \in Record : r.length \in 1 .. Capacity /\ r.seq \in Sequence
  BY DEF Record
<1>3. ASSUME NEW r \in Seq(Record), NEW w \in PlannedWrite
      PROVE  Kept(r, w) \in Seq(Record)
  BY <1>1 DEF Kept
<1> QED BY <1>1, <1>2, <1>3

\* There is one function that collects, and DataOf is its last value.
LEMMA DataOfIs ==
  ASSUME NEW writes \in Seq(PlannedWrite)
  PROVE  /\ \E f : Collects(f, writes)
         /\ \A f : Collects(f, writes) => DataOf(writes) = f[Len(writes)]
<1> DEFINE S == Seq(Record)
<1>1. PICK N \in Nat : N = Len(writes) /\ \A n \in 1 .. N : writes[n] \in PlannedWrite
  OBVIOUS
<1> DEFINE g == [n \in 1 .. N |-> [r \in S |-> Kept(r, writes[n])]]
           Upto(f) == f = [n \in 0 .. N |->
                             IF n = 0 THEN <<>>
                             ELSE IF writes[n].rec.kind = "data"
                                  THEN Append(f[n - 1], writes[n].rec)
                             ELSE f[n - 1]]
<1>2. DataOf(writes) = (CHOOSE f : Upto(f))[N]
  BY <1>1 DEF DataOf
<1>3. ASSUME NEW f, Upto(f)
      PROVE  f[0] = <<>> /\ \A n \in 1 .. N : f[n] = Kept(f[n - 1], writes[n])
  <2>1. 0 \in 0 .. N /\ \A n \in 1 .. N : n \in 0 .. N /\ n # 0
    OBVIOUS
  <2>2. f[0] = <<>>
    BY <1>3, <2>1
  <2>3. ASSUME NEW n \in 1 .. N PROVE f[n] = Kept(f[n - 1], writes[n])
    BY <1>3, <2>1 DEF Kept
  <2> QED BY <2>2, <2>3
<1>4. ASSUME NEW f, Collects(f, writes) PROVE Upto(f)
  <2>1. f \in [0 .. N -> S]
    BY <1>1, <1>4 DEF Collects
  <2>2. ASSUME NEW n \in 0 .. N
        PROVE  f[n] = IF n = 0 THEN <<>>
                      ELSE IF writes[n].rec.kind = "data"
                           THEN Append(f[n - 1], writes[n].rec)
                      ELSE f[n - 1]
    <3>1. n = 0 \/ n \in 1 .. N
      OBVIOUS
    <3> QED BY <1>1, <1>4, <3>1 DEF Collects, Kept
  <2> QED BY <2>1, <2>2
<1>5. g \in [1 .. N -> [S -> S]] /\ <<>> \in S
  <2>1. \A n \in 1 .. N, r \in S : Kept(r, writes[n]) \in S
    BY <1>1, WriteTypes
  <2>2. <<>> \in S
    OBVIOUS
  <2> HIDE DEF S
  <2> QED BY <2>1, <2>2
<1>6. \A n \in 1 .. N, r \in S : g[n][r] = Kept(r, writes[n])
  OBVIOUS
<1>7. PICK c : Upto(c) /\ (\E f : Collects(f, writes)) /\ DataOf(writes) = c[N]
  <2> HIDE DEF g, S
  <2>1. PICK e \in [0 .. N -> S] : e[0] = <<>> /\ \A n \in 1 .. N : e[n] = g[n][e[n - 1]]
    <3>1. PICK x \in S : x = <<>>
      BY <1>5
    <3>2. g \in [1 .. N -> [S -> S]]
      BY <1>5
    <3>3. \E e \in [0 .. N -> S] : e[0] = x /\ \A n \in 1 .. N : e[n] = g[n][e[n - 1]]
      BY <3>2, RecursionExists
    <3> QED BY <3>1, <3>3
  <2>2. ASSUME NEW n \in 1 .. N PROVE e[n] = Kept(e[n - 1], writes[n])
    <3>1. n - 1 \in 0 .. N
      OBVIOUS
    <3> QED BY <1>6, <2>1, <3>1
  <2>3. Collects(e, writes)
    BY <1>1, <2>1, <2>2 DEF Collects, S
  <2> HIDE DEF Upto
  <2>4. Upto(e)
    BY <1>4, <2>3
  <2> QED BY <1>2, <2>3, <2>4
<1>8. ASSUME NEW f, Collects(f, writes) PROVE DataOf(writes) = f[N]
  <2> HIDE DEF Upto
  <2>1. c[0] = f[0]
    BY <1>3, <1>7, <1>8 DEF Collects
  <2>2. \A n \in 1 .. N : f[n] = Kept(f[n - 1], writes[n])
    BY <1>1, <1>8 DEF Collects
  <2>3. \A n \in 1 .. N : c[n] = Kept(c[n - 1], writes[n])
    BY <1>3, <1>7
  <2>4. \A n \in 1 .. N : c[n - 1] = f[n - 1] => c[n] = f[n]
    BY <2>2, <2>3
  <2>5. \A n \in 0 .. N : c[n] = f[n]
    BY <2>1, <2>4, RecursionUnique
  <2> QED BY <1>7, <2>5
<1> QED BY <1>1, <1>7, <1>8

\* The records of a concatenation.
LEMMA DataOfConcat ==
  ASSUME NEW s \in Seq(PlannedWrite), NEW t \in Seq(PlannedWrite)
  PROVE  /\ DataOf(s \o t) = DataOf(s) \o DataOf(t)
         /\ DataOf(s) \in Seq(Record)
<1>1. PICK M \in Nat, N \in Nat : M = Len(s) /\ N = Len(t)
  OBVIOUS
<1>2. /\ s \o t \in Seq(PlannedWrite) /\ Len(s \o t) = M + N
      /\ \A n \in 1 .. M : (s \o t)[n] = s[n] /\ s[n] \in PlannedWrite
      /\ \A n \in 1 .. N : (s \o t)[M + n] = t[n] /\ t[n] \in PlannedWrite
  BY <1>1
<1>3. PICK f : Collects(f, s) /\ DataOf(s) = f[M]
  BY <1>1, DataOfIs
<1>4. PICK e : Collects(e, t) /\ DataOf(t) = e[N]
  BY <1>1, DataOfIs
<1>5. /\ f \in [0 .. M -> Seq(Record)] /\ f[0] = <<>>
      /\ \A n \in 1 .. M : f[n] = Kept(f[n - 1], s[n])
  BY <1>1, <1>3 DEF Collects
<1>6. /\ e \in [0 .. N -> Seq(Record)] /\ e[0] = <<>>
      /\ \A n \in 1 .. N : e[n] = Kept(e[n - 1], t[n])
  BY <1>1, <1>4 DEF Collects
<1>7. \A a, b \in Seq(Record), w \in PlannedWrite : a \o Kept(b, w) = Kept(a \o b, w)
  <2> SUFFICES ASSUME NEW a \in Seq(Record), NEW b \in Seq(Record), NEW w \in PlannedWrite
               PROVE  a \o Kept(b, w) = Kept(a \o b, w)
    OBVIOUS
  <2>1. PICK r \in Record : r = w.rec
    BY WriteTypes
  <2>2. a \o Append(b, r) = Append(a \o b, r)
    OBVIOUS
  <2> QED BY <2>1, <2>2 DEF Kept
<1>8. \A a \in Seq(Record) : a \o <<>> = a
  OBVIOUS
<1>9. \A a, b \in Seq(Record) : a \o b \in Seq(Record)
  OBVIOUS
<1> DEFINE h == [n \in 0 .. M + N |-> IF n <= M THEN f[n] ELSE f[M] \o e[n - M]]
<1>10. /\ \A n \in 0 .. M : h[n] = f[n]
       /\ \A n \in 0 .. N : h[M + n] = f[M] \o e[n]
  <2>1. \A n \in 0 .. M : h[n] = f[n]
    OBVIOUS
  <2>2. ASSUME NEW n \in 0 .. N PROVE h[M + n] = f[M] \o e[n]
    <3>1. CASE n = 0
      <4>1. h[M + n] = f[M]
        BY <3>1, <2>1
      <4> HIDE DEF h
      <4> QED BY <1>5, <1>6, <1>8, <3>1, <4>1
    <3>2. CASE n # 0
      <4>1. M + n \in 0 .. M + N /\ ~(M + n <= M) /\ (M + n) - M = n
        BY <3>2
      <4> QED BY <4>1
    <3> QED BY <3>1, <3>2
  <2> QED BY <2>1, <2>2
<1>11. h \in [0 .. M + N -> Seq(Record)]
  <2>1. \A n \in 0 .. M + N : h[n] \in Seq(Record)
    <3>1. \A n \in 0 .. M : h[n] \in Seq(Record)
      <4> HIDE DEF h
      <4> QED BY <1>5, <1>10
    <3>2. \A n \in 0 .. N : h[M + n] \in Seq(Record)
      <4> HIDE DEF h
      <4>1. f[M] \in Seq(Record)
        BY <1>5
      <4> QED BY <1>6, <1>9, <1>10, <4>1
    <3>3. \A n \in 0 .. M + N : n \in 0 .. M \/ \E k \in 0 .. N : n = M + k
      <4> SUFFICES ASSUME NEW n \in 0 .. M + N, n \notin 0 .. M
                   PROVE  n - M \in 0 .. N /\ n = M + (n - M)
        OBVIOUS
      <4> QED OBVIOUS
    <3> HIDE DEF h
    <3> QED BY <3>1, <3>2, <3>3
  <2> QED BY <2>1
<1> HIDE DEF h
<1>12. Collects(h, s \o t)
  <2>1. h[0] = <<>>
    BY <1>5, <1>10
  <2>2. ASSUME NEW n \in 1 .. M + N PROVE h[n] = Kept(h[n - 1], (s \o t)[n])
    <3>1. CASE n \in 1 .. M
      <4>1. n - 1 \in 0 .. M /\ n \in 0 .. M
        BY <3>1
      <4> QED BY <1>2, <1>5, <1>10, <3>1, <4>1
    <3>2. CASE n \notin 1 .. M
      <4>1. PICK k \in 1 .. N : n = M + k
        <5>1. n - M \in 1 .. N /\ n = M + (n - M)
          BY <3>2
        <5> QED BY <5>1
      <4>2. k \in 0 .. N /\ k - 1 \in 0 .. N /\ n - 1 = M + (k - 1)
        BY <4>1
      <4>3. h[n] = f[M] \o e[k] /\ h[n - 1] = f[M] \o e[k - 1] /\ (s \o t)[n] = t[k]
        BY <1>2, <1>10, <4>1, <4>2
      <4>4. e[k] = Kept(e[k - 1], t[k]) /\ e[k - 1] \in Seq(Record)
        BY <1>6, <4>1, <4>2
      <4>5. f[M] \in Seq(Record) /\ t[k] \in PlannedWrite
        BY <1>2, <1>5, <4>1
      <4> HIDE DEF h
      <4>6. Kept(f[M] \o e[k - 1], t[k]) = f[M] \o Kept(e[k - 1], t[k])
        BY <1>7, <4>4, <4>5
      <4>7. h[n] = Kept(h[n - 1], t[k])
        BY <4>3, <4>4, <4>6
      <4> QED BY <4>3, <4>7
    <3> QED BY <3>1, <3>2
  <2> QED BY <1>2, <1>11, <2>1, <2>2 DEF Collects
<1>13. DataOf(s \o t) = h[M + N]
  BY <1>2, <1>12, DataOfIs
<1>14. M \in 0 .. M /\ N \in 0 .. N
  OBVIOUS
<1>15. h[M + N] = f[M] \o e[N]
  BY <1>10, <1>14
<1>16. f[M] \in Seq(Record)
  BY <1>5, <1>14
<1> QED BY <1>3, <1>4, <1>13, <1>15, <1>16

\* The records of no write and of one write.
LEMMA DataOfSmall ==
  /\ DataOf(<<>>) = <<>>
  /\ \A w \in PlannedWrite :
       DataOf(<<w>>) = IF w.rec.kind = "data" THEN <<w.rec>> ELSE <<>>
<1>1. PICK none \in Seq(Record) : none = <<>>
  <2>1. <<>> \in Seq(Record)
    OBVIOUS
  <2> QED BY <2>1, Zenon
<1>2. DataOf(<<>>) = <<>>
  <2> DEFINE f == [n \in 0 .. 0 |-> none]
  <2>1. f \in [0 .. 0 -> Seq(Record)] /\ f[0] = none
    OBVIOUS
  <2> HIDE DEF f
  <2>2. <<>> \in Seq(PlannedWrite) /\ Len(<<>>) = 0
    OBVIOUS
  <2>3. Collects(f, <<>>)
    BY <1>1, <2>1, <2>2 DEF Collects
  <2> QED BY <1>1, <2>1, <2>2, <2>3, DataOfIs
<1>3. ASSUME NEW w \in PlannedWrite
      PROVE  DataOf(<<w>>) = IF w.rec.kind = "data" THEN <<w.rec>> ELSE <<>>
  <2>1. PICK kept \in Seq(Record) : kept = Kept(none, w)
    BY WriteTypes
  <2> DEFINE f == [n \in 0 .. 1 |-> IF n = 0 THEN none ELSE kept]
  <2>2. f \in [0 .. 1 -> Seq(Record)] /\ f[0] = none /\ f[1] = kept
    OBVIOUS
  <2> HIDE DEF f
  <2>3. <<w>> \in Seq(PlannedWrite) /\ Len(<<w>>) = 1 /\ <<w>>[1] = w
    OBVIOUS
  <2>4. \A n \in 1 .. 1 : f[n] = Kept(f[n - 1], <<w>>[n])
    BY <2>1, <2>2, <2>3
  <2>5. Collects(f, <<w>>)
    BY <1>1, <2>2, <2>3, <2>4 DEF Collects
  <2>6. DataOf(<<w>>) = kept
    BY <2>2, <2>3, <2>5, DataOfIs
  <2>7. w.rec \in Record /\ Append(<<>>, w.rec) = <<w.rec>>
    BY WriteTypes
  <2> QED BY <1>1, <2>1, <2>6, <2>7 DEF Kept
<1> QED BY <1>2, <1>3

\* f[n] are the cells of the first n records.
Adds(f, records) ==
  /\ f \in [0 .. Len(records) -> Nat]
  /\ f[0] = 0
  /\ \A n \in 1 .. Len(records) : f[n] = f[n - 1] + records[n].length

\* There is one function that adds, and CellsOf is its last value.
LEMMA CellsOfIs ==
  ASSUME NEW records \in Seq(Record)
  PROVE  /\ \E f : Adds(f, records)
         /\ \A f : Adds(f, records) => Abstract!CellsOf(records) = f[Len(records)]
<1>1. PICK N \in Nat : N = Len(records) /\ \A n \in 1 .. N : records[n].length \in Nat
  <2>1. \A r \in Record : r.length \in Nat
    BY WriteTypes, Geometry
  <2> QED BY <2>1
<1> DEFINE g == [n \in 1 .. N |-> [sum \in Nat |-> sum + records[n].length]]
           Upto(f) == f = [n \in 0 .. N |-> IF n = 0 THEN 0
                                            ELSE f[n - 1] + records[n].length]
<1>2. Abstract!CellsOf(records) = (CHOOSE f : Upto(f))[N]
  BY <1>1 DEF Abstract!CellsOf
<1>3. ASSUME NEW f, Upto(f)
      PROVE  f[0] = 0 /\ \A n \in 1 .. N : f[n] = f[n - 1] + records[n].length
  <2>1. 0 \in 0 .. N /\ \A n \in 1 .. N : n \in 0 .. N /\ n # 0
    OBVIOUS
  <2> QED BY <1>3, <2>1
<1>4. ASSUME NEW f, Adds(f, records) PROVE Upto(f)
  <2>1. ASSUME NEW n \in 0 .. N
        PROVE  f[n] = IF n = 0 THEN 0 ELSE f[n - 1] + records[n].length
    <3>1. n = 0 \/ n \in 1 .. N
      OBVIOUS
    <3> QED BY <1>1, <1>4, <3>1 DEF Adds
  <2> QED BY <1>1, <1>4, <2>1 DEF Adds
<1>5. g \in [1 .. N -> [Nat -> Nat]]
  BY <1>1
<1>6. \A n \in 1 .. N, sum \in Nat : g[n][sum] = sum + records[n].length
  OBVIOUS
<1>7. PICK c : Upto(c) /\ (\E f : Adds(f, records)) /\ Abstract!CellsOf(records) = c[N]
  <2> HIDE DEF g, Upto
  <2>1. PICK e \in [0 .. N -> Nat] : e[0] = 0 /\ \A n \in 1 .. N : e[n] = g[n][e[n - 1]]
    <3>1. PICK S, x : S = Nat /\ x = 0
      OBVIOUS
    <3>2. x \in S /\ g \in [1 .. N -> [S -> S]]
      BY <1>5, <3>1
    <3>3. \E e \in [0 .. N -> S] : e[0] = x /\ \A n \in 1 .. N : e[n] = g[n][e[n - 1]]
      BY <3>2, RecursionExists
    <3> QED BY <3>1, <3>3
  <2>2. ASSUME NEW n \in 1 .. N PROVE e[n] = e[n - 1] + records[n].length
    <3>1. n - 1 \in 0 .. N
      OBVIOUS
    <3> QED BY <1>6, <2>1, <3>1
  <2>3. Adds(e, records)
    BY <1>1, <2>1, <2>2 DEF Adds
  <2>4. Upto(e)
    BY <1>4, <2>3
  <2> QED BY <1>2, <2>3, <2>4
<1>8. ASSUME NEW f, Adds(f, records) PROVE Abstract!CellsOf(records) = f[N]
  <2> HIDE DEF Upto
  <2>1. c[0] = f[0]
    BY <1>3, <1>7, <1>8 DEF Adds
  <2>2. \A n \in 1 .. N : f[n] = f[n - 1] + records[n].length
    BY <1>1, <1>8 DEF Adds
  <2>3. \A n \in 1 .. N : c[n] = c[n - 1] + records[n].length
    BY <1>3, <1>7
  <2>4. \A n \in 1 .. N : c[n - 1] = f[n - 1] => c[n] = f[n]
    BY <2>2, <2>3
  <2>5. \A n \in 0 .. N : c[n] = f[n]
    BY <2>1, <2>4, RecursionUnique
  <2> QED BY <1>7, <2>5
<1> QED BY <1>1, <1>7, <1>8

\* The cells of no record, and of one record more.
LEMMA CellsOfAppend ==
  /\ Abstract!CellsOf(<<>>) = 0
  /\ \A s \in Seq(Record), r \in Record :
       /\ Abstract!CellsOf(s) \in Nat
       /\ Abstract!CellsOf(Append(s, r)) = Abstract!CellsOf(s) + r.length
<1>1. Abstract!CellsOf(<<>>) = 0
  <2> DEFINE f == [n \in 0 .. 0 |-> 0]
  <2>1. f \in [0 .. 0 -> Nat] /\ f[0] = 0
    OBVIOUS
  <2> HIDE DEF f
  <2>2. <<>> \in Seq(Record) /\ Len(<<>>) = 0
    OBVIOUS
  <2>3. Adds(f, <<>>)
    BY <2>1, <2>2 DEF Adds
  <2> QED BY <2>1, <2>2, <2>3, CellsOfIs
<1>2. ASSUME NEW s \in Seq(Record), NEW r \in Record
      PROVE  /\ Abstract!CellsOf(s) \in Nat
             /\ Abstract!CellsOf(Append(s, r)) = Abstract!CellsOf(s) + r.length
  <2>1. PICK N \in Nat : N = Len(s)
    OBVIOUS
  <2>2. PICK f : Adds(f, s) /\ Abstract!CellsOf(s) = f[N]
    BY <2>1, CellsOfIs
  <2>3. f \in [0 .. N -> Nat] /\ f[0] = 0 /\ \A n \in 1 .. N : f[n] = f[n - 1] + s[n].length
    BY <2>1, <2>2 DEF Adds
  <2>4. r.length \in Nat
    BY WriteTypes, Geometry
  <2> DEFINE h == [n \in 0 .. N + 1 |-> IF n <= N THEN f[n] ELSE f[N] + r.length]
  <2>5. h \in [0 .. N + 1 -> Nat] /\ h[N + 1] = f[N] + r.length
        /\ \A n \in 0 .. N : h[n] = f[n]
    BY <2>3, <2>4
  <2> HIDE DEF h
  <2>6. /\ Append(s, r) \in Seq(Record) /\ Len(Append(s, r)) = N + 1
        /\ Append(s, r)[N + 1] = r /\ \A n \in 1 .. N : Append(s, r)[n] = s[n]
    BY <2>1
  <2>7. ASSUME NEW n \in 1 .. N + 1 PROVE h[n] = h[n - 1] + Append(s, r)[n].length
    <3>1. CASE n = N + 1
      BY <2>5, <2>6, <3>1
    <3>2. CASE n # N + 1
      <4>1. n \in 1 .. N /\ n \in 0 .. N /\ n - 1 \in 0 .. N
        BY <3>2
      <4>2. h[n] = f[n] /\ h[n - 1] = f[n - 1] /\ Append(s, r)[n] = s[n]
        BY <2>5, <2>6, <4>1
      <4> QED BY <2>3, <4>1, <4>2
    <3> QED BY <3>1, <3>2
  <2>8. Adds(h, Append(s, r))
    BY <2>3, <2>5, <2>6, <2>7 DEF Adds
  <2>9. Abstract!CellsOf(Append(s, r)) = h[N + 1]
    BY <2>6, <2>8, CellsOfIs
  <2> QED BY <2>2, <2>3, <2>5, <2>9
<1> QED BY <1>1, <1>2

-----------------------------------------------------------------------------
(* Writes in a row.                                                        *)

LEMMA PlacedWrites ==
  /\ Placed \subseteq PlannedWrite
  /\ \A w \in Placed :
       /\ w.cursor \in Cursor /\ w.rec \in Record
       /\ w.rec.length \in 1 .. Capacity /\ w.rec.length \in 0 .. Capacity
       /\ w.rec.seq \in Sequence
       /\ Advance(w.cursor, w.rec.length) \in Cursor
       /\ Offset(w.cursor) + w.rec.length <= Capacity
  /\ Seq(Placed) \subseteq Seq(PlannedWrite)
<1>1. Placed \subseteq PlannedWrite
  BY DEF Placed
<1>2. ASSUME NEW w \in Placed
      PROVE  /\ w.cursor \in Cursor /\ w.rec \in Record
             /\ w.rec.length \in 1 .. Capacity /\ w.rec.length \in 0 .. Capacity
             /\ w.rec.seq \in Sequence
             /\ Advance(w.cursor, w.rec.length) \in Cursor
             /\ Offset(w.cursor) + w.rec.length <= Capacity
  <2>1. w.cursor \in Cursor /\ w.rec \in Record
    BY <1>1, WriteTypes
  <2>2. w.rec.length \in 1 .. Capacity /\ w.rec.length \in 0 .. Capacity
        /\ w.rec.seq \in Sequence
    BY <2>1, WriteTypes, Geometry
  <2>3. Offset(w.cursor) + w.rec.length <= Capacity
    BY DEF Placed
  <2> QED BY <2>1, <2>2, <2>3, AdvanceType
<1>3. Seq(Placed) \subseteq Seq(PlannedWrite)
  BY <1>1
<1> QED BY <1>1, <1>2, <1>3

LEMMA PlacedMeasures ==
  ASSUME NEW w \in Placed, NEW base \in Cursor
  PROVE  /\ w.cursor \in Cursor /\ w.rec \in Record
         /\ w.rec.length \in Nat /\ w.rec.length > 0
         /\ Distance(w.cursor, base) \in Nat
<1>1. w.cursor \in Cursor /\ w.rec \in Record /\ w.rec.length \in 1 .. Capacity
  BY PlacedWrites
<1> QED BY <1>1, DistanceType, Geometry

\* Where writes end, others may follow.
LEMMA LinkedConcat ==
  ASSUME NEW s \in Seq(Placed), NEW t \in Seq(Placed), NEW a, NEW b, NEW c,
         Linked(s, a, b), Linked(t, b, c)
  PROVE  Linked(s \o t, a, c)
<1>1. PICK M \in Nat, N \in Nat : M = Len(s) /\ N = Len(t)
  OBVIOUS
<1>2. /\ DOMAIN s = 1 .. M /\ DOMAIN t = 1 .. N /\ DOMAIN (s \o t) = 1 .. M + N
      /\ \A n \in 1 .. M : (s \o t)[n] = s[n]
      /\ \A n \in 1 .. N : (s \o t)[M + n] = t[n]
  BY <1>1
<1>3. \A n \in 1 .. M + 1 : StartOf(s \o t, n, c) = StartOf(s, n, b)
  <2> SUFFICES ASSUME NEW n \in 1 .. M + 1 PROVE StartOf(s \o t, n, c) = StartOf(s, n, b)
    OBVIOUS
  <2>1. CASE n \in 1 .. M
    BY <1>2, <2>1 DEF StartOf
  <2>2. CASE n = M + 1
    <3>1. StartOf(s, n, b) = b /\ StartOf(t, 1, c) = b
      BY <1>2, <2>2 DEF StartOf, Linked
    <3>2. CASE N = 0
      BY <1>2, <2>2, <3>1, <3>2 DEF StartOf
    <3>3. CASE N # 0
      <4>1. 1 \in 1 .. N /\ n \in 1 .. M + N /\ n = M + 1
        BY <2>2, <3>3
      <4> QED BY <1>2, <3>1, <4>1 DEF StartOf
    <3> QED BY <3>2, <3>3
  <2> QED BY <2>1, <2>2
<1>4. \A n \in 1 .. N + 1 : StartOf(s \o t, M + n, c) = StartOf(t, n, c)
  <2> SUFFICES ASSUME NEW n \in 1 .. N + 1 PROVE StartOf(s \o t, M + n, c) = StartOf(t, n, c)
    OBVIOUS
  <2>1. M + n \in 1 .. M + N <=> n \in 1 .. N
    OBVIOUS
  <2> QED BY <1>2, <2>1 DEF StartOf
<1>5. StartOf(s \o t, 1, c) = a
  <2>1. 1 \in 1 .. M + 1
    OBVIOUS
  <2> QED BY <1>3, <2>1 DEF Linked
<1>6. ASSUME NEW n \in 1 .. M + N
      PROVE  StartOf(s \o t, n + 1, c) = After((s \o t)[n])
  <2>1. CASE n \in 1 .. M
    <3>1. n + 1 \in 1 .. M + 1
      BY <2>1
    <3> QED BY <1>2, <1>3, <2>1, <3>1 DEF Linked
  <2>2. CASE n \notin 1 .. M
    <3>1. PICK k \in 1 .. N : n = M + k
      <4>1. n - M \in 1 .. N /\ n = M + (n - M)
        BY <2>2
      <4> QED BY <4>1
    <3>2. k + 1 \in 1 .. N + 1 /\ n + 1 = M + (k + 1)
      BY <3>1
    <3> QED BY <1>2, <1>4, <3>1, <3>2 DEF Linked
  <2> QED BY <2>1, <2>2
<1> QED BY <1>2, <1>5, <1>6 DEF Linked

\* One write leads from its position to the one behind it.
LEMMA LinkedOne ==
  ASSUME NEW w
  PROVE  Linked(<<w>>, Position(w), After(w))
<1>1. DOMAIN <<w>> = {1} /\ <<w>>[1] = w
  OBVIOUS
<1>2. 1 + 1 \notin {1}
  OBVIOUS
<1> QED BY <1>1, <1>2 DEF Linked, StartOf

\* Without its first write the rest starts behind it.
LEMMA LinkedTail ==
  ASSUME NEW s \in Seq(Placed), s # <<>>, NEW a, NEW b, Linked(s, a, b)
  PROVE  Linked(Tail(s), After(s[1]), b) /\ a = Position(s[1])
<1>1. PICK N \in Nat : N + 1 = Len(s)
  <2>1. Len(s) \in Nat /\ Len(s) # 0
    OBVIOUS
  <2>2. Len(s) - 1 \in Nat /\ (Len(s) - 1) + 1 = Len(s)
    BY <2>1
  <2> QED BY <2>2
<1>2. /\ DOMAIN s = 1 .. N + 1 /\ DOMAIN Tail(s) = 1 .. N
      /\ \A n \in 1 .. N : Tail(s)[n] = s[n + 1]
  BY <1>1
<1>3. \A n \in 1 .. N + 1 : StartOf(Tail(s), n, b) = StartOf(s, n + 1, b)
  <2> SUFFICES ASSUME NEW n \in 1 .. N + 1 PROVE StartOf(Tail(s), n, b) = StartOf(s, n + 1, b)
    OBVIOUS
  <2>1. n \in 1 .. N <=> n + 1 \in 1 .. N + 1
    OBVIOUS
  <2> QED BY <1>2, <2>1 DEF StartOf
<1>4. 1 \in 1 .. N + 1 /\ \A n \in 1 .. N : n + 1 \in 1 .. N + 1
  OBVIOUS
<1>5. StartOf(Tail(s), 1, b) = After(s[1]) /\ a = Position(s[1])
  BY <1>2, <1>3, <1>4 DEF Linked, StartOf
<1>6. ASSUME NEW n \in 1 .. N PROVE StartOf(Tail(s), n + 1, b) = After(Tail(s)[n])
  BY <1>2, <1>3, <1>4 DEF Linked
<1> QED BY <1>2, <1>5, <1>6 DEF Linked

\* Writes in order before others, the same base.
LEMMA InOrderConcat ==
  ASSUME NEW s \in Seq(Placed), NEW t \in Seq(Placed),
         NEW base \in Cursor, NEW middle \in Cursor, NEW limit \in Cursor,
         InOrder(s, base, middle), InOrder(t, base, limit),
         Distance(middle, base) <= Distance(limit, base),
         \A j \in DOMAIN t : Distance(middle, base) <= Distance(t[j].cursor, base)
  PROVE  InOrder(s \o t, base, limit)
<1>1. PICK M \in Nat, N \in Nat : M = Len(s) /\ N = Len(t)
  OBVIOUS
<1>2. /\ DOMAIN s = 1 .. M /\ DOMAIN t = 1 .. N /\ DOMAIN (s \o t) = 1 .. M + N
      /\ \A n \in 1 .. M : (s \o t)[n] = s[n] /\ s[n] \in Placed
      /\ \A n \in 1 .. N : (s \o t)[M + n] = t[n] /\ t[n] \in Placed
  BY <1>1
<1> DEFINE reach(w) == Distance(w.cursor, base) + w.rec.length
<1>3. \A w \in Placed : reach(w) \in Nat /\ Distance(w.cursor, base) \in Nat
  BY PlacedMeasures
<1>4. Distance(middle, base) \in Nat /\ Distance(limit, base) \in Nat
  BY DistanceType
<1>5. \A i \in 1 .. M : /\ reach(s[i]) <= Distance(middle, base)
                        /\ \A j \in 1 .. M : i < j => reach(s[i]) <= Distance(s[j].cursor, base)
  BY <1>2 DEF InOrder
<1>6. \A i \in 1 .. N : /\ reach(t[i]) <= Distance(limit, base)
                        /\ \A j \in 1 .. N : i < j => reach(t[i]) <= Distance(t[j].cursor, base)
  BY <1>2 DEF InOrder
<1>7. \A n \in 1 .. M + N : n \in 1 .. M \/ \E k \in 1 .. N : n = M + k
  <2> SUFFICES ASSUME NEW n \in 1 .. M + N, n \notin 1 .. M
               PROVE  n - M \in 1 .. N /\ n = M + (n - M)
    OBVIOUS
  <2> QED OBVIOUS
<1> HIDE DEF reach
<1>8. ASSUME NEW i \in 1 .. M + N
      PROVE  /\ reach((s \o t)[i]) <= Distance(limit, base)
             /\ \A j \in 1 .. M + N :
                  i < j => reach((s \o t)[i]) <= Distance((s \o t)[j].cursor, base)
  <2>1. CASE i \in 1 .. M
    <3>1. reach(s[i]) \in Nat /\ reach(s[i]) <= Distance(middle, base)
      BY <1>2, <1>3, <1>5, <2>1
    <3>2. reach(s[i]) <= Distance(limit, base)
      BY <1>4, <3>1
    <3>3. ASSUME NEW j \in 1 .. M + N, i < j
          PROVE  reach(s[i]) <= Distance((s \o t)[j].cursor, base)
      <4>1. CASE j \in 1 .. M
        BY <1>2, <1>5, <2>1, <3>3, <4>1
      <4>2. CASE j \notin 1 .. M
        <5>1. PICK k \in 1 .. N : j = M + k
          BY <1>7, <4>2
        <5>2. Distance(middle, base) <= Distance(t[k].cursor, base)
              /\ Distance(t[k].cursor, base) \in Nat
          BY <1>2, <1>3
        <5>3. reach(s[i]) <= Distance(t[k].cursor, base)
          BY <1>4, <3>1, <5>2
        <5> QED BY <1>2, <5>1, <5>3
      <4> QED BY <4>1, <4>2
    <3> QED BY <1>2, <2>1, <3>2, <3>3
  <2>2. CASE i \notin 1 .. M
    <3>1. PICK k \in 1 .. N : i = M + k
      BY <1>7, <2>2
    <3>2. ASSUME NEW j \in 1 .. M + N, i < j
          PROVE  reach(t[k]) <= Distance((s \o t)[j].cursor, base)
      <4>1. j \notin 1 .. M
        BY <3>1, <3>2
      <4>2. PICK m \in 1 .. N : j = M + m
        BY <1>7, <4>1
      <4>3. k < m
        BY <3>1, <3>2, <4>2
      <4> QED BY <1>2, <1>6, <4>2, <4>3
    <3> QED BY <1>2, <1>6, <3>1, <3>2
  <2> QED BY <2>1, <2>2
<1> QED BY <1>2, <1>8 DEF InOrder, reach

\* The base moves forward to a cursor that no write has been before.
LEMMA InOrderRebase ==
  ASSUME NEW s \in Seq(Placed),
         NEW base \in Cursor, NEW next \in Cursor, NEW limit \in Cursor,
         InOrder(s, base, limit),
         Distance(next, base) <= Distance(limit, base),
         \A i \in DOMAIN s : Distance(next, base) <= Distance(s[i].cursor, base)
  PROVE  InOrder(s, next, limit)
<1>1. \A i \in DOMAIN s : s[i] \in Placed
  OBVIOUS
<1>2. \A w \in Placed : /\ w.cursor \in Cursor /\ w.rec.length \in Nat
                        /\ Distance(w.cursor, base) \in Nat
  BY PlacedMeasures
<1>3. Distance(limit, next) = Distance(limit, base) - Distance(next, base)
      /\ Distance(limit, base) \in Nat /\ Distance(next, base) \in Nat
  BY DistanceRebase, DistanceType
<1>4. ASSUME NEW i \in DOMAIN s
      PROVE  /\ Distance(s[i].cursor, next) = Distance(s[i].cursor, base) - Distance(next, base)
             /\ Distance(s[i].cursor, base) \in Nat /\ s[i].rec.length \in Nat
  BY <1>1, <1>2, DistanceRebase
<1>5. ASSUME NEW i \in DOMAIN s
      PROVE  /\ Distance(s[i].cursor, base) + s[i].rec.length <= Distance(limit, base)
             /\ \A j \in DOMAIN s : i < j =>
                  Distance(s[i].cursor, base) + s[i].rec.length <= Distance(s[j].cursor, base)
  BY DEF InOrder
<1>6. ASSUME NEW i \in DOMAIN s
      PROVE  Distance(s[i].cursor, next) + s[i].rec.length <= Distance(limit, next)
  BY <1>3, <1>4, <1>5
<1>7. ASSUME NEW i \in DOMAIN s, NEW j \in DOMAIN s, i < j
      PROVE  Distance(s[i].cursor, next) + s[i].rec.length <= Distance(s[j].cursor, next)
  <2>1. Distance(s[i].cursor, base) + s[i].rec.length <= Distance(s[j].cursor, base)
    BY <1>5, <1>7
  <2> QED BY <1>3, <1>4, <2>1
<1> QED BY <1>6, <1>7 DEF InOrder

\* What lies in order takes no more cells than there are up to its end.
LEMMA InOrderCells ==
  ASSUME NEW s \in Seq(Placed), NEW base \in Cursor, NEW limit \in Cursor,
         InOrder(s, base, limit)
  PROVE  Abstract!CellsOf(DataOf(s)) <= Distance(limit, base)
<1>1. PICK N \in Nat : N = Len(s)
  OBVIOUS
<1>2. /\ DOMAIN s = 1 .. N /\ \A i \in 1 .. N : s[i] \in Placed /\ s[i] \in PlannedWrite
      /\ s \in Seq(PlannedWrite)
  BY <1>1, PlacedWrites
<1>3. PICK f : Collects(f, s) /\ DataOf(s) = f[N]
  BY <1>1, <1>2, DataOfIs
<1>4. /\ f \in [0 .. N -> Seq(Record)] /\ f[0] = <<>>
      /\ \A n \in 1 .. N : f[n] = Kept(f[n - 1], s[n])
  BY <1>1, <1>3 DEF Collects
<1> DEFINE End(n) == IF n = 0 THEN 0 ELSE Distance(s[n].cursor, base) + s[n].rec.length
           P == {n \in Nat : n <= N => Abstract!CellsOf(f[n]) <= End(n)}
<1>5. \A n \in 1 .. N : Distance(s[n].cursor, base) \in Nat /\ s[n].rec \in Record
                        /\ s[n].rec.length \in Nat
  BY <1>2, PlacedMeasures
<1>6. 0 \in P
  BY <1>4, CellsOfAppend
<1>7. ASSUME NEW n \in P PROVE n + 1 \in P
  <2> SUFFICES ASSUME n + 1 <= N PROVE Abstract!CellsOf(f[n + 1]) <= End(n + 1)
    OBVIOUS
  <2>1. n + 1 \in 1 .. N /\ n \in 0 .. N /\ (n + 1) - 1 = n
    OBVIOUS
  <2>2. Abstract!CellsOf(f[n]) <= End(n) /\ f[n] \in Seq(Record)
    BY <1>4, <2>1
  <2>3. f[n + 1] = Kept(f[n], s[n + 1])
    BY <1>4, <2>1
  <2>4. End(n) <= Distance(s[n + 1].cursor, base)
    <3>1. CASE n = 0
      BY <1>5, <2>1, <3>1
    <3>2. CASE n # 0
      <4>1. n \in 1 .. N /\ n < n + 1
        BY <2>1, <3>2
      <4> QED BY <1>2, <2>1, <4>1 DEF InOrder
    <3> QED BY <3>1, <3>2
  <2>5. Abstract!CellsOf(f[n + 1]) <= Abstract!CellsOf(f[n]) + s[n + 1].rec.length
        /\ Abstract!CellsOf(f[n + 1]) \in Nat /\ Abstract!CellsOf(f[n]) \in Nat
    <3>1. s[n + 1].rec \in Record /\ s[n + 1].rec.length \in Nat
      BY <1>5, <2>1
    <3>2. CASE s[n + 1].rec.kind = "data"
      <4>1. f[n + 1] = Append(f[n], s[n + 1].rec) /\ f[n + 1] \in Seq(Record)
        BY <2>2, <2>3, <3>1, <3>2 DEF Kept
      <4> QED BY <2>2, <3>1, <4>1, CellsOfAppend
    <3>3. CASE s[n + 1].rec.kind # "data"
      <4>1. f[n + 1] = f[n]
        BY <2>3, <3>3 DEF Kept
      <4> QED BY <2>2, <3>1, <4>1, CellsOfAppend
    <3> QED BY <3>2, <3>3
  <2>6. End(n) \in Nat
    <3>1. n = 0 \/ n \in 1 .. N
      BY <2>1
    <3> QED BY <1>5, <3>1
  <2>7. Distance(s[n + 1].cursor, base) \in Nat /\ s[n + 1].rec.length \in Nat
    BY <1>5, <2>1
  <2>8. End(n + 1) = Distance(s[n + 1].cursor, base) + s[n + 1].rec.length
    OBVIOUS
  <2> HIDE DEF End, P
  <2> QED BY <2>2, <2>4, <2>5, <2>6, <2>7, <2>8
<1>8. N \in P
  <2> HIDE DEF End
  <2> QED BY <1>6, <1>7, SetInduction
<1>9. Abstract!CellsOf(DataOf(s)) <= End(N)
  BY <1>3, <1>8
<1>10. End(N) <= Distance(limit, base)
  <2>1. CASE N = 0
    BY <2>1, DistanceType
  <2>2. CASE N # 0
    <3>1. N \in 1 .. N
      BY <2>2
    <3> QED BY <1>2, <3>1 DEF InOrder
  <2> QED BY <2>1, <2>2
<1>11. Abstract!CellsOf(DataOf(s)) \in Nat /\ End(N) \in Nat /\ Distance(limit, base) \in Nat
  <2>1. f[N] \in Seq(Record) /\ (N = 0 \/ N \in 1 .. N)
    BY <1>4
  <2>2. Abstract!CellsOf(f[N]) \in Nat
    <3>1. NoRecord \in Record
      BY NoRecordType
    <3> QED BY <2>1, <3>1, CellsOfAppend
  <2> QED BY <1>3, <1>5, <2>1, <2>2, DistanceType
<1> HIDE DEF End
<1> QED BY <1>9, <1>10, <1>11

\* One write in order.
LEMMA InOrderOne ==
  ASSUME NEW w, NEW base, NEW limit,
         Distance(w.cursor, base) + w.rec.length <= Distance(limit, base)
  PROVE  InOrder(<<w>>, base, limit)
<1>1. DOMAIN <<w>> = {1} /\ <<w>>[1] = w
  OBVIOUS
<1> QED BY <1>1 DEF InOrder

-----------------------------------------------------------------------------
(* The cells of the data area.                                             *)

\* Writes within one revolution that lie apart share no cell.
LEMMA Disjoint ==
  ASSUME Aligned, NEW v \in Placed, NEW w \in Placed, NEW base \in Cursor,
         Distance(v.cursor, base) + v.rec.length <= Distance(w.cursor, base),
         Distance(w.cursor, base) + w.rec.length <= Capacity
  PROVE  \A o \in Span(v.cursor, v.rec.length) : o \notin Span(w.cursor, w.rec.length)
<1>1. /\ v.cursor \in Cursor /\ w.cursor \in Cursor
      /\ Distance(v.cursor, base) \in Nat /\ Distance(w.cursor, base) \in Nat
      /\ v.rec.length \in Nat /\ w.rec.length \in Nat
      /\ v.rec.length > 0 /\ w.rec.length > 0
  BY PlacedMeasures
<1>2. PICK dv \in Nat, dw \in Nat, lv \in Nat, lw \in Nat :
        /\ dv = Distance(v.cursor, base) /\ dw = Distance(w.cursor, base)
        /\ lv = v.rec.length /\ lw = w.rec.length
  BY <1>1
<1>3. dv + lv <= dw /\ dw + lw <= Capacity /\ lv > 0 /\ lw > 0 /\ Capacity \in Nat
  BY <1>1, <1>2, Geometry
<1>4. dv \in 0 .. Capacity /\ dw \in 0 .. Capacity
  BY <1>3
<1>5. v.cursor = Advance(base, dv) /\ w.cursor = Advance(base, dw)
  BY <1>1, <1>2, Geometry DEF Distance, Advance, Cursor
<1>6. PICK b \in Nat : b = Offset(base)
  BY OffsetType, Geometry DEF Offsets
<1>7. /\ Offset(v.cursor) = IF b + dv < Capacity THEN b + dv ELSE b + dv - Capacity
      /\ Offset(w.cursor) = IF b + dw < Capacity THEN b + dw ELSE b + dw - Capacity
  BY <1>4, <1>5, <1>6, OffsetAdvance
<1>8. ASSUME NEW o, o \in Span(v.cursor, v.rec.length), o \in Span(w.cursor, w.rec.length)
      PROVE  FALSE
  <2>1. /\ o \in Offset(v.cursor) .. Offset(v.cursor) + lv - 1
        /\ o \in Offset(w.cursor) .. Offset(w.cursor) + lw - 1
    BY <1>2, <1>8 DEF Span
  <2> QED BY <1>3, <1>7, <2>1
<1> QED BY <1>8

\* A stored write is held, and every other one that shares no cell with it.
LEMMA StoredHolds ==
  ASSUME NEW memory, NEW w \in Placed
  PROVE  Holds(Stored(memory, w.cursor, w.rec), w)
<1>1. /\ w.cursor \in Cursor /\ w.rec.length \in Nat
      /\ Offset(w.cursor) + w.rec.length <= Capacity
  BY PlacedWrites, Geometry
<1>2. Offset(w.cursor) \in Nat /\ Capacity \in Nat
  BY <1>1, OffsetType, Geometry DEF Offsets
<1> SUFFICES ASSUME NEW part \in 0 .. w.rec.length - 1
             PROVE  Stored(memory, w.cursor, w.rec)[Offset(w.cursor) + part]
                      = CellOf(w.rec, part)
  BY DEF Holds
<1>3. PICK o \in Nat : o = Offset(w.cursor) + part
  BY <1>1, <1>2
<1>4. o \in Offsets /\ o \in Span(w.cursor, w.rec.length) /\ o - Offset(w.cursor) = part
  BY <1>1, <1>2, <1>3 DEF Offsets, Span
<1> QED BY <1>3, <1>4 DEF Stored

LEMMA StoredKeeps ==
  ASSUME NEW memory \in [Offsets -> Cell], NEW v \in Placed, NEW w \in Placed,
         \A o \in Span(v.cursor, v.rec.length) : o \notin Span(w.cursor, w.rec.length)
  PROVE  /\ \A o \in Span(v.cursor, v.rec.length) :
              Stored(memory, w.cursor, w.rec)[o] = memory[o]
         /\ Holds(memory, v) => Holds(Stored(memory, w.cursor, w.rec), v)
<1>1. /\ v.cursor \in Cursor /\ v.rec.length \in Nat
      /\ Offset(v.cursor) + v.rec.length <= Capacity
  BY PlacedWrites, Geometry
<1>2. Offset(v.cursor) \in Nat /\ Capacity \in Nat
  BY <1>1, OffsetType, Geometry DEF Offsets
<1>3. ASSUME NEW o \in Span(v.cursor, v.rec.length)
      PROVE  Stored(memory, w.cursor, w.rec)[o] = memory[o]
  <2>1. o \in Offsets
    BY <1>1, <1>2 DEF Span, Offsets
  <2> QED BY <2>1 DEF Stored
<1>4. ASSUME Holds(memory, v) PROVE Holds(Stored(memory, w.cursor, w.rec), v)
  <2> SUFFICES ASSUME NEW part \in 0 .. v.rec.length - 1
               PROVE  Stored(memory, w.cursor, w.rec)[Offset(v.cursor) + part]
                        = CellOf(v.rec, part)
    BY DEF Holds
  <2>1. Offset(v.cursor) + part \in Span(v.cursor, v.rec.length)
    BY <1>1, <1>2 DEF Span
  <2> QED BY <1>3, <1>4, <2>1 DEF Holds
<1> QED BY <1>3, <1>4

-----------------------------------------------------------------------------
(* The invariant holds initially, and while the two sides do not meet.     *)

LEMMA FirstAndRest ==
  ASSUME NEW S, NEW s \in Seq(S), s # <<>>
  PROVE  /\ Head(s) \in S /\ Head(s) = s[1] /\ 1 \in DOMAIN s
         /\ Tail(s) \in Seq(S) /\ s = <<Head(s)>> \o Tail(s)
         /\ Len(s) \in Nat /\ Len(s) > 0
         /\ (Tail(s) # <<>> <=> Len(s) # 1)
         /\ \A i \in DOMAIN Tail(s) : i + 1 \in DOMAIN s /\ Tail(s)[i] = s[i + 1]
<1>1. Len(s) \in Nat /\ Len(s) > 0
  OBVIOUS
<1>2. Head(s) = s[1] /\ 1 \in DOMAIN s /\ Head(s) \in S /\ Tail(s) \in Seq(S)
  BY <1>1
<1>3. s = <<Head(s)>> \o Tail(s)
  BY <1>1, <1>2
<1>4. Len(Tail(s)) = Len(s) - 1
      /\ \A i \in DOMAIN Tail(s) : i + 1 \in DOMAIN s /\ Tail(s)[i] = s[i + 1]
  BY <1>1
<1>5. Tail(s) # <<>> <=> Len(s) # 1
  BY <1>1, <1>2, <1>4
<1> QED BY <1>1, <1>2, <1>3, <1>4, <1>5

LEMMA EmptyLists ==
  /\ <<>> \in Seq(Placed) /\ DOMAIN <<>> = {} /\ Len(<<>>) = 0
  /\ \A a : Linked(<<>>, a, a)
  /\ \A base, limit : InOrder(<<>>, base, limit)
<1>1. <<>> \in Seq(Placed) /\ DOMAIN <<>> = {} /\ Len(<<>>) = 0
  OBVIOUS
<1> QED BY <1>1 DEF Linked, StartOf, InOrder

LEMMA QueueInit == Init => QueueInv
<1> SUFFICES ASSUME Init PROVE QueueInv
  OBVIOUS
<1>1. WriterInv
  BY WriterInit
<1>2. InflightInv
  BY EmptyLists DEF Init, InflightInv, ReadPosition, WritePosition
<1> QED BY <1>1, <1>2 DEF Init, QueueInv, PlanInv, MessageInv, ReaderInv, Calling

\* What InflightInv reads.
LEMMA InflightFrame ==
  ASSUME InflightInv,
         UNCHANGED <<inflight, consumer, producer, expectedSequence, nextSequence, bytes, seen>>
  PROVE  InflightInv'
BY DEF InflightInv, ReadPosition, WritePosition

LEMMA ReaderFrame ==
  ASSUME ReaderInv, UNCHANGED <<inflight, consumer, rpc, receipt>>
  PROVE  ReaderInv'
BY DEF ReaderInv

\* What PlanInv and MessageInv read.
LEMMA PlanFrame ==
  ASSUME PlanInv, MessageInv,
         UNCHANGED <<wpc, planned, unplanned, stored, producer, nextSequence, nextId,
                     planCursor, planSequence, snapConsumer, bytes>>
  PROVE  PlanInv' /\ MessageInv'
BY DEF PlanInv, MessageInv, Calling, WritePosition, PlanPosition

LEMMA BeginSendQueue ==
  ASSUME QueueInv, WriterInv',
         NEW call \in {"single", "fragments"}, NEW batch \in Batches,
         BeginSend(call, batch)
  PROVE  QueueInv'
<1>1. /\ unplanned' = batch /\ planned' = <<>> /\ stored' = 0
      /\ planCursor' = producer /\ planSequence' = nextSequence
      /\ UNCHANGED <<producer, consumer, bytes, seen, nextSequence, nextId,
                     expectedSequence, rpc, receipt, inflight>>
  BY DEF BeginSend, sharedVars, readerVars
<1>2. wpc' = "planning"
  BY DEF BeginSend, QueueInv, WriterInv, Used
<1>3. batch # <<>>
  BY NumberingAssumption
<1>4. PlanInv'
  BY <1>1, EmptyLists DEF PlanInv, WritePosition, PlanPosition
<1>5. MessageInv'
  BY <1>1, <1>2, <1>3, DataOfSmall, EmptyLists DEF MessageInv
<1> QED
  BY <1>1, <1>4, <1>5, InflightFrame, ReaderFrame DEF QueueInv

\* Every step that ends the call and touches nothing the reader sees.
LEMMA EndCallQueue ==
  ASSUME QueueInv, WriterInv', RefuseSend \/ MeasureBuffered \/ DropPending \/ CrashProducer
  PROVE  QueueInv'
<1>1. /\ wpc' \in {"idle", "crashed"}
      /\ UNCHANGED <<producer, consumer, bytes, seen, nextSequence,
                     expectedSequence, rpc, receipt, inflight>>
  BY DEF RefuseSend, MeasureBuffered, DropPending, CrashProducer, sharedVars, readerVars
<1>2. ~Calling'
  BY <1>1 DEF Calling
<1>3. PlanInv' /\ MessageInv'
  BY <1>2 DEF PlanInv, MessageInv
<1> QED
  BY <1>1, <1>3, InflightFrame, ReaderFrame DEF QueueInv

LEMMA PropagateQueue ==
  ASSUME QueueInv, WriterInv', Propagate
  PROVE  QueueInv'
<1>1. /\ seen' = bytes
      /\ UNCHANGED <<producer, consumer, bytes, nextSequence, nextId, wpc, unplanned,
                     planned, stored, planCursor, planSequence, snapConsumer,
                     expectedSequence, rpc, receipt, inflight>>
  BY DEF Propagate, writerVars, callVars, readerVars
<1>2. InflightInv'
  BY <1>1 DEF QueueInv, InflightInv, ReadPosition, WritePosition
<1> QED
  BY <1>1, <1>2, PlanFrame, ReaderFrame DEF QueueInv

LEMMA StutterQueue ==
  ASSUME QueueInv, WriterInv', UNCHANGED vars
  PROVE  QueueInv'
<1>1. UNCHANGED <<producer, consumer, bytes, seen, nextSequence, nextId, wpc, unplanned,
                  planned, stored, planCursor, planSequence, snapConsumer,
                  expectedSequence, rpc, receipt, inflight>>
  BY DEF vars, sharedVars, writerVars, callVars, readerVars
<1> QED
  BY <1>1, InflightFrame, PlanFrame, ReaderFrame DEF QueueInv

-----------------------------------------------------------------------------
(* The writer's steps.                                                     *)

\* One turn of the planning loop appends the record, behind the wrap tail if
\* it would straddle the end.
LEMMA PlanTurn ==
  ASSUME Aligned, QueueInv, PlanRecord
  PROVE  \E added \in Seq(Placed) :
           /\ planned' = planned \o added
           /\ Linked(added, PlanPosition, PlanPosition')
           /\ InOrder(added, snapConsumer, planCursor')
           /\ \A j \in DOMAIN added : Ahead(planCursor) <= Ahead(added[j].cursor)
           /\ Ahead(planCursor) <= Distance(planCursor', snapConsumer)
           /\ planCursor' \in Cursor
           /\ DataOf(added) = <<DataRecord(Head(unplanned))>>
<1> USE Geometry, NumberingAssumption
<1> DEFINE length == Head(unplanned)
           padding == WrapPadding(planCursor, length)
           start == Advance(planCursor, padding)
           pad == [cursor |-> planCursor, rec |-> PaddingRecord(padding)]
           write == [cursor |-> start, rec |-> DataRecord(length)]
<1>1. /\ wpc = "planning"
      /\ planned' = planned \o (IF padding = 0 THEN <<>> ELSE <<pad>>) \o <<write>>
      /\ planCursor' = Advance(planCursor, padding + length)
      /\ planSequence' = NextSequence(planSequence)
      /\ padding + length <= Capacity - Ahead(planCursor)
  BY DEF PlanRecord, Fits, Required, Ahead
<1>2. CodeTypes /\ planned \in Seq(Placed)
  BY <1>1 DEF QueueInv, WriterInv, PlanInv, Calling
<1>3. length \in RecordPrefix .. Capacity /\ length \in 1 .. Capacity
  BY <1>2 DEF PlanRecord, CodeTypes, RecordPrefix
<1>4. /\ planCursor \in Cursor /\ snapConsumer \in Cursor
      /\ Ahead(planCursor) \in Nat /\ Ahead(planCursor) <= Capacity
  BY <1>1, <1>2, DistanceType DEF CodeTypes, QueueInv, WriterInv, SnapshotOrder, Calling, Ahead
<1>5. /\ padding \in 0 .. Capacity
      /\ padding > 0 => Offset(planCursor) + padding = Capacity
      /\ Offset(start) + length <= Capacity
  BY <1>3, <1>4, PaddingType
<1>6. DataRecord(length) \in Record /\ (padding # 0 => PaddingRecord(padding) \in Record)
  <2>1. DataRecord(length) \in Record
    BY <1>2, <1>3 DEF DataRecord, Record, CodeTypes, MessageId
  <2>2. padding # 0 => PaddingRecord(padding) \in Record
    BY <1>2, <1>5 DEF PaddingRecord, Record, CodeTypes
  <2> QED BY <2>1, <2>2
<1> HIDE DEF length, padding
<1>7. padding + length \in 0 .. Capacity
  BY <1>1, <1>3, <1>4, <1>5
<1>8. /\ start \in Cursor /\ planCursor' \in Cursor
      /\ Ahead(start) = Ahead(planCursor) + padding
      /\ Distance(planCursor', snapConsumer) = Ahead(planCursor) + padding + length
      /\ planCursor' = Advance(start, length)
  <2>1. /\ start \in Cursor /\ planCursor' \in Cursor
        /\ Ahead(start) = Ahead(planCursor) + padding
        /\ Distance(planCursor', snapConsumer) = Ahead(planCursor) + padding + length
    BY <1>1, <1>3, <1>4, <1>5, <1>7, AdvanceType, AdvanceDistance DEF Ahead
  <2>2. planCursor' = Advance(start, length)
    BY <1>1, <1>3, <1>4, <1>5, <1>7 DEF Advance, Cursor
  <2> QED BY <2>1, <2>2
<1>9. write \in Placed /\ write \in PlannedWrite
  <2>1. write \in PlannedWrite
    BY <1>6, <1>8 DEF PlannedWrite
  <2> QED BY <1>3, <1>5, <2>1 DEF Placed, DataRecord
<1>10. /\ Position(write) = [cursor |-> start, seq |-> planSequence]
       /\ After(write) = PlanPosition'
       /\ Linked(<<write>>, Position(write), PlanPosition')
  <2>1. Position(write) = [cursor |-> start, seq |-> planSequence]
    BY DEF Position, DataRecord
  <2>2. After(write) = PlanPosition'
    BY <1>1, <1>8 DEF After, DataRecord, PlanPosition
  <2> QED BY <2>1, <2>2, LinkedOne
<1>11. InOrder(<<write>>, snapConsumer, planCursor')
  <2>1. Distance(write.cursor, snapConsumer) + write.rec.length
          <= Distance(planCursor', snapConsumer)
    BY <1>3, <1>4, <1>5, <1>8 DEF Ahead, DataRecord
  <2> QED BY <2>1, InOrderOne
<1>12. DataOf(<<write>>) = <<DataRecord(length)>>
  BY <1>9, DataOfSmall DEF DataRecord
<1>13. Ahead(planCursor) <= Ahead(start)
       /\ Ahead(planCursor) <= Distance(planCursor', snapConsumer)
  BY <1>3, <1>4, <1>5, <1>8
<1>14. <<write>> \in Seq(Placed) /\ DOMAIN <<write>> = {1} /\ <<write>>[1] = write
  BY <1>9
<1>15. CASE padding = 0
  <2>1. planned' = planned \o <<write>>
    BY <1>1, <1>2, <1>15
  <2>2. start = planCursor
    BY <1>4, <1>15 DEF Advance, Cursor
  <2>3. Linked(<<write>>, PlanPosition, PlanPosition')
    BY <1>10, <2>2 DEF PlanPosition
  <2>4. \A j \in DOMAIN <<write>> : Ahead(planCursor) <= Ahead(<<write>>[j].cursor)
    BY <1>13, <1>14
  <2> HIDE DEF write
  <2> QED BY <1>8, <1>11, <1>12, <1>13, <1>14, <2>1, <2>3, <2>4 DEF length
<1>16. CASE padding # 0
  <2>1. pad \in Placed /\ pad \in PlannedWrite
    <3>1. pad \in PlannedWrite
      BY <1>4, <1>6, <1>16 DEF PlannedWrite
    <3>2. /\ pad.rec.length = padding /\ pad.cursor = planCursor
          /\ pad.rec.kind = IF padding >= RecordPrefix THEN "padding" ELSE "zeros"
      BY DEF PaddingRecord
    <3>3. pad.rec.kind = "zeros" <=> padding < RecordPrefix
      BY <1>5, <3>2 DEF RecordPrefix
    <3>4. pad.rec.kind \in {"padding", "zeros"} /\ pad.rec.kind # "data"
      BY <3>2
    <3>5. Offset(planCursor) + padding = Capacity
      BY <1>5, <1>16
    <3> HIDE DEF pad
    <3> QED BY <3>1, <3>2, <3>3, <3>4, <3>5 DEF Placed
  <2>2. <<pad>> \in Seq(Placed) /\ DOMAIN <<pad>> = {1} /\ <<pad>>[1] = pad
    BY <2>1
  <2>3. pad.rec.kind # "data" /\ pad.rec.length = padding /\ pad.rec.seq = planSequence
        /\ pad.cursor = planCursor
    BY DEF PaddingRecord
  <2>4. Position(pad) = PlanPosition /\ After(pad) = Position(write)
    BY <1>10, <2>3 DEF Position, After, PlanPosition
  <2>5. Linked(<<pad>>, PlanPosition, Position(write))
    BY <2>4, LinkedOne
  <2>6. InOrder(<<pad>>, snapConsumer, start)
    <3>1. Distance(pad.cursor, snapConsumer) + pad.rec.length <= Distance(start, snapConsumer)
      BY <1>4, <1>5, <1>8, <2>3 DEF Ahead
    <3> QED BY <3>1, InOrderOne
  <2>7. DataOf(<<pad>>) = <<>>
    BY <2>1, <2>3, DataOfSmall
  <2> DEFINE added == <<pad>> \o <<write>>
  <2>8. added \in Seq(Placed) /\ planned' = planned \o added
    BY <1>1, <1>2, <1>14, <1>16, <2>2
  <2>9. Linked(added, PlanPosition, PlanPosition')
    <3> HIDE DEF pad, write
    <3> QED BY <1>10, <1>14, <2>2, <2>5, LinkedConcat
  <2>10. InOrder(added, snapConsumer, planCursor')
    <3>1. Distance(start, snapConsumer) <= Distance(planCursor', snapConsumer)
          /\ \A j \in DOMAIN <<write>> :
               Distance(start, snapConsumer) <= Distance(<<write>>[j].cursor, snapConsumer)
      BY <1>3, <1>4, <1>5, <1>8, <1>14 DEF Ahead
    <3> HIDE DEF pad, write, start
    <3> QED BY <1>4, <1>8, <1>11, <1>14, <2>2, <2>6, <3>1, InOrderConcat
  <2>11. DataOf(added) = <<DataRecord(length)>>
    <3>1. <<pad>> \in Seq(PlannedWrite) /\ <<write>> \in Seq(PlannedWrite)
      BY <1>9, <2>1
    <3>2. DataOf(added) = <<>> \o <<DataRecord(length)>>
      <4> HIDE DEF pad, write
      <4> QED BY <1>12, <2>7, <3>1, DataOfConcat
    <3> QED BY <1>6, <3>2
  <2>12. \A j \in DOMAIN added : Ahead(planCursor) <= Ahead(added[j].cursor)
    <3>1. DOMAIN added = {1, 2} /\ added[1] = pad /\ added[2] = write
      BY <1>14, <2>2
    <3> HIDE DEF added
    <3> QED BY <1>4, <1>13, <2>3, <3>1
  <2> HIDE DEF added
  <2> QED BY <1>8, <1>13, <2>8, <2>9, <2>10, <2>11, <2>12 DEF length
<1> QED BY <1>15, <1>16

LEMMA PlanRecordQueue ==
  ASSUME Aligned, QueueInv, WriterInv', PlanRecord
  PROVE  QueueInv'
<1>1. PICK added \in Seq(Placed) :
        /\ planned' = planned \o added
        /\ Linked(added, PlanPosition, PlanPosition')
        /\ InOrder(added, snapConsumer, planCursor')
        /\ \A j \in DOMAIN added : Ahead(planCursor) <= Ahead(added[j].cursor)
        /\ Ahead(planCursor) <= Distance(planCursor', snapConsumer)
        /\ planCursor' \in Cursor
        /\ DataOf(added) = <<DataRecord(Head(unplanned))>>
  BY PlanTurn
<1>2. /\ wpc = "planning" /\ unplanned # <<>> /\ unplanned' = Tail(unplanned)
      /\ wpc' = IF Len(unplanned) = 1 THEN "storing" ELSE "planning"
      /\ UNCHANGED <<producer, consumer, bytes, seen, nextSequence, nextId, stored,
                     snapConsumer, expectedSequence, rpc, receipt, inflight>>
  BY DEF PlanRecord, sharedVars, readerVars
<1>3. CodeTypes /\ planned \in Seq(Placed) /\ Calling
      /\ Linked(planned, WritePosition, PlanPosition)
      /\ InOrder(planned, snapConsumer, planCursor)
      /\ \A i \in 1 .. stored : Holds(bytes, planned[i])
  BY <1>2 DEF QueueInv, WriterInv, PlanInv, Calling
<1>4. unplanned \in Seq(RecordPrefix .. Capacity) /\ stored \in 0 .. Len(planned)
      /\ planCursor \in Cursor /\ snapConsumer \in Cursor /\ nextId \in MessageId
      /\ planSequence \in Sequence
  BY <1>3 DEF CodeTypes
<1>5. PlanInv'
  <2>1. planned' \in Seq(Placed)
    BY <1>1, <1>3
  <2>2. Linked(planned', WritePosition, PlanPosition')
    BY <1>1, <1>3, LinkedConcat
  <2>3. InOrder(planned', snapConsumer, planCursor')
    BY <1>1, <1>3, <1>4, InOrderConcat DEF Ahead
  <2>4. \A i \in 1 .. stored : planned'[i] = planned[i]
    BY <1>1, <1>3, <1>4
  <2>5. \A i \in 1 .. stored : Holds(bytes, planned'[i])
    BY <1>3, <2>4
  <2>6. WritePosition' = WritePosition
    BY <1>2 DEF WritePosition
  <2> QED BY <1>2, <2>1, <2>2, <2>3, <2>5, <2>6 DEF PlanInv
<1>6. MessageInv'
  <2> DEFINE d == DataOf(planned)
             r == DataRecord(Head(unplanned))
  <2>1. r \in Record /\ r.id = nextId /\ r.end = (Len(unplanned) = 1)
    <3>1. Head(unplanned) \in RecordPrefix .. Capacity
      BY <1>2, <1>4, FirstAndRest
    <3>2. Head(unplanned) \in 1 .. Capacity
      BY <3>1, Geometry DEF RecordPrefix
    <3> QED BY <1>4, <3>2, NumberingAssumption DEF DataRecord, Record, MessageId
  <2>2. d \in Seq(Record) /\ DataOf(planned') = d \o <<r>>
    BY <1>1, <1>3, PlacedWrites, DataOfConcat
  <2>3. \A i \in DOMAIN d : d[i].id = nextId /\ ~d[i].end
    BY <1>2, <1>3 DEF QueueInv, MessageInv
  <2> HIDE DEF d, r
  <2>4. PICK N \in Nat : N = Len(d) /\ DOMAIN d = 1 .. N
    BY <2>2
  <2>5. /\ Len(d \o <<r>>) = N + 1 /\ DOMAIN (d \o <<r>>) = 1 .. N + 1
        /\ (d \o <<r>>)[N + 1] = r
        /\ \A i \in 1 .. N : (d \o <<r>>)[i] = d[i]
    BY <2>1, <2>2, <2>4
  <2>6. Len(unplanned) \in Nat /\ Len(unplanned) > 0
        /\ (unplanned' # <<>> <=> Len(unplanned) # 1)
    BY <1>2, <1>4, FirstAndRest
  <2>7. /\ wpc' = "planning" <=> unplanned' # <<>>
        /\ wpc' = "storing" <=> Len(unplanned) = 1
    BY <1>2, <2>6
  <2>8. DataOf(planned') # <<>>
    BY <2>2, <2>5
  <2>9. ASSUME NEW i \in DOMAIN DataOf(planned')
        PROVE  /\ DataOf(planned')[i].id = nextId
               /\ DataOf(planned')[i].end <=> wpc' = "storing" /\ i = Len(DataOf(planned'))
    <3>1. i \in 1 .. N + 1 /\ Len(DataOf(planned')) = N + 1
      BY <2>2, <2>5
    <3>2. CASE i = N + 1
      BY <2>1, <2>2, <2>5, <2>7, <3>1, <3>2
    <3>3. CASE i # N + 1
      <4>1. i \in 1 .. N
        BY <3>1, <3>3
      <4> QED BY <2>2, <2>3, <2>4, <2>5, <3>1, <3>3, <4>1
    <3> QED BY <3>2, <3>3
  <2> QED BY <1>2, <2>7, <2>8, <2>9 DEF MessageInv
<1>7. InflightInv' /\ ReaderInv'
  BY <1>2, InflightFrame, ReaderFrame DEF QueueInv
<1> QED BY <1>5, <1>6, <1>7 DEF QueueInv

\* A store touches neither what is in flight nor what the call stored before.
LEMMA StoreApart ==
  ASSUME Aligned, QueueInv, WriterInv', StoreRecord
  PROVE  LET write == planned[stored + 1]
         IN  /\ write \in Placed
             /\ bytes' = Stored(bytes, write.cursor, write.rec)
             /\ \A i \in DOMAIN inflight :
                  \A o \in Span(inflight[i].cursor, inflight[i].rec.length) :
                    o \notin Span(write.cursor, write.rec.length)
             /\ \A j \in 1 .. stored :
                  \A o \in Span(planned[j].cursor, planned[j].rec.length) :
                    o \notin Span(write.cursor, write.rec.length)
<1> DEFINE write == planned[stored + 1]
<1>1. wpc = "storing" /\ stored < Len(planned) /\ CodeTypes /\ Calling
  BY DEF StoreRecord, QueueInv, WriterInv, Calling
<1>2. /\ planned \in Seq(Placed) /\ InOrder(planned, snapConsumer, planCursor)
      /\ inflight \in Seq(Placed) /\ InOrder(inflight, consumer, producer)
      /\ stored \in 0 .. Len(planned)
      /\ producer \in Cursor /\ consumer \in Cursor /\ snapConsumer \in Cursor
      /\ planCursor \in Cursor
  BY <1>1 DEF QueueInv, PlanInv, InflightInv, CodeTypes
<1>3. stored + 1 \in DOMAIN planned /\ write \in Placed
  BY <1>1, <1>2
<1>4. /\ bytes' = Stored(bytes, write.cursor, write.rec)
      /\ MayWrite(producer, consumer, write.cursor, write.rec.length)
  BY DEF StoreRecord, WriterInv, WriterNeverFails
<1>5. /\ Ahead(producer) <= Ahead(write.cursor)
      /\ Ahead(write.cursor) + write.rec.length <= Ahead(planCursor)
      /\ Ahead(consumer) <= Ahead(producer) /\ Ahead(planCursor) <= Capacity
  BY <1>1, <1>3 DEF QueueInv, WriterInv, PlannedInside, SnapshotOrder
<1> HIDE DEF write
<1>6. /\ Ahead(write.cursor) \in Nat /\ write.rec.length \in Nat /\ write.cursor \in Cursor
      /\ Ahead(planCursor) \in Nat /\ Ahead(producer) \in Nat /\ Ahead(consumer) \in Nat
  BY <1>2, <1>3, PlacedMeasures, DistanceType DEF Ahead
<1>7. /\ Distance(write.cursor, consumer) = Ahead(write.cursor) - Ahead(consumer)
      /\ Distance(producer, consumer) = Ahead(producer) - Ahead(consumer)
  BY <1>2, <1>5, <1>6, DistanceBetween DEF Ahead
<1>8. ASSUME NEW i \in DOMAIN inflight,
             NEW o \in Span(inflight[i].cursor, inflight[i].rec.length)
      PROVE  o \notin Span(write.cursor, write.rec.length)
  <2>1. /\ inflight[i] \in Placed
        /\ Distance(inflight[i].cursor, consumer) + inflight[i].rec.length
             <= Distance(producer, consumer)
    BY <1>2 DEF InOrder
  <2>2. Distance(inflight[i].cursor, consumer) \in Nat /\ inflight[i].rec.length \in Nat
    BY <1>2, <2>1, PlacedMeasures
  <2>3. Distance(inflight[i].cursor, consumer) + inflight[i].rec.length
          <= Distance(write.cursor, consumer)
    BY <1>5, <1>6, <1>7, <2>1, <2>2
  <2>4. Distance(write.cursor, consumer) + write.rec.length <= Capacity
    BY <1>5, <1>6, <1>7, Geometry
  <2> QED BY <1>2, <1>3, <2>1, <2>3, <2>4, Disjoint
<1>9. ASSUME NEW j \in 1 .. stored,
             NEW o \in Span(planned[j].cursor, planned[j].rec.length)
      PROVE  o \notin Span(write.cursor, write.rec.length)
  <2>1. j \in DOMAIN planned /\ j < stored + 1 /\ planned[j] \in Placed
    BY <1>2
  <2>2. Distance(planned[j].cursor, snapConsumer) + planned[j].rec.length
          <= Distance(write.cursor, snapConsumer)
    BY <1>2, <1>3, <2>1 DEF InOrder, write
  <2>3. Distance(write.cursor, snapConsumer) + write.rec.length <= Capacity
    BY <1>5, <1>6, Geometry DEF Ahead
  <2> QED BY <1>2, <1>3, <2>1, <2>2, <2>3, Disjoint
<1> QED BY <1>3, <1>4, <1>8, <1>9 DEF write

LEMMA StoreRecordQueue ==
  ASSUME Aligned, QueueInv, WriterInv', StoreRecord
  PROVE  QueueInv'
<1> DEFINE write == planned[stored + 1]
<1>1. /\ write \in Placed
      /\ bytes' = Stored(bytes, write.cursor, write.rec)
      /\ \A i \in DOMAIN inflight :
           \A o \in Span(inflight[i].cursor, inflight[i].rec.length) :
             o \notin Span(write.cursor, write.rec.length)
      /\ \A j \in 1 .. stored :
           \A o \in Span(planned[j].cursor, planned[j].rec.length) :
             o \notin Span(write.cursor, write.rec.length)
  BY StoreApart
<1>2. /\ wpc = "storing" /\ wpc' = "storing" /\ stored' = stored + 1
      /\ UNCHANGED <<producer, consumer, seen, nextSequence, nextId, unplanned, planned,
                     planCursor, planSequence, snapConsumer, expectedSequence, rpc, receipt,
                     inflight>>
  BY DEF StoreRecord, WriterInv, WriterNeverFails, readerVars
<1>3. /\ bytes \in [Offsets -> Cell] /\ stored \in 0 .. Len(planned) /\ stored < Len(planned)
      /\ planned \in Seq(Placed) /\ inflight \in Seq(Placed) /\ Calling
  BY <1>2 DEF QueueInv, WriterInv, CodeTypes, PlanInv, InflightInv, Calling, StoreRecord
<1> HIDE DEF write
<1>4. \A i \in DOMAIN inflight : Holds(bytes', inflight[i])
  <2> SUFFICES ASSUME NEW i \in DOMAIN inflight PROVE Holds(bytes', inflight[i])
    OBVIOUS
  <2>1. inflight[i] \in Placed /\ Holds(bytes, inflight[i])
    BY <1>3 DEF QueueInv, InflightInv
  <2> QED BY <1>1, <1>3, <2>1, StoredKeeps
<1>5. \A j \in 1 .. stored + 1 : Holds(bytes', planned[j])
  <2> SUFFICES ASSUME NEW j \in 1 .. stored + 1 PROVE Holds(bytes', planned[j])
    OBVIOUS
  <2>1. CASE j = stored + 1
    BY <1>1, <2>1, StoredHolds DEF write
  <2>2. CASE j # stored + 1
    <3>1. j \in 1 .. stored
      BY <1>3, <2>2
    <3>2. planned[j] \in Placed /\ Holds(bytes, planned[j])
      BY <1>3, <3>1 DEF QueueInv, PlanInv
    <3> QED BY <1>1, <1>3, <3>1, <3>2, StoredKeeps
  <2> QED BY <2>1, <2>2
<1>6. InflightInv'
  BY <1>2, <1>4 DEF QueueInv, InflightInv, ReadPosition, WritePosition
<1>7. PlanInv' /\ MessageInv'
  BY <1>2, <1>3, <1>5
     DEF QueueInv, PlanInv, MessageInv, Calling, WritePosition, PlanPosition
<1> QED BY <1>2, <1>6, <1>7, ReaderFrame DEF QueueInv

\* What a publication does, all of its checks passed.
LEMMA PublishEffect ==
  ASSUME WriterInv', Publish
  PROVE  /\ wpc = "storing" /\ stored = Len(planned)
         /\ producer' = planCursor /\ seen' = bytes
         /\ nextSequence' = planSequence /\ inflight' = inflight \o planned
         /\ wpc' \in {"committed", "idle"}
         /\ UNCHANGED <<consumer, bytes, planned, planCursor, snapConsumer,
                        expectedSequence, rpc, receipt, received>>
BY DEF Publish, ReleaseCursor, WriterInv, WriterNeverFails, callVars, readerVars

LEMMA PublishQueue ==
  ASSUME QueueInv, WriterInv', Publish
  PROVE  QueueInv'
<1>1. /\ wpc = "storing" /\ stored = Len(planned)
      /\ producer' = planCursor /\ seen' = bytes
      /\ nextSequence' = planSequence /\ inflight' = inflight \o planned
      /\ wpc' \in {"committed", "idle"}
      /\ UNCHANGED <<consumer, bytes, planned, planCursor, snapConsumer,
                     expectedSequence, rpc, receipt, received>>
  BY PublishEffect
<1>2. /\ Calling /\ CodeTypes
      /\ planned \in Seq(Placed) /\ inflight \in Seq(Placed)
      /\ Linked(planned, WritePosition, PlanPosition)
      /\ Linked(inflight, ReadPosition, WritePosition)
      /\ InOrder(planned, snapConsumer, planCursor)
      /\ InOrder(inflight, consumer, producer)
      /\ \A i \in 1 .. Len(planned) : Holds(bytes, planned[i])
      /\ \A i \in DOMAIN inflight : Holds(bytes, inflight[i])
  BY <1>1 DEF QueueInv, WriterInv, PlanInv, InflightInv, Calling
<1>3. /\ producer \in Cursor /\ consumer \in Cursor /\ snapConsumer \in Cursor
      /\ planCursor \in Cursor
  BY <1>2 DEF CodeTypes
<1>4. /\ Ahead(consumer) <= Ahead(producer) /\ Ahead(producer) <= Ahead(planCursor)
      /\ \A i \in DOMAIN planned : Ahead(producer) <= Ahead(planned[i].cursor)
  BY <1>2 DEF QueueInv, WriterInv, SnapshotOrder, PlannedInside
<1>5. Ahead(consumer) \in Nat /\ Ahead(producer) \in Nat /\ Ahead(planCursor) \in Nat
  BY <1>3, DistanceType DEF Ahead
<1>6. ASSUME NEW i \in DOMAIN planned
      PROVE  /\ planned[i].cursor \in Cursor /\ Ahead(planned[i].cursor) \in Nat
             /\ Ahead(consumer) <= Ahead(planned[i].cursor)
             /\ Distance(producer, consumer) <= Distance(planned[i].cursor, consumer)
  <2>1. planned[i].cursor \in Cursor /\ Ahead(planned[i].cursor) \in Nat
    BY <1>2, <1>3, PlacedMeasures DEF Ahead
  <2>2. Ahead(consumer) <= Ahead(planned[i].cursor)
    BY <1>4, <1>5, <2>1
  <2>3. /\ Distance(planned[i].cursor, consumer) = Ahead(planned[i].cursor) - Ahead(consumer)
        /\ Distance(producer, consumer) = Ahead(producer) - Ahead(consumer)
    BY <1>3, <1>4, <2>1, <2>2, DistanceBetween DEF Ahead
  <2> QED BY <1>4, <1>5, <2>1, <2>2, <2>3
<1>7. Ahead(consumer) <= Ahead(planCursor)
      /\ Distance(producer, consumer) <= Distance(planCursor, consumer)
  <2>1. Ahead(consumer) <= Ahead(planCursor)
    BY <1>4, <1>5
  <2>2. /\ Distance(planCursor, consumer) = Ahead(planCursor) - Ahead(consumer)
        /\ Distance(producer, consumer) = Ahead(producer) - Ahead(consumer)
    BY <1>3, <1>4, <2>1, DistanceBetween DEF Ahead
  <2> QED BY <1>4, <1>5, <2>1, <2>2
<1>8. InOrder(planned, consumer, planCursor)
  BY <1>2, <1>3, <1>6, <1>7, InOrderRebase DEF Ahead
<1>9. InOrder(inflight \o planned, consumer, planCursor)
  BY <1>2, <1>3, <1>6, <1>7, <1>8, InOrderConcat
<1>10. Linked(inflight \o planned, ReadPosition, PlanPosition)
  BY <1>2, LinkedConcat
<1>11. inflight \o planned \in Seq(Placed)
  BY <1>2
<1>12. \A i \in DOMAIN (inflight \o planned) : Holds(bytes, (inflight \o planned)[i])
  <2> SUFFICES ASSUME NEW i \in DOMAIN (inflight \o planned)
               PROVE  Holds(bytes, (inflight \o planned)[i])
    OBVIOUS
  <2>1. DOMAIN planned = 1 .. Len(planned)
    BY <1>2
  <2> QED BY <1>2, <2>1, ConcatElements
<1>13. InflightInv'
  <2>1. ReadPosition' = ReadPosition /\ WritePosition' = PlanPosition
    BY <1>1 DEF ReadPosition, WritePosition, PlanPosition
  <2> QED BY <1>1, <1>9, <1>10, <1>11, <1>12, <2>1 DEF InflightInv
<1>14. ReaderInv'
  <2>1. inflight # <<>> => inflight' # <<>> /\ Head(inflight') = Head(inflight)
    BY <1>1, <1>2
  <2> QED BY <1>1, <2>1 DEF QueueInv, ReaderInv
<1>15. PlanInv' /\ MessageInv'
  BY <1>1 DEF PlanInv, MessageInv, Calling
<1> QED BY <1>13, <1>14, <1>15 DEF QueueInv

-----------------------------------------------------------------------------
(* The reader's steps.                                                     *)

\* What is at the consumer cursor when the ring is not empty.
LEMMA FirstInFlight ==
  ASSUME QueueInv, inflight # <<>>
  PROVE  /\ Head(inflight) = inflight[1] /\ 1 \in DOMAIN inflight
         /\ Head(inflight) \in Placed /\ Head(inflight).cursor = consumer
         /\ Head(inflight).rec.seq = expectedSequence
         /\ Head(inflight).rec.length <= Used
         /\ Holds(seen, Head(inflight))
<1>1. /\ inflight \in Seq(Placed) /\ Linked(inflight, ReadPosition, WritePosition)
      /\ InOrder(inflight, consumer, producer)
      /\ consumer \in Cursor
  BY DEF QueueInv, InflightInv, WriterInv, CodeTypes
<1>2. Head(inflight) = inflight[1] /\ 1 \in DOMAIN inflight /\ Head(inflight) \in Placed
  BY <1>1, FirstAndRest
<1>3. ReadPosition = Position(Head(inflight))
  BY <1>1, <1>2, LinkedTail
<1>4. Head(inflight).cursor = consumer /\ Head(inflight).rec.seq = expectedSequence
  BY <1>3 DEF ReadPosition, Position
<1>5. Distance(consumer, consumer) + Head(inflight).rec.length <= Distance(producer, consumer)
  BY <1>1, <1>2, <1>4 DEF InOrder
<1>6. Distance(consumer, consumer) = 0 /\ Head(inflight).rec.length \in Nat
  BY <1>1, <1>2, PlacedMeasures DEF Distance, Cursor
<1>7. Head(inflight).rec.length <= Used
  BY <1>5, <1>6 DEF Used
<1> QED BY <1>2, <1>4, <1>7 DEF QueueInv, InflightInv

\* An empty list in flight is an empty ring.
LEMMA EmptyInFlight ==
  ASSUME QueueInv, Used > 0
  PROVE  inflight # <<>>
<1> SUFFICES ASSUME inflight = <<>> PROVE FALSE
  OBVIOUS
<1>1. ReadPosition = WritePosition
  BY EmptyLists DEF QueueInv, InflightInv, Linked, StartOf
<1>2. consumer = producer /\ producer \in Cursor
  BY <1>1 DEF ReadPosition, WritePosition, QueueInv, WriterInv, CodeTypes
<1>3. Used = 0
  BY <1>2 DEF Used, Distance, Cursor
<1> QED BY <1>3

\* Whatever is at the cursor, peek recognises it.
LEMMA PeekQueue ==
  ASSUME QueueInv, WriterInv', Peek
  PROVE  QueueInv'
<1> USE Geometry
<1>1. inflight # <<>>
  BY EmptyInFlight DEF Peek
<1> DEFINE head == Head(inflight)
           length == head.rec.length
<1>2. /\ head \in Placed /\ head.cursor = consumer /\ head.rec.seq = expectedSequence
      /\ length <= Used /\ Holds(seen, head)
  BY <1>1, FirstInFlight
<1>3. /\ consumer \in Cursor /\ producer \in Cursor /\ Used <= Capacity /\ Used \in Nat
  BY DistanceType DEF QueueInv, WriterInv, CodeTypes, Used
<1>4. PICK o \in Nat : o = Offset(consumer) /\ o < Capacity
  BY <1>3, OffsetType DEF Offsets
<1>5. /\ length \in Nat /\ length > 0 /\ o + length <= Capacity /\ head.rec \in Record
      /\ head.rec.kind \in {"data", "padding", "zeros"}
      /\ head.rec.kind = "data" => length >= RecordPrefix
      /\ head.rec.kind # "data" =>
           /\ o + length = Capacity
           /\ head.rec.kind = "zeros" <=> length < RecordPrefix
  <2>1. head.rec \in Record /\ length \in Nat /\ length > 0
    BY <1>2, <1>3, PlacedMeasures
  <2> QED BY <1>2, <1>4, <2>1 DEF Placed
<1>6. \A part \in 0 .. length - 1 : seen[o + part] = CellOf(head.rec, part)
  BY <1>2, <1>4 DEF Holds
<1>7. /\ RoomBeforeEnd(consumer) = Capacity - o
      /\ Contiguous = IF Capacity - o < Used THEN Capacity - o ELSE Used
  BY <1>4 DEF RoomBeforeEnd, Contiguous
<1> HIDE DEF head
<1>8. CASE head.rec.kind = "zeros"
  <2>1. ImplicitPadding(consumer, Used) = length
    BY <1>2, <1>3, <1>5, <1>7, <1>8 DEF ImplicitPadding
  <2>2. /\ rpc' = "peeked"
        /\ receipt' = ReceiptFor([NoRecord EXCEPT !.length = length])
    BY <1>3, <1>5, <2>1 DEF Peek
  <2>3. /\ receipt'.current = consumer /\ receipt'.next = Advance(consumer, length)
        /\ receipt'.rec.kind = "zeros"
    BY <2>2 DEF ReceiptFor, NoRecord
  <2>4. inflight' = inflight /\ consumer' = consumer
    BY DEF Peek, sharedVars
  <2>5. ReaderInv'
    BY <1>1, <1>8, <2>2, <2>3, <2>4 DEF ReaderInv, head
  <2> QED BY <2>5, InflightFrame, PlanFrame
          DEF Peek, QueueInv, sharedVars, writerVars, callVars
<1>9. CASE head.rec.kind # "zeros"
  <2>1. length >= RecordPrefix /\ head.rec.kind \in {"data", "padding"}
    BY <1>5, <1>9 DEF RecordPrefix
  <2>2. ImplicitPadding(consumer, Used) = 0
    BY <1>5, <1>7, <2>1 DEF ImplicitPadding, RecordPrefix
  <2>3. Contiguous >= length /\ Contiguous >= RecordPrefix
    BY <1>2, <1>3, <1>4, <1>5, <1>7, <2>1 DEF RecordPrefix
  <2>4. \A part \in 0 .. length - 1 : seen[o + part] = [rec |-> head.rec, part |-> part]
    BY <1>6, <1>9 DEF CellOf
  <2>5. seen[o] = [rec |-> head.rec, part |-> 0]
    <3>1. 0 \in 0 .. length - 1 /\ o + 0 = o
      BY <1>5
    <3> QED BY <2>4, <3>1
  <2>6. Header = head.rec
    BY <1>4, <2>5 DEF Header
  <2>7. Decodes
    BY <1>2, <1>4, <1>5, <2>1, <2>3, <2>5, <2>6 DEF Decodes
  <2>8. CopyOut = head.rec
    BY <1>4, <1>6, <2>6 DEF CopyOut
  <2>9. rpc' = "peeked" /\ receipt' = ReceiptFor(head.rec)
    BY <1>3, <2>2, <2>7, <2>8 DEF Peek
  <2>10. /\ receipt'.current = consumer /\ receipt'.next = Advance(consumer, length)
         /\ receipt'.rec = head.rec
    BY <2>9 DEF ReceiptFor
  <2>11. inflight' = inflight /\ consumer' = consumer
    BY DEF Peek, sharedVars
  <2>12. ReaderInv'
    BY <1>1, <2>1, <2>9, <2>10, <2>11 DEF ReaderInv, head
  <2> QED BY <2>12, InflightFrame, PlanFrame
          DEF Peek, QueueInv, sharedVars, writerVars, callVars
<1> QED BY <1>8, <1>9

\* What a consumption does, all of its checks passed.
LEMMA ConsumeEffect ==
  ASSUME QueueInv, Consume
  PROVE  LET head == Head(inflight)
             data == head.rec.kind = "data"
         IN  /\ inflight # <<>> /\ inflight' = Tail(inflight)
             /\ consumer' = Advance(consumer, head.rec.length)
             /\ expectedSequence' = IF data THEN NextSequence(expectedSequence)
                                    ELSE expectedSequence
             /\ received' = IF data THEN head.rec ELSE received
             /\ rpc' = "idle"
             /\ UNCHANGED <<producer, bytes, seen, nextSequence, nextId, wpc, planned,
                            unplanned, stored, planCursor, planSequence, snapConsumer>>
<1> DEFINE head == Head(inflight)
<1>1. /\ inflight # <<>> /\ receipt.current = consumer
      /\ receipt.next = Advance(consumer, head.rec.length)
      /\ IF head.rec.kind = "data" THEN receipt.rec = head.rec
         ELSE receipt.rec.kind \notin {"data", "torn"}
  BY DEF QueueInv, ReaderInv, Consume
<1>2. /\ head \in Placed /\ head.rec.seq = expectedSequence /\ head.rec.length <= Used
      /\ consumer \in Cursor /\ Used <= Capacity /\ head.rec.length \in 0 .. Capacity
      /\ head.rec.length > 0
  <2>1. consumer \in Cursor /\ Used <= Capacity
    BY DEF QueueInv, WriterInv, CodeTypes
  <2>2. head \in Placed /\ head.rec.seq = expectedSequence /\ head.rec.length <= Used
    BY <1>1, FirstInFlight
  <2>3. head.rec.length \in 0 .. Capacity /\ head.rec.length > 0
    BY <2>1, <2>2, PlacedWrites, PlacedMeasures
  <2> QED BY <2>1, <2>2, <2>3
<1>3. Distance(receipt.next, consumer) = head.rec.length
  BY <1>1, <1>2, AdvanceType
<1>4. MayConsume(producer, consumer, receipt.next)
  BY <1>2, <1>3 DEF MayConsume, Used
<1>5. receipt.next # consumer
  <2>1. Distance(consumer, consumer) = 0
    BY <1>2 DEF Distance, Cursor
  <2> QED BY <1>2, <1>3, <2>1
<1>6. receipt.rec.kind \in {"data", "torn"} <=> head.rec.kind = "data"
  BY <1>1
<1>7. receipt.rec.kind \in {"data", "torn"} => receipt.rec.seq = expectedSequence
  BY <1>1, <1>2, <1>6
<1> HIDE DEF head
<1>8. /\ expectedSequence' = IF head.rec.kind = "data" THEN NextSequence(expectedSequence)
                             ELSE expectedSequence
      /\ consumer' = receipt.next /\ inflight' = Tail(inflight) /\ rpc' = "idle"
      /\ received' = IF head.rec.kind = "data" THEN receipt.rec ELSE received
  BY <1>1, <1>4, <1>5, <1>6, <1>7 DEF Consume
<1> QED BY <1>1, <1>8 DEF Consume, writerVars, callVars, head

LEMMA ConsumeQueue ==
  ASSUME QueueInv, WriterInv', Consume
  PROVE  QueueInv'
<1> DEFINE head == Head(inflight)
<1>1. /\ inflight # <<>> /\ inflight' = Tail(inflight)
      /\ consumer' = Advance(consumer, head.rec.length)
      /\ expectedSequence' = IF head.rec.kind = "data" THEN NextSequence(expectedSequence)
                             ELSE expectedSequence
      /\ rpc' = "idle"
      /\ UNCHANGED <<producer, bytes, seen, nextSequence, nextId, wpc, planned,
                     unplanned, stored, planCursor, planSequence, snapConsumer>>
  BY ConsumeEffect
<1>2. /\ inflight \in Seq(Placed) /\ Linked(inflight, ReadPosition, WritePosition)
      /\ InOrder(inflight, consumer, producer)
      /\ consumer \in Cursor /\ producer \in Cursor
  BY DEF QueueInv, InflightInv, WriterInv, CodeTypes
<1>3. /\ head = inflight[1] /\ 1 \in DOMAIN inflight
      /\ head \in Placed /\ head.cursor = consumer /\ head.rec.seq = expectedSequence
      /\ head.rec.length <= Used
  BY <1>1, FirstInFlight
<1>4. /\ Tail(inflight) \in Seq(Placed)
      /\ \A i \in DOMAIN Tail(inflight) :
           i + 1 \in DOMAIN inflight /\ Tail(inflight)[i] = inflight[i + 1]
  BY <1>1, <1>2, FirstAndRest
<1>5. head.rec.length \in 0 .. Capacity /\ Distance(consumer, consumer) = 0
  BY <1>2, <1>3, PlacedWrites DEF Distance, Cursor
<1>6. consumer' \in Cursor /\ Distance(consumer', consumer) = head.rec.length
  BY <1>1, <1>2, <1>5, AdvanceType
<1>7. \A i \in DOMAIN Tail(inflight) : i \in Nat /\ i > 0
  BY <1>4
<1>8. InOrder(Tail(inflight), consumer, producer)
  <2>1. ASSUME NEW i \in DOMAIN Tail(inflight)
        PROVE  Distance(inflight[i + 1].cursor, consumer) + inflight[i + 1].rec.length
                 <= Distance(producer, consumer)
    BY <1>2, <1>4 DEF InOrder
  <2>2. ASSUME NEW i \in DOMAIN Tail(inflight), NEW j \in DOMAIN Tail(inflight), i < j
        PROVE  Distance(inflight[i + 1].cursor, consumer) + inflight[i + 1].rec.length
                 <= Distance(inflight[j + 1].cursor, consumer)
    <3>1. i + 1 < j + 1
      BY <1>7, <2>2
    <3> QED BY <1>2, <1>4, <3>1 DEF InOrder
  <2> QED BY <1>4, <2>1, <2>2 DEF InOrder
<1>9. \A i \in DOMAIN Tail(inflight) :
        Distance(consumer', consumer) <= Distance(Tail(inflight)[i].cursor, consumer)
  <2> SUFFICES ASSUME NEW i \in DOMAIN Tail(inflight)
               PROVE  Distance(consumer', consumer)
                        <= Distance(inflight[i + 1].cursor, consumer)
    BY <1>4
  <2>1. 1 < i + 1
    BY <1>7
  <2>2. Distance(inflight[1].cursor, consumer) + inflight[1].rec.length
          <= Distance(inflight[i + 1].cursor, consumer)
    BY <1>2, <1>3, <1>4, <2>1 DEF InOrder
  <2> QED BY <1>3, <1>5, <1>6, <2>2
<1>10. InOrder(Tail(inflight), consumer', producer)
  <2>1. Distance(consumer', consumer) <= Distance(producer, consumer)
    BY <1>3, <1>6 DEF Used
  <2> QED BY <1>2, <1>4, <1>6, <1>8, <1>9, <2>1, InOrderRebase
<1>11. ReadPosition' = After(head)
  BY <1>1, <1>3 DEF ReadPosition, After
<1>12. Linked(Tail(inflight), ReadPosition', WritePosition)
  BY <1>1, <1>2, <1>3, <1>11, LinkedTail
<1>13. InflightInv'
  <2>1. \A i \in DOMAIN Tail(inflight) :
          Holds(bytes, Tail(inflight)[i]) /\ Holds(seen, Tail(inflight)[i])
    BY <1>4 DEF QueueInv, InflightInv
  <2>2. WritePosition' = WritePosition
    BY <1>1 DEF WritePosition
  <2> QED BY <1>1, <1>4, <1>10, <1>12, <2>1, <2>2 DEF InflightInv
<1>14. ReaderInv'
  BY <1>1 DEF ReaderInv
<1> QED BY <1>1, <1>13, <1>14, PlanFrame DEF QueueInv

-----------------------------------------------------------------------------
(* The theorems.                                                           *)

LEMMA QueueStep ==
  ASSUME Aligned, QueueInv, [Next]_vars
  PROVE  QueueInv'
<1>1. WriterInv'
  BY WriterStep DEF QueueInv
<1>2. CASE UNCHANGED vars
  BY <1>1, <1>2, StutterQueue
<1>3. CASE \E call \in {"single", "fragments"}, batch \in Batches : BeginSend(call, batch)
  BY <1>1, <1>3, BeginSendQueue
<1>4. CASE PlanRecord
  BY <1>1, <1>4, PlanRecordQueue
<1>5. CASE StoreRecord
  BY <1>1, <1>5, StoreRecordQueue
<1>6. CASE Propagate
  BY <1>1, <1>6, PropagateQueue
<1>7. CASE Publish
  BY <1>1, <1>7, PublishQueue
<1>8. CASE RefuseSend \/ MeasureBuffered \/ DropPending \/ CrashProducer
  BY <1>1, <1>8, EndCallQueue
<1>9. CASE Peek
  BY <1>1, <1>9, PeekQueue
<1>10. CASE Consume
  BY <1>1, <1>10, ConsumeQueue
<1> QED
  BY <1>2, <1>3, <1>4, <1>5, <1>6, <1>7, <1>8, <1>9, <1>10 DEF Next, Write, Read

\* The ring is intact in every reachable state: the writes in flight fill it
\* from the consumer to the producer, each where it was planned, each cell of
\* it as it was stored, numbered as the reader expects.
THEOREM QueueInvariance ==
  ASSUME Aligned
  PROVE  Spec => []QueueInv
<1>1. Init => QueueInv
  BY QueueInit
<1>2. QueueInv /\ [Next]_vars => QueueInv'
  BY QueueStep
<1> QED BY <1>1, <1>2, PTL DEF Spec

\* Every variable of the ring stays in its type at every wrap, the history of
\* what is in flight included.
THEOREM RingTypes ==
  ASSUME Aligned
  PROVE  Spec => []TypeOK
<1>1. QueueInv => TypeOK
  BY PlacedWrites DEF QueueInv, WriterInv, InflightInv, TypeOK
<1> QED BY <1>1, QueueInvariance, PTL

\* RingReader::receive never fails on a ring that RingWriter fills, whatever
\* the two interleave to: no header is unreadable, no sequence unexpected, no
\* receipt stale.
THEOREM ReaderSafe ==
  ASSUME Aligned
  PROVE  Spec => [](rpc # "failed")
<1>1. QueueInv => rpc # "failed"
  BY DEF QueueInv, ReaderInv
<1> QED BY <1>1, QueueInvariance, PTL

\* ProducerMemory::write lets no store through that touches a committed and
\* unconsumed record.
THEOREM StoresSafe ==
  ASSUME Aligned
  PROVE  Spec => StoresOnlyFreeCells
<1>1. ASSUME QueueInv, [Next]_vars
      PROVE  [StoreRecord =>
                \A i \in DOMAIN inflight :
                  \A o \in Span(inflight[i].cursor, inflight[i].rec.length) :
                    bytes'[o] = bytes[o]]_vars
  <2> SUFFICES ASSUME StoreRecord, NEW i \in DOMAIN inflight,
                      NEW o \in Span(inflight[i].cursor, inflight[i].rec.length)
               PROVE  bytes'[o] = bytes[o]
    OBVIOUS
  <2>1. WriterInv'
    BY <1>1, WriterStep DEF QueueInv
  <2>2. bytes \in [Offsets -> Cell] /\ inflight[i] \in Placed
    BY <1>1 DEF QueueInv, WriterInv, CodeTypes, InflightInv
  <2> QED BY <1>1, <2>1, <2>2, StoreApart, StoredKeeps
<1> QED BY <1>1, QueueInvariance, PTL DEF Spec, StoresOnlyFreeCells

-----------------------------------------------------------------------------
(* The refinement.                                                         *)

LEMMA AbstractInit == Init => Abstract!Init
BY DataOfSmall DEF Init, Abstract!Init

\* A publication is one message in one step.
LEMMA PublishCommits ==
  ASSUME QueueInv, QueueInv', Publish
  PROVE  Abstract!Commit
<1>1. /\ wpc = "storing" /\ inflight' = inflight \o planned
      /\ UNCHANGED received
  BY PublishEffect DEF QueueInv
<1>2. /\ planned \in Seq(PlannedWrite) /\ inflight \in Seq(PlannedWrite)
  BY <1>1, PlacedWrites DEF QueueInv, PlanInv, InflightInv, Calling
<1> DEFINE queue == DataOf(inflight)
           batch == DataOf(planned)
<1>3. /\ DataOf(inflight') = queue \o batch
      /\ queue \in Seq(Record) /\ batch \in Seq(Record)
  BY <1>1, <1>2, DataOfConcat
<1>4. /\ batch # <<>>
      /\ \A i \in DOMAIN batch : /\ batch[i].id = nextId
                                 /\ batch[i].end <=> i = Len(batch)
  BY <1>1 DEF QueueInv, MessageInv, Calling
<1>5. Abstract!CellsOf(DataOf(inflight')) <= Capacity
  <2>1. /\ inflight' \in Seq(Placed) /\ InOrder(inflight', consumer', producer')
        /\ consumer' \in Cursor /\ producer' \in Cursor
        /\ Distance(producer', consumer') <= Capacity
    BY DEF QueueInv, InflightInv, WriterInv, CodeTypes, Used
  <2>2. Abstract!CellsOf(DataOf(inflight')) <= Distance(producer', consumer')
    BY <2>1, InOrderCells
  <2>3. Abstract!CellsOf(DataOf(inflight')) \in Nat /\ Distance(producer', consumer') \in Nat
    <3>1. DataOf(inflight') \in Seq(Record)
      BY <1>3
    <3> QED BY <2>1, <3>1, CellsOfAppend, NoRecordType, DistanceType
  <2> QED BY <2>1, <2>2, <2>3, Geometry
<1> HIDE DEF queue, batch
<1>6. Abstract!IsStrictPrefix(queue, queue \o batch)
  <2>1. /\ Len(queue) <= Len(queue \o batch)
        /\ SubSeq(queue, 1, Len(queue)) = SubSeq(queue \o batch, 1, Len(queue))
        /\ queue # queue \o batch
    BY <1>3, <1>4
  <2> QED BY <2>1 DEF Abstract!IsStrictPrefix, Abstract!IsPrefix
<1>7. SubSeq(queue \o batch, Len(queue) + 1, Len(queue \o batch)) = batch
  BY <1>3
<1>8. Abstract!IsMessage(batch)
  <2>1. 1 \in DOMAIN batch
    BY <1>3, <1>4
  <2> QED BY <1>4, <2>1 DEF Abstract!IsMessage
<1>9. DataOf(inflight)' = queue \o batch
  BY <1>3
<1>10. /\ Abstract!IsStrictPrefix(DataOf(inflight), DataOf(inflight)')
       /\ Abstract!IsMessage(SubSeq(DataOf(inflight)', Len(DataOf(inflight)) + 1,
                                    Len(DataOf(inflight)')))
  BY <1>6, <1>7, <1>8, <1>9 DEF queue
<1>11. Abstract!CellsOf(DataOf(inflight)') <= Capacity
  BY <1>5
<1> QED BY <1>1, <1>10, <1>11 DEF Abstract!Commit

LEMMA OneBefore ==
  ASSUME NEW S, NEW r \in S, NEW t \in Seq(S)
  PROVE  <<r>> \o t # <<>> /\ Head(<<r>> \o t) = r /\ Tail(<<r>> \o t) = t
OBVIOUS

\* A consumption delivers the first record, or skips padding unseen.
LEMMA ConsumeDelivers ==
  ASSUME QueueInv, Consume
  PROVE  Abstract!Deliver \/ UNCHANGED Abstract!vars
<1> DEFINE head == Head(inflight)
<1>1. /\ inflight # <<>> /\ inflight' = Tail(inflight)
      /\ received' = IF head.rec.kind = "data" THEN head.rec ELSE received
  BY ConsumeEffect
<1>2. /\ inflight \in Seq(PlannedWrite)
  BY PlacedWrites DEF QueueInv, InflightInv
<1>3. /\ head \in PlannedWrite /\ Tail(inflight) \in Seq(PlannedWrite)
      /\ inflight = <<head>> \o Tail(inflight)
  BY <1>1, <1>2, FirstAndRest
<1> HIDE DEF head
<1>4. <<head>> \in Seq(PlannedWrite) /\ head.rec \in Record
  BY <1>3, WriteTypes
<1>5. /\ DataOf(inflight) = DataOf(<<head>>) \o DataOf(Tail(inflight))
      /\ DataOf(Tail(inflight)) \in Seq(Record)
  BY <1>3, <1>4, DataOfConcat
<1>6. CASE head.rec.kind = "data"
  <2>1. DataOf(<<head>>) = <<head.rec>>
    BY <1>3, <1>6, DataOfSmall
  <2>2. /\ DataOf(inflight) # <<>> /\ Head(DataOf(inflight)) = head.rec
        /\ Tail(DataOf(inflight)) = DataOf(Tail(inflight))
    <3>1. PICK r \in Record, t \in Seq(Record) : r = head.rec /\ t = DataOf(Tail(inflight))
      BY <1>4, <1>5
    <3>2. DataOf(inflight) = <<r>> \o t
      BY <1>5, <2>1, <3>1
    <3> QED BY <3>1, <3>2, OneBefore
  <2> QED BY <1>1, <1>6, <2>2 DEF Abstract!Deliver
<1>7. CASE head.rec.kind # "data"
  <2>1. DataOf(<<head>>) = <<>>
    BY <1>3, <1>7, DataOfSmall
  <2>2. DataOf(inflight) = DataOf(Tail(inflight))
    BY <1>5, <2>1
  <2> QED BY <1>1, <1>7, <2>2 DEF Abstract!vars
<1> QED BY <1>6, <1>7

\* Every other step leaves what is committed and what was received last.
LEMMA OthersStutter ==
  ASSUME [Next]_vars, ~Publish, ~Consume
  PROVE  UNCHANGED Abstract!vars
<1>1. UNCHANGED <<inflight, received>>
  BY DEF Next, Write, Read, BeginSend, PlanRecord, RefuseSend, StoreRecord, Propagate,
         MeasureBuffered, DropPending, CrashProducer, Peek, vars, readerVars
<1> QED BY <1>1 DEF Abstract!vars

\* The ring implements the bounded queue: the records of a message appear in
\* one step, whole and in order, never more than the capacity, and each is
\* received exactly once and as it was sent, across drops and crashes.
THEOREM RingImplementsQueue ==
  ASSUME Aligned
  PROVE  Spec => ImplementsQueue
<1>1. Init => Abstract!Init
  BY AbstractInit
<1>2. ASSUME QueueInv, [Next]_vars PROVE [Abstract!Next]_(Abstract!vars)
  <2>1. QueueInv'
    BY <1>2, QueueStep
  <2>2. CASE Publish
    BY <1>2, <2>1, <2>2, PublishCommits DEF Abstract!Next
  <2>3. CASE Consume
    BY <1>2, <2>3, ConsumeDelivers DEF Abstract!Next
  <2>4. CASE ~Publish /\ ~Consume
    BY <1>2, <2>4, OthersStutter
  <2> QED BY <2>2, <2>3, <2>4
<1> QED
  BY <1>1, <1>2, QueueInvariance, PTL DEF Spec, ImplementsQueue, Abstract!Spec
=============================================================================
