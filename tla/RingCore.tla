------------------------------ MODULE RingCore ------------------------------
(***************************************************************************)
(* Geometry of one single-producer single-consumer record ring:            *)
(* crates/data-plane/nwipc-ring-core.  The unit is the eight-byte cell     *)
(* that every record length, cursor and capacity is a multiple of, so a    *)
(* record prefix (24 bytes) is three cells, the u32 byte cursor wraps at   *)
(* CursorModulus = 2^29 cells, and MAX_RING_CAPACITY is 2^28 - 1 cells.    *)
(***************************************************************************)
EXTENDS Integers

CONSTANTS
  Capacity,      \* ring data area, in cells
  CursorModulus  \* number of values of a cursor, in cells

\* RingSnapshot::new and in_process_ring reject an empty ring and one larger
\* than half the cursor range.
ASSUME GeometryAssumption ==
  /\ Capacity \in Nat \ {0}
  /\ CursorModulus \in Nat
  /\ 2 * Capacity < CursorModulus

RecordPrefix == 3

Cursor == 0 .. CursorModulus - 1

Offsets == 0 .. Capacity - 1

\* a.wrapping_sub(b)
Distance(a, b) == IF a >= b THEN a - b ELSE a - b + CursorModulus

\* a.wrapping_add(n)
Advance(a, n) ==
  IF a + n < CursorModulus THEN a + n ELSE a + n - CursorModulus

Offset(cursor) == cursor % Capacity

\* Cells between a cursor and the physical end of the ring.
RoomBeforeEnd(cursor) == Capacity - Offset(cursor)

\* Mutant: a record that would end exactly at the end is moved past it.
WrapPaddingAtEnd(cursor, length) ==
  IF length >= RoomBeforeEnd(cursor) THEN RoomBeforeEnd(cursor) ELSE 0

\* The tail a writer skips because the record would straddle the end.
WrapPadding(cursor, length) ==
  IF length > RoomBeforeEnd(cursor) THEN RoomBeforeEnd(cursor) ELSE 0

\* A tail too short for a padding record: the reader skips it unseen.
ImplicitPadding(cursor, used) ==
  IF /\ RoomBeforeEnd(cursor) < RecordPrefix
     /\ RoomBeforeEnd(cursor) <= used
  THEN RoomBeforeEnd(cursor)
  ELSE 0

(***************************************************************************)
(* The bounds the shared-memory handles of nwipc-atomic check on every     *)
(* access, given the two cursors they load.                                *)
(***************************************************************************)

\* ProducerMemory::write: inside free space and not across the end.
MayWrite(prod, cons, cursor, length) ==
  /\ Distance(prod, cons) <= Capacity
  /\ Distance(cursor, prod) + length <= Capacity - Distance(prod, cons)
  /\ Offset(cursor) + length <= Capacity

\* ProducerMemory::publish
MayPublish(prod, cons, cursor) ==
  /\ Distance(prod, cons) <= Capacity
  /\ Distance(cursor, prod) <= Capacity - Distance(prod, cons)

\* ConsumerMemory::consume
MayConsume(prod, cons, cursor) ==
  /\ Distance(prod, cons) <= Capacity
  /\ Distance(cursor, cons) <= Distance(prod, cons)
=============================================================================
