-------------------------------- MODULE Ring --------------------------------
(***************************************************************************)
(* One directional record ring in shared memory: RingWriter over           *)
(* ProducerMemory in one process, RingReader over ConsumerMemory in the    *)
(* other.  They share the data area and two cursors and nothing else, so   *)
(* every load, store and publication of a cursor is a step of its own.     *)
(* Sizes are in eight-byte cells; a cell holds which record it belongs to  *)
(* and its place in that record, so an overwritten or half-visible record  *)
(* shows.                                                                  *)
(***************************************************************************)
EXTENDS RingCore, Sequences, SequencesExt

CONSTANTS
  SequenceModulus,  \* number of record sequence numbers (2^32)
  IdModulus,        \* number of message ids, the unused 0 included (2^32)
  Batches           \* record lengths of the messages sent, as sequences

ASSUME NumberingAssumption ==
  /\ SequenceModulus \in Nat \ {0}
  /\ IdModulus \in Nat \ {0, 1}
  /\ Batches \subseteq Seq(RecordPrefix .. Capacity) \ {<<>>}

VARIABLES
  producer, consumer,  \* the two shared cursors
  bytes,               \* the data area as the producer has written it
  seen,                \* the data area as far as the consumer can observe it
  nextSequence, nextId,                        \* RingWriter
  wpc, op, unplanned, planned, stored,         \* the call of RingWriter under way
  planCursor, planSequence, snapConsumer,
  outcome,                                     \* what that call returned
  expectedSequence,                            \* RingReader
  rpc, receipt, received,                      \* RingReader::receive under way
  inflight             \* history: published and not consumed, in ring order

sharedVars == <<producer, consumer, bytes, seen>>
callVars == <<op, unplanned, planned, stored, planCursor, planSequence, snapConsumer>>
writerVars == <<nextSequence, nextId, wpc, callVars, outcome>>
readerVars == <<expectedSequence, rpc, receipt, received>>
vars == <<sharedVars, writerVars, readerVars, inflight>>

(***************************************************************************)
(* Records and cells.                                                      *)
(***************************************************************************)
Sequence == 0 .. SequenceModulus - 1
MessageId == 1 .. IdModulus - 1

Record == [kind : {"data", "padding", "zeros", "torn"}, length : 1 .. Capacity,
           seq : Sequence, id : 0 .. IdModulus - 1, end : BOOLEAN]

NoRecord == [kind |-> "zeros", length |-> 1, seq |-> 0, id |-> 0, end |-> FALSE]
ZeroCell == [rec |-> NoRecord, part |-> 0]
Cell == [rec : Record, part : Offsets]

\* What a record puts in its cell number part; zeros carry no header.
CellOf(rec, part) ==
  IF rec.kind = "zeros" THEN ZeroCell ELSE [rec |-> rec, part |-> part]

Span(cursor, length) == Offset(cursor) .. Offset(cursor) + length - 1

\* Mutant: the last cell of a record is not copied into the ring.
StoredOneShort(memory, cursor, rec) ==
  [o \in Offsets |-> IF o \in Span(cursor, rec.length - 1)
                     THEN CellOf(rec, o - Offset(cursor))
                     ELSE memory[o]]

Stored(memory, cursor, rec) ==
  [o \in Offsets |-> IF o \in Span(cursor, rec.length)
                     THEN CellOf(rec, o - Offset(cursor))
                     ELSE memory[o]]

\* Sequence::wrapping_next
NextSequence(s) == (s + 1) % SequenceModulus

\* Mutant: the id wraps to the reserved zero.
NextIdThroughZero(id) == (id + 1) % IdModulus

\* next_message_id.wrapping_add(1).max(1)
NextId(id) == IF (id + 1) % IdModulus = 0 THEN 1 ELSE (id + 1) % IdModulus

NoReceipt == [current |-> 0, next |-> 0, rec |-> NoRecord]
NoOutcome == [result |-> "none", buffered |-> 0, signal |-> FALSE]

Init ==
  /\ producer = 0 /\ consumer = 0
  /\ bytes = [o \in Offsets |-> ZeroCell]
  /\ seen = bytes
  /\ nextSequence = 0 /\ nextId = 1
  /\ wpc = "idle" /\ op = "single"
  /\ unplanned = <<>> /\ planned = <<>> /\ stored = 0
  /\ planCursor = 0 /\ planSequence = 0 /\ snapConsumer = 0
  /\ outcome = NoOutcome
  /\ expectedSequence = 0
  /\ rpc = "idle" /\ receipt = NoReceipt /\ received = NoRecord
  /\ inflight = <<>>

(***************************************************************************)
(* The writer: RingWriter::send is prepare and commit of one record,       *)
(* send_fragments publishes a whole batch with one cursor update.          *)
(***************************************************************************)

\* Loads both cursors once; every record is planned against this snapshot.
BeginSend(call, batch) ==
  /\ wpc = "idle"
  /\ call = "single" => Len(batch) = 1
  /\ op' = call
  /\ unplanned' = batch
  /\ planned' = <<>> /\ stored' = 0
  /\ planCursor' = producer
  /\ planSequence' = nextSequence
  /\ snapConsumer' = consumer
  /\ outcome' = NoOutcome
  /\ wpc' = IF Distance(producer, consumer) <= Capacity THEN "planning" ELSE "failed"
  /\ UNCHANGED <<sharedVars, nextSequence, nextId, readerVars, inflight>>

\* Records of the wrap tail and of the payload for the next planned length.
PaddingRecord(length) ==
  [kind |-> IF length >= RecordPrefix THEN "padding" ELSE "zeros",
   length |-> length, seq |-> planSequence, id |-> 0, end |-> FALSE]

DataRecord(length) ==
  [kind |-> "data", length |-> length, seq |-> planSequence, id |-> nextId,
   end |-> Len(unplanned) = 1]

Required(length) == WrapPadding(planCursor, length) + length

\* Mutant: the wrap tail is not counted against free space.
FitsWithoutTail(length) == length <= Capacity - Distance(planCursor, snapConsumer)

Fits(length) == Required(length) <= Capacity - Distance(planCursor, snapConsumer)

\* One turn of the planning loop: RingSnapshot::plan_write on the running cursor.
PlanRecord ==
  /\ wpc = "planning" /\ unplanned # <<>>
  /\ LET length == Head(unplanned)
         padding == WrapPadding(planCursor, length)
         tail == IF padding = 0 THEN <<>>
                 ELSE <<[cursor |-> planCursor, rec |-> PaddingRecord(padding)]>>
     IN  /\ Fits(length)
         /\ planned' = planned \o tail \o
              <<[cursor |-> Advance(planCursor, padding), rec |-> DataRecord(length)]>>
         /\ planCursor' = Advance(planCursor, Required(length))
  /\ planSequence' = NextSequence(planSequence)
  /\ unplanned' = Tail(unplanned)
  /\ wpc' = IF Len(unplanned) = 1 THEN "storing" ELSE "planning"
  /\ UNCHANGED <<sharedVars, nextSequence, nextId, op, stored, snapConsumer,
                 outcome, readerVars, inflight>>

\* The next record does not fit: Backpressured, nothing written yet.
RefuseSend ==
  /\ wpc = "planning" /\ unplanned # <<>>
  /\ ~Fits(Head(unplanned))
  /\ wpc' = "idle"
  /\ outcome' = [NoOutcome EXCEPT !.result = "backpressured"]
  /\ UNCHANGED <<sharedVars, nextSequence, nextId, callVars, readerVars, inflight>>

\* One ProducerMemory::write; it loads the consumer cursor again.
StoreRecord ==
  /\ wpc = "storing" /\ stored < Len(planned)
  /\ LET write == planned[stored + 1]
         allowed == MayWrite(producer, consumer, write.cursor, write.rec.length)
     IN  /\ bytes' = IF allowed THEN Stored(bytes, write.cursor, write.rec) ELSE bytes
         /\ wpc' = IF allowed THEN "storing" ELSE "failed"
  /\ stored' = stored + 1
  /\ UNCHANGED <<producer, consumer, seen, nextSequence, nextId, op, unplanned, planned,
                 planCursor, planSequence, snapConsumer, outcome, readerVars, inflight>>

\* Plain stores may become visible to the other process at any time before
\* the release store that publishes them.
Propagate ==
  /\ seen # bytes
  /\ seen' = bytes
  /\ UNCHANGED <<producer, consumer, bytes, writerVars, readerVars, inflight>>

\* ProducerMemory::publish: the release store makes every earlier store visible.
ReleaseCursor ==
  /\ producer' = planCursor
  /\ seen' = bytes

\* Mutant: measured from the cursor before the publication.
BufferedBeforePublish == Distance(producer, snapConsumer)

\* What send_fragments reports: the new cursor against its first snapshot.
BufferedAfterPublish == Distance(planCursor, snapConsumer)

\* Whether the snapshot of BeginSend found the ring empty.
SnapshotEmpty == producer = snapConsumer

\* Publication, and the counters that advance only after it succeeded.  The
\* batch call returns at once; PendingWrite::commit loads a cursor once more.
Publish ==
  /\ wpc = "storing" /\ stored = Len(planned)
  /\ IF MayPublish(producer, consumer, planCursor)
     THEN /\ ReleaseCursor
          /\ nextSequence' = planSequence
          /\ nextId' = NextId(nextId)
          /\ inflight' = inflight \o planned
          /\ outcome' = [result |-> "sent", buffered |-> BufferedAfterPublish,
                         signal |-> SnapshotEmpty]
          /\ wpc' = IF op = "single" THEN "committed" ELSE "idle"
     ELSE /\ wpc' = "failed"
          /\ UNCHANGED <<producer, seen, nextSequence, nextId, inflight, outcome>>
  /\ UNCHANGED <<consumer, bytes, callVars, readerVars>>

\* PendingWrite::commit measures the buffered amount with a fresh consumer cursor.
MeasureBuffered ==
  /\ wpc = "committed"
  /\ outcome' = [outcome EXCEPT !.buffered = Distance(planCursor, consumer)]
  /\ wpc' = "idle"
  /\ UNCHANGED <<sharedVars, nextSequence, nextId, callVars, readerVars, inflight>>

\* A PendingWrite is dropped: bytes have changed, cursor and counters have not.
DropPending ==
  /\ wpc = "storing" /\ op = "single" /\ stored = Len(planned)
  /\ wpc' = "idle"
  /\ UNCHANGED <<sharedVars, nextSequence, nextId, callVars, outcome, readerVars, inflight>>

\* The producer's process dies in the middle of a call.
CrashProducer ==
  /\ wpc \in {"planning", "storing", "committed"}
  /\ wpc' = "crashed"
  /\ UNCHANGED <<sharedVars, nextSequence, nextId, callVars, outcome, readerVars, inflight>>

(***************************************************************************)
(* The reader: RingReader::receive is peek then consume, until a record    *)
(* comes out.                                                              *)
(***************************************************************************)

Used == Distance(producer, consumer)

Contiguous == IF RoomBeforeEnd(consumer) < Used THEN RoomBeforeEnd(consumer) ELSE Used

\* The header found at the consumer cursor, and whether it is one at all.
Header == seen[Offset(consumer)].rec

Decodes ==
  /\ Contiguous >= RecordPrefix
  /\ seen[Offset(consumer)].part = 0
  /\ Header.kind \in {"data", "padding"}
  /\ Header.length <= Contiguous
  /\ Header.kind = "data" => Header.seq = expectedSequence

\* The payload is copied out before anything is consumed; a copy that mixes
\* records is torn, which no check of the code would notice.
CopyOut ==
  IF \A part \in 0 .. Header.length - 1 :
       seen[Offset(consumer) + part] = CellOf(Header, part)
  THEN Header
  ELSE [Header EXCEPT !.kind = "torn"]

\* Mutant: a padding record does not advance the cursor.
ReceiptWithoutPadding(rec) ==
  [current |-> consumer, rec |-> rec,
   next |-> IF rec.kind = "padding" THEN consumer ELSE Advance(consumer, rec.length)]

ReceiptFor(rec) ==
  [current |-> consumer, next |-> Advance(consumer, rec.length), rec |-> rec]

Peek ==
  /\ rpc = "idle" /\ Used > 0
  /\ IF Used <= Capacity /\ ImplicitPadding(consumer, Used) > 0
     THEN /\ rpc' = "peeked"
          /\ receipt' = ReceiptFor([NoRecord EXCEPT !.length = ImplicitPadding(consumer, Used)])
     ELSE IF Used <= Capacity /\ Decodes
     THEN /\ rpc' = "peeked"
          /\ receipt' = ReceiptFor(CopyOut)
     ELSE /\ rpc' = "failed"
          /\ UNCHANGED receipt
  /\ UNCHANGED <<sharedVars, writerVars, expectedSequence, received, inflight>>

\* Skipped padding has no sequence; a record advances the expected one first.
Consume ==
  /\ rpc = "peeked"
  /\ LET isRecord == receipt.rec.kind \in {"data", "torn"}
         current == /\ receipt.current = consumer
                    /\ isRecord => receipt.rec.seq = expectedSequence
         allowed == current /\ MayConsume(producer, consumer, receipt.next)
     IN  /\ expectedSequence' = IF current /\ isRecord THEN NextSequence(expectedSequence)
                                ELSE expectedSequence
         /\ consumer' = IF allowed THEN receipt.next ELSE consumer
         /\ inflight' = IF allowed /\ receipt.next # consumer THEN Tail(inflight) ELSE inflight
         /\ received' = IF allowed /\ isRecord THEN receipt.rec ELSE received
         /\ rpc' = IF allowed THEN "idle" ELSE "failed"
  /\ UNCHANGED <<producer, bytes, seen, writerVars, receipt>>

-----------------------------------------------------------------------------
Write ==
  \/ \E call \in {"single", "fragments"}, batch \in Batches : BeginSend(call, batch)
  \/ PlanRecord
  \/ RefuseSend
  \/ StoreRecord
  \/ Propagate
  \/ Publish
  \/ MeasureBuffered
  \/ DropPending
  \/ CrashProducer

Read == Peek \/ Consume

Next == Write \/ Read

Spec == Init /\ [][Next]_vars

\* The endpoint that owns the reader keeps calling receive; nothing obliges
\* an application to send, or a producer to stay alive.
FairSpec == Spec /\ WF_vars(Read)
=============================================================================
