--------------------------- MODULE RingProperties ---------------------------
(***************************************************************************)
(* What the record ring guarantees, and to whom.                           *)
(***************************************************************************)
EXTENDS Ring

PlannedWrite == [cursor : Cursor, rec : Record]

\* The types of all variables but the history.
CodeTypes ==
  /\ producer \in Cursor /\ consumer \in Cursor
  /\ bytes \in [Offsets -> Cell] /\ seen \in [Offsets -> Cell]
  /\ nextSequence \in Sequence /\ nextId \in MessageId
  /\ wpc \in {"idle", "planning", "storing", "committed", "crashed", "failed"}
  /\ op \in {"single", "fragments"}
  /\ unplanned \in Seq(RecordPrefix .. Capacity)
  /\ planned \in Seq(PlannedWrite)
  /\ stored \in 0 .. Len(planned)
  /\ planCursor \in Cursor /\ planSequence \in Sequence /\ snapConsumer \in Cursor
  /\ outcome \in [result : {"none", "backpressured", "sent"},
                  buffered : 0 .. Capacity, signal : BOOLEAN]
  /\ expectedSequence \in Sequence
  /\ rpc \in {"idle", "peeked", "failed"}
  /\ receipt \in [current : Cursor, next : Cursor, rec : Record]
  /\ received \in Record

\* Every variable stays in its type: no cursor, sequence, message id or length
\* leaves its range at a wrap.
TypeOK == CodeTypes /\ inflight \in Seq(PlannedWrite)

\* No bound or cursor check of the writer fails although the consumer moves
\* its cursor between the snapshot, the stores and the publication.
WriterNeverFails == wpc # "failed"

\* The amount a send reports, from which the watermarks are driven, is never
\* below what is unconsumed when the call returns.
BufferedNotUnderstated ==
  wpc = "idle" /\ outcome.result = "sent" => Used <= outcome.buffered

\* The records among the writes of a ring, padding left out.
DataOf(writes) ==
  LET Upto[n \in 0 .. Len(writes)] ==
        IF n = 0 THEN <<>>
        ELSE IF writes[n].rec.kind = "data" THEN Append(Upto[n - 1], writes[n].rec)
        ELSE Upto[n - 1]
  IN  Upto[Len(writes)]

Abstract == INSTANCE RecordQueue
  WITH queue <- DataOf(inflight), Bound <- Capacity, NoRecord <- NoRecord

\* The ring implements the record queue: batches appear whole, in order, and
\* each record is received once and untorn, across drops and crashes.
ImplementsQueue == Abstract!Spec

Committed(s) ==
  \E i \in DOMAIN inflight : inflight[i].rec.kind = "data" /\ inflight[i].rec.seq = s

\* A committed record is eventually consumed, padding on its way included.
CommittedIsReceived == \A s \in Sequence : Committed(s) ~> ~Committed(s)

\* ProducerMemory::write documents that it fails when the range "is not wholly
\* inside producer-owned free space": a store that is let through changes no
\* cell of a committed and unconsumed record.  Proved in RingProofs for
\* the capacities that divide CursorModulus; over the others that
\* in_process_ring accepts the offset jumps as the cursor wraps.
StoresOnlyFreeCells ==
  [][StoreRecord =>
       \A i \in DOMAIN inflight :
         \A o \in Span(inflight[i].cursor, inflight[i].rec.length) : bytes'[o] = bytes[o]]_vars
=============================================================================
