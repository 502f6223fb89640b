------------------------------ MODULE Fragment ------------------------------
(***************************************************************************)
(* Bounded fragmentation of a message and the capacity a channel demands   *)
(* for it: nwipc-fragment, and the checks nwipc-channel-core makes of a    *)
(* configuration.  Payloads are in bytes, encoded records in cells.        *)
(***************************************************************************)
EXTENDS Integers, Sequences, SequencesExt

CellBytes == 8
PrefixBytes == 24

\* record_length: the prefix and the payload rounded up to whole cells.
RecordCells(payload) == (PrefixBytes + payload + CellBytes - 1) \div CellBytes

\* Fragmenter::fragments: the payload sizes of the records of one message.
FragmentSizes(inline, payload) ==
  IF payload <= inline
  THEN <<payload>>
  ELSE [i \in 1 .. (payload + inline - 1) \div inline |->
          IF i * inline <= payload THEN inline ELSE payload % inline]

\* wire_bytes
WireCells(inline, message) ==
  (message \div inline) * RecordCells(inline)
    + (IF message % inline = 0 THEN 0 ELSE RecordCells(message % inline))

\* Mutant: the wrap tail before one fragment is forgotten.
BatchCellsWithoutTail(inline, message) == WireCells(inline, message)

\* maximum_batch_bytes: one fragment may find a tail one cell too short for it.
BatchCells(inline, message) ==
  WireCells(inline, message) + RecordCells(inline) - 1

\* ChannelConfig::validate_capacity: the wrap tail counts only when messages
\* larger than one record are allowed.
RequiredCapacity(inline, message) ==
  IF message > inline THEN BatchCells(inline, message) ELSE WireCells(inline, message)

\* Cells a batch of records takes from a producer offset, wrap tail included.
PlannedCells(capacity, offset, lengths) ==
  LET Upto[n \in 0 .. Len(lengths)] ==
        IF n = 0 THEN 0
        ELSE LET cells == Upto[n - 1]
                 room == capacity - ((offset + cells) % capacity)
             IN  cells + lengths[n] + (IF lengths[n] > room THEN room ELSE 0)
  IN  Upto[Len(lengths)]

RecordLengths(inline, payload) ==
  LET sizes == FragmentSizes(inline, payload)
  IN  [i \in DOMAIN sizes |-> RecordCells(sizes[i])]
=============================================================================
