---------------------------- MODULE RecordQueue ----------------------------
(***************************************************************************)
(* What a ring promises to the channel above it: a bounded first-in        *)
(* first-out queue of records in which the records of one message appear   *)
(* in a single step and a record leaves exactly once, whole.               *)
(***************************************************************************)
EXTENDS Integers, Sequences, SequencesExt

CONSTANTS
  Bound,     \* most cells the queue may hold
  NoRecord   \* value of received before the first delivery

VARIABLES
  queue,     \* records committed and not yet consumed
  received   \* the record consumed last

vars == <<queue, received>>

CellsOf(records) ==
  LET Upto[n \in 0 .. Len(records)] ==
        IF n = 0 THEN 0 ELSE Upto[n - 1] + records[n].length
  IN  Upto[Len(records)]

\* The records of one message: one id, and only the last one ends it.
IsMessage(records) ==
  /\ records # <<>>
  /\ \A i \in DOMAIN records :
       /\ records[i].id = records[1].id
       /\ records[i].end <=> i = Len(records)

Init ==
  /\ queue = <<>>
  /\ received = NoRecord

Commit ==
  /\ IsStrictPrefix(queue, queue')
  /\ IsMessage(SubSeq(queue', Len(queue) + 1, Len(queue')))
  /\ CellsOf(queue') <= Bound
  /\ UNCHANGED received

Deliver ==
  /\ queue # <<>>
  /\ received' = Head(queue)
  /\ queue' = Tail(queue)

Next == Commit \/ Deliver

Spec == Init /\ [][Next]_vars
=============================================================================
