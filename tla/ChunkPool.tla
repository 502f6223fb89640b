------------------------------ MODULE ChunkPool ------------------------------
(***************************************************************************)
(* nwipc-chunk-pool: fixed slabs that move between a producer thread and a *)
(* consumer thread.  Every operation holds the pool's mutex once, so it is *)
(* one step; payload bytes are written and read outside of it, by whoever  *)
(* has taken the slab's buffer out of its slot.                            *)
(***************************************************************************)
EXTENDS Integers, Sequences, SequencesExt, FiniteSets

CONSTANTS
  SlabCount,  \* chunk_count
  Payloads    \* payloads an application writes

ASSUME SlabAssumption == SlabCount \in Nat \ {0}

Slab == 0 .. SlabCount - 1

None == SlabCount

VARIABLES
  free,      \* slabs that can be loaned, oldest first
  ready,     \* committed slabs, oldest first
  present,   \* slabs whose buffer is in its slot
  loaned, received,   \* the counters of State
  loan,      \* the slab of the live LoanedChunk, or None
  receipt,   \* the slab of the live ReceivedChunk, or None
  content,   \* content[i]: the bytes of slab i
  failed     \* an operation found a slot without its buffer

poolVars == <<free, ready, present, loaned, received, loan, receipt, content, failed>>

\* chunk_pool
PoolInit ==
  /\ free = [i \in 1 .. SlabCount |-> i - 1]
  /\ ready = <<>>
  /\ present = Slab
  /\ loaned = 0 /\ received = 0
  /\ loan = None /\ receipt = None
  /\ content \in [Slab -> Payloads]
  /\ failed = FALSE

(***************************************************************************)
(* The producer.  A LoanedChunk borrows the ChunkProducer, so it holds at  *)
(* most one.                                                               *)
(***************************************************************************)

\* ChunkProducer::loan; with no free slab it returns Backpressured.
Loan ==
  /\ loan = None /\ ~failed
  /\ free # <<>>
  /\ free' = Tail(free)
  /\ loaned' = loaned + 1
  /\ failed' = (Head(free) \notin present)
  /\ present' = present \ {Head(free)}
  /\ loan' = IF failed' THEN None ELSE Head(free)
  /\ UNCHANGED <<ready, received, receipt, content>>

\* The application writes through payload_mut.
Fill ==
  /\ loan # None
  /\ \E payload \in Payloads : content' = [content EXCEPT ![loan] = payload]
  /\ UNCHANGED <<free, ready, present, loaned, received, loan, receipt, failed>>

\* Mutant: the committed slab overtakes those already waiting.
ReadyAfterCommitFront == <<loan>> \o ready

ReadyAfterCommit == Append(ready, loan)

LoanedAfterCommit == loaned - 1

\* LoanedChunk::commit
Commit ==
  /\ loan # None
  /\ present' = present \cup {loan}
  /\ loaned' = LoanedAfterCommit
  /\ ready' = ReadyAfterCommit
  /\ loan' = None
  /\ UNCHANGED <<free, received, receipt, content, failed>>

\* Mutant: a dropped loan is not given back.
FreeAfterDropLost == free

FreeAfterDrop == Append(free, loan)

\* Drop of a LoanedChunk that was not committed.
DropLoan ==
  /\ loan # None
  /\ present' = present \cup {loan}
  /\ loaned' = loaned - 1
  /\ free' = FreeAfterDrop
  /\ loan' = None
  /\ UNCHANGED <<ready, received, receipt, content, failed>>

(***************************************************************************)
(* The consumer, with at most one ReceivedChunk for the same reason.       *)
(***************************************************************************)

FreeAfterReceive == free

\* ChunkConsumer::receive
Receive ==
  /\ receipt = None /\ ~failed
  /\ ready # <<>>
  /\ ready' = Tail(ready)
  /\ received' = received + 1
  /\ failed' = (Head(ready) \notin present)
  /\ present' = present \ {Head(ready)}
  /\ receipt' = IF failed' THEN None ELSE Head(ready)
  /\ free' = FreeAfterReceive
  /\ UNCHANGED <<loaned, loan, content>>

\* ReceivedChunk::release, and Drop
ReleaseChunk ==
  /\ receipt # None
  /\ present' = present \cup {receipt}
  /\ received' = received - 1
  /\ free' = Append(free, receipt)
  /\ receipt' = None
  /\ UNCHANGED <<ready, loaned, loan, content, failed>>

PoolNext == Loan \/ Fill \/ Commit \/ DropLoan \/ Receive \/ ReleaseChunk

PoolSpec == PoolInit /\ [][PoolNext]_poolVars

\* Both threads finish what they hold, and the consumer keeps receiving.
PoolFairSpec ==
  /\ PoolSpec
  /\ WF_poolVars(Receive) /\ WF_poolVars(ReleaseChunk)
  /\ WF_poolVars(Commit \/ DropLoan)

-----------------------------------------------------------------------------

Held(slab) == IF slab = None THEN {} ELSE {slab}

\* Every variable stays in its type.
PoolTypeOK ==
  /\ free \in Seq(Slab) /\ ready \in Seq(Slab)
  /\ present \subseteq Slab
  /\ loaned \in 0 .. 1 /\ received \in 0 .. 1
  /\ loan \in Slab \cup {None} /\ receipt \in Slab \cup {None}
  /\ content \in [Slab -> Payloads]
  /\ failed \in BOOLEAN

Queue == INSTANCE PayloadQueue
  WITH queue <- [i \in DOMAIN ready |-> content[ready[i]]],
       lent <- IF receipt = None THEN <<>> ELSE <<content[receipt]>>,
       Bound <- SlabCount

\* The pool is a first-in first-out queue of payloads: a committed or a borrowed
\* payload never changes, although the producer goes on writing into slabs.
ImplementsQueue == Queue!Spec

\* Backpressure ends: a producer that finds no free slab gets one again when the
\* consumer keeps receiving and releasing.
SlabReturns == free = <<>> ~> free # <<>>
=============================================================================
