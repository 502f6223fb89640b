---------------------------- MODULE PayloadQueue ----------------------------
(***************************************************************************)
(* What a chunk pool promises: payloads come out in the order in which     *)
(* they were committed, each lent to the consumer alone and unchanged      *)
(* until it lets go, and never more of them than there are slabs.          *)
(***************************************************************************)
EXTENDS Integers, Sequences

CONSTANT Bound  \* slabs

VARIABLES
  queue,   \* payloads committed and not yet taken
  lent     \* what the consumer holds: no payload or one

vars == <<queue, lent>>

Init == queue = <<>> /\ lent = <<>>

Commit ==
  /\ Len(queue') = Len(queue) + 1
  /\ queue' = Append(queue, queue'[Len(queue')])
  /\ Len(queue') + Len(lent) <= Bound
  /\ UNCHANGED lent

Take ==
  /\ lent = <<>> /\ queue # <<>>
  /\ lent' = <<Head(queue)>>
  /\ queue' = Tail(queue)

GiveBack ==
  /\ lent # <<>>
  /\ lent' = <<>>
  /\ UNCHANGED queue

Next == Commit \/ Take \/ GiveBack

Spec == Init /\ [][Next]_vars
=============================================================================
