---------------------------- MODULE MessageLink ----------------------------
(***************************************************************************)
(* What a channel promises its two endpoints: in each direction a queue of *)
(* whole messages delivered once and in order, ended by at most one close  *)
(* or reset, which arrives after everything accepted before it.  An item   *)
(* may be lost only by a call that reports an error to its application.    *)
(***************************************************************************)
EXTENDS Integers, Sequences

CONSTANTS
  End,        \* the two endpoints
  Other(_),   \* the opposite one
  Silent,     \* what an endpoint's call returned when no item was delivered
  Failure     \* what a call returned that failed

VARIABLES
  queue,   \* queue[e]: accepted from e and not yet delivered
  ended,   \* ended[e]: e has sent its close or reset
  event    \* event[e]: what the last call at e delivered

vars == <<queue, ended, event>>

Init ==
  /\ queue = [e \in End |-> <<>>]
  /\ ended = [e \in End |-> FALSE]
  /\ event \in [End -> Silent]

Accept(e) ==
  LET item == queue'[e][Len(queue[e]) + 1]
  IN  /\ ~ended[e]
      /\ Len(queue'[e]) = Len(queue[e]) + 1
      /\ queue' = [queue EXCEPT ![e] = Append(@, item)]
      /\ ended' = [ended EXCEPT ![e] = item.kind # "message"]
      /\ UNCHANGED event

Deliver(e) ==
  /\ queue[Other(e)] # <<>>
  /\ event' = [event EXCEPT ![e] = Head(queue[Other(e)])]
  /\ queue' = [queue EXCEPT ![Other(e)] = Tail(@)]
  /\ UNCHANGED ended

\* A call that delivers nothing.
Pause(e) ==
  /\ event'[e] \in Silent
  /\ event' = [event EXCEPT ![e] = event'[e]]
  /\ UNCHANGED <<queue, ended>>

\* The call failed after it had taken the item.
Lose(e) ==
  /\ queue[Other(e)] # <<>>
  /\ event' = [event EXCEPT ![e] = Failure]
  /\ queue' = [queue EXCEPT ![Other(e)] = Tail(@)]
  /\ UNCHANGED ended

Next == \E e \in End : Accept(e) \/ Deliver(e) \/ Lose(e) \/ Pause(e)

Spec == Init /\ [][Next]_vars
=============================================================================
