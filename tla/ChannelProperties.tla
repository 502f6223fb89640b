------------------------- MODULE ChannelProperties -------------------------
(***************************************************************************)
(* What a channel guarantees to the two applications.                      *)
(***************************************************************************)
EXTENDS Channel

EntryKinds == {"data", "padding", "close", "reset"}

Entry == [kind : EntryKinds, id : 0 .. IdModulus - 1, size : 0 .. Inline,
          length : 1 .. Capacity, fragmented : BOOLEAN, end : BOOLEAN]

Event == [kind : {"none", "writable", "message", "close", "reset", "failure"},
          id : 0 .. IdModulus - 1, size : 0 .. Largest]

\* Every variable stays in its type.
TypeOK ==
  /\ position \in [End -> Offsets]
  /\ ring \in [End -> Seq(Entry)]
  /\ nextId \in [End -> 1 .. IdModulus - 1]
  /\ backpressured \in [End -> BOOLEAN]
  /\ localClosed \in [End -> BOOLEAN] /\ remoteClosed \in [End -> BOOLEAN]
  /\ partial \in [End -> [id : 0 .. IdModulus - 1, size : 0 .. Largest]]
  /\ at \in [End -> Polling \cup {"idle", "publishing", "notifying", "answering",
                                  "waiting", "failed", "dead"}]
  /\ pending \in [End -> [records : Seq(Entry), before : 0 .. Capacity, data : BOOLEAN]]
  /\ taken \in [End -> Event] /\ event \in [End -> Event]
  /\ hint \in [End -> BOOLEAN]

\* The item a message or control record completes, given the bytes before it.
ItemOf(r, size) ==
  [kind |-> IF r.kind = "data" THEN "message" ELSE r.kind, id |-> r.id, size |-> size + r.size]

\* What a receiver is going to make of records, from size bytes it already has:
\* the items they complete, and the bytes left over.
Reassembled(size, records) ==
  LET Upto[n \in 0 .. Len(records)] ==
        IF n = 0 THEN [items |-> <<>>, size |-> size]
        ELSE LET before == Upto[n - 1]
                 r == records[n]
             IN  IF r.end
                 THEN [items |-> Append(before.items, ItemOf(r, before.size)), size |-> 0]
                 ELSE [items |-> before.items, size |-> before.size + r.size]
  IN  Upto[Len(records)]

\* Accepted from e and not yet returned to the other side, in order.
Queue(e) ==
  LET f == Opposite(e)
      first == IF taken[f] = NoEvent THEN <<>> ELSE <<taken[f]>>
  IN  first \o Reassembled(partial[f].size, ring[e]).items

Link == INSTANCE MessageLink
  WITH queue <- [e \in End |-> Queue(e)],
       ended <- localClosed,
       Other <- Opposite,
       Silent <- {NoEvent, Writable}

\* Every message accepted is delivered whole, once and in order, and a close or
\* reset comes last, however calls, fragments, lost hints and deaths interleave;
\* one is lost only by a poll that returns the failure of its notification.
ImplementsLink == Link!Spec

\* A message is refused for lack of room only while something is unconsumed:
\* nwipc-error calls such an error one where "Retrying the same operation may
\* succeed", so no offset of the producer may refuse it for good.
EmptyRingAccepts ==
  [][\A e \in End : \A payload \in Payloads[e] :
       SendRefused(e, payload) => Used(e) > 0]_channelVars

\* What was accepted is taken out of the link again and again until nothing is
\* left, although every hint may be lost, unless the receiver dies: with the
\* order of ImplementsLink, every accepted message is delivered or reported lost.
DeliveredWithoutHints ==
  \A e \in End :
    \/ []<>(Queue(e) = <<>> \/ at[Opposite(e)] = "dead")
    \/ []<><<Len(Queue(e)') < Len(Queue(e))>>_channelVars

\* Watermark backpressure ends once the other side keeps polling.
BackpressureClears ==
  \A e \in End :
    backpressured[e] ~> ~backpressured[e] \/ at[e] = "dead" \/ at[Opposite(e)] = "dead"
=============================================================================
