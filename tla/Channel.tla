------------------------------ MODULE Channel ------------------------------
(***************************************************************************)
(* Two endpoints joined by opposite rings: ChannelEndpoint (send, close,   *)
(* reset, receive) inside ChannelTransport (hints, poll, wait_timeout).    *)
(* Each endpoint is one thread that runs one call at a time; the two       *)
(* interleave wherever a call loads or stores a shared cursor.  A ring is  *)
(* taken as what module Ring proves of it, a queue of records that grows   *)
(* by whole batches, with the wrap tails its records take.                 *)
(***************************************************************************)
EXTENDS FlowControl, Fragment

CONSTANTS
  Inline, Largest,  \* maximum_inline_message and maximum_message, in bytes
  Payloads,         \* Payloads[e]: sizes the application at e sends
  Enders,           \* endpoints that close or reset
  Mortal,           \* endpoints whose process may die
  FailingHints,     \* endpoints whose inbound notification may fail
  IdModulus         \* message ids before they repeat, the unused 0 included

End == {"a", "b"}
Opposite(e) == CHOOSE f \in End : f # e

\* Fragmenter::new: the limits a Fragmenter and a Reassembler are made with.
ValidLimits == Inline \in Nat \ {0} /\ Largest \in Nat /\ Inline <= Largest

\* ChannelEndpoint::from_memories refuses any other configuration.
ValidConfig == ValidLimits /\ RequiredCapacity(Inline, Largest) <= Capacity

ASSUME ChannelAssumption ==
  /\ ValidConfig
  /\ \A e \in End : Payloads[e] \subseteq 0 .. Largest
  /\ IdModulus \in Nat \ {0, 1}

VARIABLES
  position,      \* position[e]: physical offset of e's producer cursor
  ring,          \* ring[e]: committed and unconsumed entries from e
  nextId,        \* RingWriter::next_message_id of e
  backpressured, \* FlowControl flag of e
  localClosed, remoteClosed,
  partial,       \* Reassembler of e
  at,            \* where the call under way at e stands
  pending,       \* batch e has planned and not published
  taken,         \* event e has taken off its ring and not returned yet
  hint,          \* a notification is waiting at e's inbound listener
  event          \* what the last call at e returned

\* The fields of a ChannelEndpoint, of the ChannelTransport around it, and of
\* the call under way.
endpointVars == <<position, nextId, backpressured, localClosed, remoteClosed, partial>>
transportVars == <<hint, at>>
callVars == <<pending, taken, event>>
channelVars == <<ring, endpointVars, transportVars, callVars>>

NoPartial == [id |-> 0, size |-> 0]
NoEvent == [kind |-> "none", id |-> 0, size |-> 0]
Writable == [kind |-> "writable", id |-> 0, size |-> 0]
Failure == [kind |-> "failure", id |-> 0, size |-> 0]
NoBatch == [records |-> <<>>, before |-> 0, data |-> FALSE]

CellsIn(records) ==
  LET Upto[n \in 0 .. Len(records)] ==
        IF n = 0 THEN 0 ELSE Upto[n - 1] + records[n].length
  IN  Upto[Len(records)]

Used(e) == CellsIn(ring[e])

NextId(id) == IF (id + 1) % IdModulus = 0 THEN 1 ELSE (id + 1) % IdModulus

EndpointInit ==
  /\ position = [e \in End |-> 0]
  /\ nextId = [e \in End |-> 1]
  /\ backpressured = [e \in End |-> FALSE]
  /\ localClosed = [e \in End |-> FALSE]
  /\ remoteClosed = [e \in End |-> FALSE]
  /\ partial = [e \in End |-> NoPartial]

TransportInit ==
  /\ hint = [e \in End |-> FALSE]
  /\ at = [e \in End |-> "idle"]

ChannelInit ==
  /\ ring = [e \in End |-> <<>>]
  /\ EndpointInit
  /\ TransportInit
  /\ pending = [e \in End |-> NoBatch]
  /\ taken = [e \in End |-> NoEvent]
  /\ event = [e \in End |-> NoEvent]

(***************************************************************************)
(* Sending.                                                                *)
(***************************************************************************)

\* The records of one message, sized by the fragmenter.
DataRecords(e, payload) ==
  LET sizes == FragmentSizes(Inline, payload)
  IN  [i \in DOMAIN sizes |->
         [kind |-> "data", id |-> nextId[e], size |-> sizes[i],
          length |-> RecordCells(sizes[i]),
          fragmented |-> Len(sizes) > 1, end |-> i = Len(sizes)]]

ControlRecord(e, kind) ==
  <<[kind |-> kind, id |-> nextId[e], size |-> 0, length |-> RecordCells(0),
     fragmented |-> FALSE, end |-> TRUE]>>

Padding(cells) ==
  [kind |-> "padding", id |-> 0, size |-> 0, length |-> cells,
   fragmented |-> FALSE, end |-> FALSE]

\* The records with the wrap tail, if one of them needs it, in its place.
WithPadding(start, records) ==
  LET Upto[n \in 0 .. Len(records)] ==
        IF n = 0 THEN <<>>
        ELSE LET planned == Upto[n - 1]
                 tail == WrapPadding(start + CellsIn(planned), records[n].length)
             IN  planned \o (IF tail = 0 THEN <<records[n]>> ELSE <<Padding(tail), records[n]>>)
  IN  Upto[Len(records)]

BatchFits(e, planned) == Used(e) + CellsIn(planned) <= Capacity

\* The batch, and the occupancy its snapshot saw.
Plan(e, planned, data) ==
  /\ at' = [at EXCEPT ![e] = "publishing"]
  /\ pending' = [pending EXCEPT ![e] =
                   [records |-> planned, before |-> Used(e), data |-> data]]

\* ChannelEndpoint::refresh_flow
RefreshFlow(e) == backpressured' = [backpressured EXCEPT ![e] = Flow(@, Used(e))]

\* ChannelEndpoint::is_closed
IsClosed(e) == localClosed[e] \/ remoteClosed[e]

\* ChannelEndpoint::send begins: neither side closed, the flow observed.
SendCall(e) ==
  /\ at[e] = "idle"
  /\ ~IsClosed(e)
  /\ event' = [event EXCEPT ![e] = NoEvent]
  /\ RefreshFlow(e)
  /\ UNCHANGED <<position, ring, nextId, localClosed, remoteClosed, partial, hint, taken>>

PlannedSend(e, payload) == WithPadding(position[e], DataRecords(e, payload))

\* Backpressured, by the watermark or by a ring without room for the batch.
SendRefused(e, payload) ==
  /\ SendCall(e)
  /\ backpressured'[e] \/ ~BatchFits(e, PlannedSend(e, payload))
  /\ UNCHANGED <<at, pending>>

\* Planned against the snapshot; the bytes are published by the next step.
SendPlanned(e, payload) ==
  /\ SendCall(e)
  /\ ~backpressured'[e] /\ BatchFits(e, PlannedSend(e, payload))
  /\ Plan(e, PlannedSend(e, payload), TRUE)

\* close and reset ask only whether this side closed before, and no watermark.
EndBegin(e, kind) ==
  /\ at[e] = "idle" /\ ~localClosed[e]
  /\ event' = [event EXCEPT ![e] = NoEvent]
  /\ LET planned == WithPadding(position[e], ControlRecord(e, kind))
     IN  /\ BatchFits(e, planned)
         /\ Plan(e, planned, FALSE)
  /\ UNCHANGED <<position, ring, nextId, backpressured, localClosed, remoteClosed,
                 partial, hint, taken>>

\* The cursor publication, the counters after it, and the flow update of send
\* with the amount the snapshot implies; a hint follows if that was empty.
Publish(e) ==
  /\ at[e] = "publishing"
  /\ LET batch == pending[e]
     IN  /\ ring' = [ring EXCEPT ![e] = @ \o batch.records]
         /\ position' = [position EXCEPT ![e] = (@ + CellsIn(batch.records)) % Capacity]
         /\ backpressured' =
              IF batch.data
              THEN [backpressured EXCEPT ![e] = Flow(@, batch.before + CellsIn(batch.records))]
              ELSE backpressured
         /\ localClosed' = [localClosed EXCEPT ![e] = @ \/ ~batch.data]
         /\ at' = [at EXCEPT ![e] = IF batch.before = 0 THEN "notifying" ELSE "idle"]
  /\ nextId' = [nextId EXCEPT ![e] = NextId(@)]
  /\ pending' = [pending EXCEPT ![e] = NoBatch]
  /\ UNCHANGED <<remoteClosed, partial, hint, taken, event>>

\* outbound_sender.notify(): delivered, lost, or failed after the publication.
NotifyPeer(e) ==
  /\ at[e] = "notifying"
  /\ \E arrives \in BOOLEAN :
       hint' = [hint EXCEPT ![Opposite(e)] = @ \/ arrives]
  /\ at' = [at EXCEPT ![e] = "idle"]
  /\ UNCHANGED <<position, ring, nextId, backpressured, localClosed, remoteClosed,
                 partial, pending, taken, event>>

(***************************************************************************)
(* Receiving: ChannelTransport::poll, and wait_timeout, which polls, waits *)
(* for a hint or its bounded interval, and polls once more.                *)
(***************************************************************************)

Polling == {"polling", "first poll"}

PollBegin(e, stage) ==
  /\ at[e] = "idle"
  /\ at' = [at EXCEPT ![e] = stage]
  /\ event' = [event EXCEPT ![e] = NoEvent]
  /\ UNCHANGED <<position, ring, nextId, backpressured, localClosed, remoteClosed,
                 partial, hint, pending, taken>>

\* Reassembler::push refuses a record out of place.
OutOfPlace(p, r) ==
  IF ~r.fragmented
  THEN ~r.end \/ p # NoPartial
  ELSE \/ r.size = 0
       \/ p = NoPartial /\ r.end
       \/ p # NoPartial /\ p.id # r.id
       \/ p.size + r.size > Largest

\* The partial message after a record, and the event a record completes.
Extended(p, r) == [id |-> r.id, size |-> p.size + r.size]

\* Mutant: only the last fragment's payload is returned.
CompletedByLast(p, r) == [kind |-> "message", id |-> r.id, size |-> r.size]

Completed(p, r) == [kind |-> "message", id |-> r.id, size |-> p.size + r.size]

\* One turn of the receive loop.  The reader frees the record's cells before
\* anything looks at it.
Take(e, kinds) ==
  /\ at[e] \in Polling /\ ring[Opposite(e)] # <<>>
  /\ Head(ring[Opposite(e)]).kind \in kinds
  /\ ring' = [ring EXCEPT ![Opposite(e)] = Tail(@)]
  /\ UNCHANGED <<position, nextId, backpressured, localClosed, hint,
                 pending, event>>

TakePadding(e) ==
  /\ Take(e, {"padding"})
  /\ UNCHANGED <<remoteClosed, partial, at, taken>>

\* What a data record leaves of the partial message.
PartialAfter(p, r) ==
  IF OutOfPlace(p, r) \/ r.end THEN NoPartial ELSE Extended(p, r)

TakeData(e) ==
  /\ Take(e, {"data"})
  /\ LET r == Head(ring[Opposite(e)])
         whole == r.end /\ ~OutOfPlace(partial[e], r)
     IN  /\ partial' = [partial EXCEPT ![e] = PartialAfter(@, r)]
         /\ taken' = IF whole
                     THEN [taken EXCEPT ![e] = Completed(partial[e], r)]
                     ELSE taken
         /\ at' = [at EXCEPT ![e] = IF OutOfPlace(partial[e], r) THEN "failed"
                                    ELSE IF whole THEN "answering" ELSE @]
  /\ UNCHANGED remoteClosed

TakeEnd(e) ==
  /\ Take(e, {"close", "reset"})
  /\ LET r == Head(ring[Opposite(e)])
     IN  taken' = [taken EXCEPT ![e] = [kind |-> r.kind, id |-> r.id, size |-> 0]]
  /\ partial' = [partial EXCEPT ![e] = NoPartial]
  /\ remoteClosed' = [remoteClosed EXCEPT ![e] = TRUE]
  /\ at' = [at EXCEPT ![e] = "answering"]

\* poll tells the producer that cells were freed, then returns the event; the
\* hint reaches only the producer's outbound listener, on which nobody blocks.
Answer(e) ==
  /\ at[e] = "answering"
  /\ event' = [event EXCEPT ![e] = taken[e]]
  /\ taken' = [taken EXCEPT ![e] = NoEvent]
  /\ at' = [at EXCEPT ![e] = "idle"]
  /\ UNCHANGED <<position, ring, nextId, backpressured, localClosed, remoteClosed,
                 partial, hint, pending>>

\* The notification fails: poll returns its error and drops the event.
AnswerFails(e) ==
  /\ at[e] = "answering" /\ e \in FailingHints
  /\ event' = [event EXCEPT ![e] = Failure]
  /\ taken' = [taken EXCEPT ![e] = NoEvent]
  /\ at' = [at EXCEPT ![e] = "idle"]
  /\ UNCHANGED <<position, ring, nextId, backpressured, localClosed, remoteClosed,
                 partial, hint, pending>>

\* Nothing to receive: the flow is observed, and its writable edge reported.
PollEmpty(e) ==
  /\ at[e] \in Polling /\ ring[Opposite(e)] = <<>>
  /\ LET edge == BecameWritable(backpressured[e], Used(e))
     IN  /\ event' = [event EXCEPT ![e] = IF edge THEN Writable ELSE NoEvent]
         /\ at' = [at EXCEPT
                     ![e] = IF @ = "first poll" /\ ~edge THEN "waiting" ELSE "idle"]
  /\ RefreshFlow(e)
  /\ UNCHANGED <<position, ring, nextId, localClosed, remoteClosed, partial,
                 hint, pending, taken>>

\* Mutant: a waiter that relies on its notification alone.
PrimaryOnly(e) == {source \in {"primary"} : hint[e]}

\* What may end HybridSignal::wait_timeout: a hint, or its bounded interval.
WakeSources(e) == {source \in {"primary", "poll"} : source = "primary" => hint[e]}

Wake(e) ==
  /\ at[e] = "waiting"
  /\ \E source \in WakeSources(e) :
       hint' = [hint EXCEPT ![e] = @ /\ source # "primary"]
  /\ at' = [at EXCEPT ![e] = "polling"]
  /\ UNCHANGED <<position, ring, nextId, backpressured, localClosed, remoteClosed,
                 partial, pending, taken, event>>

\* ChannelTransport::close and reset: the record, then the hint Publish leads to.
Ends(e) == e \in Enders /\ \E kind \in {"close", "reset"} : EndBegin(e, kind)

\* A process dies between two steps of any call; what it committed stays.
Die(e) ==
  /\ e \in Mortal /\ at[e] \notin {"dead", "failed"}
  /\ at' = [at EXCEPT ![e] = "dead"]
  /\ UNCHANGED <<position, ring, nextId, backpressured, localClosed, remoteClosed,
                 partial, hint, pending, taken, event>>

-----------------------------------------------------------------------------
Continue(e) ==
  \/ Publish(e) \/ NotifyPeer(e)
  \/ TakePadding(e) \/ TakeData(e) \/ TakeEnd(e)
  \/ Answer(e) \/ AnswerFails(e) \/ PollEmpty(e) \/ Wake(e)

Poll(e) == \E stage \in Polling : PollBegin(e, stage)

ChannelNext ==
  \E e \in End :
    \/ \E payload \in Payloads[e] : SendRefused(e, payload) \/ SendPlanned(e, payload)
    \/ Ends(e)
    \/ Poll(e)
    \/ Continue(e)
    \/ Die(e)

ChannelSpec == ChannelInit /\ [][ChannelNext]_channelVars

\* A call that has begun runs on, and an endpoint's driver returns to polling
\* however often the application sends; nothing else is promised.
FairSpec ==
  ChannelSpec /\ \A e \in End : WF_channelVars(Continue(e)) /\ SF_channelVars(Poll(e))
=============================================================================
