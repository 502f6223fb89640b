------------------------------ MODULE Documents ------------------------------
(***************************************************************************)
(* One web content process: the bundle shim that installs a binding for    *)
(* every document of the page, the JSC binding over RendererCore, and the  *)
(* script's NativeMessagePorts.  All of it runs on one thread, a timer     *)
(* polls the transports and hands the queued events to the script, which   *)
(* may call back from its handlers.  A connection's transport is module    *)
(* Ports' renderer side, kept here to what a poll can return.              *)
(***************************************************************************)
EXTENDS FlowControl, SequencesExt

CONSTANTS
  LastDocument,  \* documents the page may load
  LastPort,      \* connections a document may open
  LastMessage,   \* messages the peer may send on each connection
  LastPost       \* messages the script may post on each connection

Connection == 1 .. LastPort

ASSUME DocumentsAssumption ==
  /\ LastDocument \in Nat \ {0} /\ LastPort \in Nat \ {0}
  /\ {LastMessage, LastPost} \subseteq [Connection -> Nat]

VARIABLES
  document,    \* the generation JSC_BINDING is installed for, 0 without one
  generation,  \* DOCUMENT_GENERATION
  core,        \* the ports of RendererCore
  events,      \* RendererCore::events
  transport,   \* per connection: what a poll would take, and the ring it writes
  script,      \* the script's NativeMessagePort
  pc,          \* "dispatching" while JscBinding::dispatch hands events out
  given,       \* history: what the peer sent on a connection
  heard        \* history: what the script's listeners were given

vars == <<document, generation, core, events, transport, script, pc, given, heard>>

Terminal == {"closed", "failed"}
Endings == {"close", "error"}

NoPort == [state |-> "none", backpressured |-> FALSE]
OpenPort == [state |-> "open", backpressured |-> FALSE]

Idle == [inbox |-> <<>>, used |-> 0, flow |-> FALSE, posted |-> 0]

NoScript == [state |-> "none", backpressured |-> FALSE, bufferedAmount |-> 0,
             waiters |-> 0, handler |-> FALSE]

SetHandler(port) == [port EXCEPT !.handler = TRUE]

\* NativeMessagePort's constructor sets its handler in the turn that connects.
OpenScript == SetHandler([NoScript EXCEPT !.state = "open"])

\* A fresh RendererCore and a context nothing has run in.
Cleared ==
  /\ core' = [p \in Connection |-> NoPort]
  /\ events' = <<>>
  /\ transport' = [p \in Connection |-> Idle]
  /\ script' = [p \in Connection |-> NoScript]
  /\ given' = [p \in Connection |-> <<>>]
  /\ heard' = [p \in Connection |-> <<>>]

Init ==
  /\ document = 0 /\ generation = 1
  /\ core = [p \in Connection |-> NoPort]
  /\ events = <<>>
  /\ transport = [p \in Connection |-> Idle]
  /\ script = [p \in Connection |-> NoScript]
  /\ pc = "idle"
  /\ given = [p \in Connection |-> <<>>]
  /\ heard = [p \in Connection |-> <<>>]

(***************************************************************************)
(* The shim.                                                               *)
(***************************************************************************)

\* The binding of a new document, which stays away when its installation fails.
Install == document' \in {0, generation}

\* did_clear_window_object of the main frame: the old binding goes first.
DidClearWindowObject ==
  /\ pc = "idle" /\ generation <= LastDocument
  /\ Install
  /\ generation' = generation + 1
  /\ Cleared
  /\ UNCHANGED pc

\* will_destroy_page.
WillDestroyPage ==
  /\ pc = "idle" /\ document # 0
  /\ document' = 0
  /\ Cleared
  /\ UNCHANGED <<generation, pc>>

(***************************************************************************)
(* The other side of a connection.                                         *)
(***************************************************************************)

Attached(p) == core[p].state # "none"

Ended(p) == \E item \in ToSet(given[p]) : item.kind \in Endings

Arrive(p, item) ==
  /\ Attached(p) /\ ~Ended(p)
  /\ transport' = [transport EXCEPT ![p].inbox = Append(@, item)]
  /\ given' = [given EXCEPT ![p] = Append(@, item)]
  /\ UNCHANGED <<document, generation, core, events, script, pc, heard>>

PeerSends(p) ==
  /\ Len(given[p]) < LastMessage[p]
  /\ Arrive(p, [kind |-> "message", id |-> Len(given[p]) + 1])

\* The peer closes, or the channel is found broken.
PeerEnds(p) == \E kind \in Endings : Arrive(p, [kind |-> kind, id |-> 0])

PeerTakes(p) ==
  /\ Attached(p) /\ transport[p].used > 0
  /\ transport' = [transport EXCEPT ![p].used = @ - 1]
  /\ UNCHANGED <<document, generation, core, events, script, pc, given, heard>>

(***************************************************************************)
(* RendererCore.                                                           *)
(***************************************************************************)

Queued(p, item) == [port |-> p, item |-> item]

\* RendererTransport::poll until it has nothing to return: everything that has
\* arrived, then the writable edge.
Edge(p) == ~Ended(p) /\ BecameWritable(transport[p].flow, transport[p].used)

\* Mutant: a port that is closing is drained without queueing what comes.
ForwardedToOpen(p) ==
  IF core[p].state = "open" THEN
    [i \in DOMAIN transport[p].inbox |-> Queued(p, transport[p].inbox[i])]
  ELSE <<>>

\* The edge is passed on to a port whose last send met the high watermark.
ForwardedEdge(p) ==
  IF Edge(p) /\ core[p].backpressured
  THEN <<Queued(p, [kind |-> "writable", id |-> 0])>> ELSE <<>>

\* poll_port of a port that is not over: what it queues.
Poll(p) ==
  IF core[p].state \in {"open", "closing"}
  THEN [i \in DOMAIN transport[p].inbox |-> Queued(p, transport[p].inbox[i])]
         \o ForwardedEdge(p)
  ELSE <<>>

\* ... and the port it leaves: finish gives it the state its ending names.
PolledPort(p) ==
  LET ending == Ended(p) /\ core[p].state \in {"open", "closing"}
  IN  [state |-> IF ending
                 THEN IF Last(given[p]).kind = "error" THEN "failed" ELSE "closed"
                 ELSE core[p].state,
       backpressured |-> core[p].backpressured /\ (Ended(p) \/ ~Edge(p))]

PolledTransport(p) ==
  IF core[p].state \in {"open", "closing"}
  THEN [transport[p] EXCEPT !.inbox = <<>>,
          !.flow = IF Ended(p) THEN @ ELSE Flow(@, transport[p].used)]
  ELSE transport[p]

\* dispatch_readable, in the order the port map gives, at the head of a dispatch.
DispatchReadable ==
  /\ \E order \in SetToSeqs(Connection) :
       LET Upto[n \in 0 .. LastPort] ==
             IF n = 0 THEN events ELSE Upto[n - 1] \o Poll(order[n])
       IN  events' = Upto[LastPort]
  /\ core' = [p \in Connection |-> PolledPort(p)]
  /\ transport' = [p \in Connection |-> PolledTransport(p)]

\* The dispatch timer; without a binding it does nothing.
Tick ==
  /\ pc = "idle" /\ document # 0
  /\ DispatchReadable
  /\ pc' = IF events' = <<>> THEN "idle" ELSE "dispatching"
  /\ UNCHANGED <<document, generation, script, given, heard>>

\* require_port of a handle the script holds.
RequirePort(p, open) ==
  /\ document # 0 /\ Attached(p)
  /\ open => core[p].state = "open"

(***************************************************************************)
(* The script's calls, between two ticks or from inside a handler.         *)
(***************************************************************************)

Connect(p) ==
  /\ document # 0 /\ ~Attached(p)
  /\ \A q \in 1 .. p - 1 : Attached(q)
  /\ core' = [core EXCEPT ![p] = OpenPort]
  /\ script' = [script EXCEPT ![p] = OpenScript]
  /\ UNCHANGED <<document, generation, events, transport, pc, given, heard>>

\* postMessage of a message the ring takes: the core and the script keep the
\* disposition of the last send that succeeded.
PostMessage(p) ==
  LET ring == transport[p]
      full == Flow(FALSE, ring.used + 1)
  IN  /\ script[p].state = "open" /\ RequirePort(p, TRUE)
      /\ ring.posted < LastPost[p]
      /\ ~Flow(ring.flow, ring.used) /\ ring.used < Capacity
      /\ transport' = [transport EXCEPT
           ![p] = [ring EXCEPT !.used = @ + 1, !.flow = full, !.posted = @ + 1]]
      /\ core' = [core EXCEPT ![p].backpressured = full]
      /\ script' = [script EXCEPT
           ![p] = [@ EXCEPT !.backpressured = full, !.bufferedAmount = ring.used + 1]]
      /\ UNCHANGED <<document, generation, events, pc, given, heard>>

\* postMessage throws: Backpressured, which observes the flow, or Closed.
PostRefused(p) ==
  LET ring == transport[p]
  IN  /\ script[p].state = "open"
      /\ \/ /\ core[p].state = "open"
            /\ Flow(ring.flow, ring.used) \/ ring.used >= Capacity
            /\ transport' = [transport EXCEPT ![p].flow = Flow(@, ring.used)]
         \/ ~RequirePort(p, TRUE) /\ UNCHANGED transport
      /\ UNCHANGED <<document, generation, core, events, script, pc, given, heard>>

\* writable(): a promise is pending unless the port looks drained to the script.
\* One pending promise stands for any number of them: all settle together.
AskWritable(p) ==
  /\ script[p].state = "open" /\ script[p].waiters = 0
  /\ script[p].backpressured \/ script[p].bufferedAmount # 0
  /\ script' = [script EXCEPT ![p].waiters = 1]
  /\ UNCHANGED <<document, generation, core, events, transport, pc, given, heard>>

\* close(): RendererCore closes an open port's transport, and ends the port with
\* an error of its own when that fails.
Close(p) ==
  /\ script[p].state = "open" /\ RequirePort(p, FALSE)
  /\ script' = [script EXCEPT ![p].state = "closing"]
  /\ \/ /\ core[p].state = "open"
        /\ core' = [core EXCEPT ![p].state = "closing"]
        /\ UNCHANGED events
     \/ /\ core[p].state = "open"
        /\ core' = [core EXCEPT ![p].state = "failed"]
        /\ events' = Append(events, Queued(p, [kind |-> "error", id |-> 0]))
     \/ core[p].state # "open" /\ UNCHANGED <<core, events>>
  /\ UNCHANGED <<document, generation, transport, pc, given, heard>>

(***************************************************************************)
(* An event is handed to the script.                                       *)
(***************************************************************************)

\* #onMessage, #onWritable and #finish: what becomes of the script's port.  The
\* binding sets bufferedAmount to 0 before it calls writable.
OnEvent(port, item) ==
  CASE item.kind = "message" -> port
    [] item.kind = "writable" ->
         IF port.state = "open" /\ (port.backpressured \/ port.waiters > 0)
         THEN [port EXCEPT !.backpressured = FALSE, !.waiters = 0, !.bufferedAmount = 0]
         ELSE [port EXCEPT !.bufferedAmount = 0]
    [] OTHER ->
         [port EXCEPT !.state = IF item.kind = "error" THEN "failed" ELSE "closed",
            !.backpressured = FALSE, !.waiters = 0, !.handler = FALSE]

\* The port's handler is there and has not finished the port.
Listens(port, item) ==
  port.handler /\ port.state \notin Terminal /\ item.kind # "writable"

\* Mutant: an exception drops what is still queued.
DroppedOnThrow(throws) == IF throws THEN <<>> ELSE Tail(events)

\* JscBinding::dispatch pops an event before it calls the handler; an exception
\* ends the dispatch, and the rest waits for the next tick.
Remaining(throws) == Tail(events)

HandOut ==
  LET p == Head(events).port
      item == Head(events).item
  IN  /\ pc = "dispatching"
      /\ script' = [script EXCEPT
           ![p] = IF @.handler THEN OnEvent(@, item) ELSE @]
      /\ heard' = [heard EXCEPT
           ![p] = IF Listens(script[p], item) THEN Append(@, item) ELSE @]
      /\ \E throws \in BOOLEAN :
           /\ events' = Remaining(throws)
           /\ pc' = IF throws \/ events' = <<>> THEN "idle" ELSE "dispatching"
      /\ UNCHANGED <<document, generation, core, transport, given>>

-----------------------------------------------------------------------------
Shim == DidClearWindowObject \/ WillDestroyPage

Script(p) ==
  Connect(p) \/ PostMessage(p) \/ PostRefused(p) \/ AskWritable(p) \/ Close(p)

Peer(p) == PeerSends(p) \/ PeerEnds(p) \/ PeerTakes(p)

Next == Shim \/ Tick \/ HandOut \/ \E p \in Connection : Script(p) \/ Peer(p)

Spec == Init /\ [][Next]_vars

\* The timer fires again and again, a dispatch goes on, and the peer reads.
FairSpec ==
  /\ Spec
  /\ SF_vars(Tick) /\ WF_vars(HandOut)
  /\ \A p \in Connection : WF_vars(PeerTakes(p))

-----------------------------------------------------------------------------
ItemOf == [kind : {"message", "writable"} \cup Endings, id : Nat]

DocumentsTypeOK ==
  /\ document \in 0 .. LastDocument /\ generation \in 1 .. LastDocument + 1
  /\ core \in [Connection -> [state : {"none", "open", "closing"} \cup Terminal,
                              backpressured : BOOLEAN]]
  /\ events \in Seq([port : Connection, item : ItemOf])
  /\ \A p \in Connection : transport[p].used \in 0 .. Capacity
  /\ pc \in {"idle", "dispatching"}

\* What a queue holds for p of messages and endings.
ItemsFor(p, queue) ==
  LET Upto[n \in 0 .. Len(queue)] ==
        IF n = 0 THEN <<>>
        ELSE IF queue[n].port = p /\ queue[n].item.kind # "writable"
             THEN Append(Upto[n - 1], queue[n].item)
        ELSE Upto[n - 1]
  IN  Upto[Len(queue)]

Waiting(p) == ItemsFor(p, events)

\* Whatever the script calls from its handlers, and whichever of them throw, it
\* hears every message of a live connection once and in order, and of one that is
\* over a prefix of them and then its one ending (RendererCore::poll_port,
\* JscBinding::dispatch, NativeMessagePort).
HeardInOrder ==
  \A p \in Connection :
    LET items == heard[p] \o Waiting(p)
    IN  IF core[p].state \in Terminal
        THEN /\ items # <<>> /\ Last(items).kind \in Endings
             /\ IsPrefix(Front(items), given[p])
             /\ \A i \in 1 .. Len(items) - 1 : items[i].kind = "message"
        ELSE items \o transport[p].inbox = given[p]

Over(p) == Attached(p) /\ (Ended(p) \/ core[p].state \in Terminal)

\* The ending of a connection reaches the script, unless its document goes first
\* (the dispatch timer of the bundle shim).
EndingIsHeard ==
  \A p \in Connection : Over(p) ~> (~Attached(p) \/ script[p].state \in Terminal)

\* A promise of writable() settles.  It does not: any bytes still buffered leave
\* it pending, and only an edge after backpressure, or an ending, settles it
\* (NativeMessagePort::writable, RendererCore::poll_port).
WritableSettles ==
  \A p \in Connection : (script[p].waiters > 0) ~> (script[p].waiters = 0)
=============================================================================
