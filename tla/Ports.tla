------------------------------- MODULE Ports -------------------------------
(***************************************************************************)
(* The two ports of one generation: the renderer's (RendererCore over      *)
(* MacosRendererTransport) and the native peer's (NativePort over          *)
(* MacosEndpointTransport), each sealing and opening frames over its end   *)
(* of a channel.  One call of the channel is one step here, module Channel *)
(* breaks it up; a port's call is broken between its channel calls.        *)
(***************************************************************************)
EXTENDS FlowControl, SequencesExt

CONSTANTS
  FrameCells,   \* cells a frame of each kind takes in a ring
  Exhausted,    \* number of frame counters; the counter that is not there
  Faulty        \* ports whose notifications may fail

Port == {"renderer", "native"}
Other(p) == CHOOSE q \in Port : q # p

\* A payload, the marker of a graceful close, and the channel's own last record.
FrameKinds == {"data", "close", "end"}

ASSUME PortsAssumption ==
  /\ FrameCells \in [FrameKinds -> 1 .. Capacity]
  /\ Exhausted \in Nat \ {0}
  /\ Faulty \subseteq Port

VARIABLES
  ring,            \* ring[p]: frames published by p and not taken yet
  flow,            \* FlowControl flag of p
  localClosed, remoteClosed,  \* ChannelEndpoint flags
  sealer, opener,  \* FrameSealer::next_counter, FrameOpener::expected_counter
  state,           \* PortState of p
  pc,              \* where the call under way at p stands
  backpressured,   \* the renderer port's flag
  transportClosed, \* MacosRendererTransport::closed
  pendingInbound,  \* frames the native transport set aside
  inboundEnded,    \* MacosEndpointTransport::remote_closed, native side
  sent,            \* history: frames p published
  got,             \* history: events p handed to its application
  faulted          \* history: a call at p returned a failure

channelVars == <<ring, flow, localClosed, remoteClosed>>
protectionVars == <<sealer, opener, sent>>
rendererVars == <<backpressured, transportClosed>>
nativeVars == <<pendingInbound, inboundEnded>>
vars == <<channelVars, protectionVars, rendererVars, nativeVars, state, pc, got, faulted>>

\* Nothing has come and nothing is left to do.
NoFrame == [kind |-> "none", counter |-> 0, id |-> 0]

Used(p) == FoldLeft(LAMBDA cells, frame : cells + FrameCells[frame.kind], 0, ring[p])

Fits(p, kind) == Used(p) + FrameCells[kind] <= Capacity

Init ==
  /\ ring = [p \in Port |-> <<>>]
  /\ flow = [p \in Port |-> FALSE]
  /\ localClosed = [p \in Port |-> FALSE]
  /\ remoteClosed = [p \in Port |-> FALSE]
  /\ sealer = [p \in Port |-> 0]
  /\ opener = [p \in Port |-> 0]
  /\ state = [p \in Port |-> "open"]
  /\ pc = [p \in Port |-> "idle"]
  /\ backpressured = FALSE
  /\ transportClosed = FALSE
  /\ pendingInbound = <<>>
  /\ inboundEnded = FALSE
  /\ sent = [p \in Port |-> <<>>]
  /\ got = [p \in Port |-> <<>>]
  /\ faulted = [p \in Port |-> FALSE]

(***************************************************************************)
(* Frames: send_frame seals, publishes, commits the counter and only then  *)
(* looks at the notification; poll_channel takes a frame and opens it.     *)
(***************************************************************************)

\* A hint is posted for a ring that was empty, and posting may fail.
HintFails(p) == p \in Faulty /\ ring[p] = <<>>

\* Mutant: a counter is committed only by a send that succeeded altogether.
CommittedOnSuccess(p, result) == IF result = "sent" THEN sealer[p] + 1 ELSE sealer[p]

\* PendingProtectedFrame::commit, once the frame is published.
Committed(p, result) == sealer[p] + 1

CountersLeft(p) == sealer[p] # Exhausted

Publish(p, kind, result) ==
  /\ CountersLeft(p) /\ ~localClosed[p] /\ ~remoteClosed[p]
  /\ ~Flow(flow[p], Used(p)) /\ Fits(p, kind)
  /\ result \in {"sent"} \cup {failure \in {"failed"} : HintFails(p)}
  /\ LET frame == [kind |-> kind, counter |-> sealer[p], id |-> Len(sent[p]) + 1]
     IN  /\ ring' = [ring EXCEPT ![p] = Append(@, frame)]
         /\ sent' = [sent EXCEPT ![p] = Append(@, frame)]
  /\ flow' = [flow EXCEPT ![p] = Flow(FALSE, Used(p) + FrameCells[kind])]
  /\ sealer' = [sealer EXCEPT ![p] = Committed(p, result)]

\* Backpressured, by the watermark or for room; the sealed frame is dropped.
Refuse(p, kind, result) ==
  /\ CountersLeft(p) /\ ~localClosed[p] /\ ~remoteClosed[p]
  /\ Flow(flow[p], Used(p)) \/ ~Fits(p, kind)
  /\ result = "refused"
  /\ flow' = [flow EXCEPT ![p] = Flow(@, Used(p))]
  /\ UNCHANGED <<ring, sealer, sent>>

\* The counters are used up, or one side has ended the channel.
Reject(p, result) ==
  /\ ~CountersLeft(p) \/ localClosed[p] \/ remoteClosed[p]
  /\ result = "failed"
  /\ UNCHANGED <<ring, flow, sealer, sent>>

SendFrame(p, kind, result) ==
  /\ Publish(p, kind, result) \/ Refuse(p, kind, result) \/ Reject(p, result)
  /\ UNCHANGED <<localClosed, remoteClosed, opener>>

\* ChannelEndpoint::close and reset ask neither the counters nor the watermark.
EndChannel(p, result) ==
  /\ \/ /\ ~localClosed[p] /\ Fits(p, "end")
        /\ result \in {"sent"} \cup {failure \in {"failed"} : HintFails(p)}
        /\ ring' = [ring EXCEPT ![p] = Append(@, [NoFrame EXCEPT !.kind = "end"])]
        /\ localClosed' = [localClosed EXCEPT ![p] = TRUE]
     \/ /\ localClosed[p] \/ ~Fits(p, "end")
        /\ result = "failed"
        /\ UNCHANGED <<ring, localClosed>>
  /\ UNCHANGED <<flow, remoteClosed, protectionVars>>

\* Mutant: any counter not below the expected one is accepted.
OpensLater(p, frame) == frame.counter >= opener[p]

\* FrameOpener::open accepts exactly the next counter.
Opens(p, frame) == opener[p] # Exhausted /\ frame.counter = opener[p]

\* A frame leaves the ring; it is lost with the error when the notification of
\* its producer fails or its counter is not the next one.
TakeFrame(p, frame, result) ==
  /\ ring[Other(p)] # <<>> /\ frame = Head(ring[Other(p)])
  /\ ring' = [ring EXCEPT ![Other(p)] = Tail(@)]
  /\ remoteClosed' = [remoteClosed EXCEPT ![p] = @ \/ frame.kind = "end"]
  /\ \/ /\ p \in Faulty /\ result = "failed"
        /\ UNCHANGED opener
     \/ /\ frame.kind = "end" /\ result = "end"
        /\ UNCHANGED opener
     \/ /\ frame.kind # "end" /\ Opens(p, frame) /\ result = frame.kind
        /\ opener' = [opener EXCEPT ![p] = frame.counter + 1]
     \/ /\ frame.kind # "end" /\ ~Opens(p, frame) /\ result = "failed"
        /\ UNCHANGED opener
  /\ UNCHANGED flow

\* Nothing to take: the flow is observed, and its writable edge returned.
ObserveFlow(p, frame, result) ==
  /\ ring[Other(p)] = <<>> /\ frame = NoFrame
  /\ result = IF BecameWritable(flow[p], Used(p)) THEN "writable" ELSE "none"
  /\ flow' = [flow EXCEPT ![p] = Flow(@, Used(p))]
  /\ UNCHANGED <<ring, remoteClosed, opener>>

PollChannel(p, frame, result) ==
  /\ TakeFrame(p, frame, result) \/ ObserveFlow(p, frame, result)
  /\ UNCHANGED <<localClosed, sealer, sent>>

\* Every result of a channel call, and every frame a poll may meet.
Results == {"sent", "refused", "failed", "data", "close", "end", "writable", "none"}

Arriving(p) == {NoFrame} \cup (IF ring[Other(p)] = <<>> THEN {} ELSE {Head(ring[Other(p)])})

Fault(p, result) == faulted' = [faulted EXCEPT ![p] = @ \/ result = "failed"]

Hand(p, kind, frame) ==
  got' = [got EXCEPT ![p] = Append(@, [kind |-> kind, id |-> frame.id])]

(***************************************************************************)
(* The renderer's port.                                                    *)
(***************************************************************************)

\* RendererCore::finish: the one terminal event, and the state it leaves.
Finish(kind, frame) ==
  /\ Hand("renderer", kind, frame)
  /\ state' = [state EXCEPT !["renderer"] = IF kind = "error" THEN "failed" ELSE "closed"]

At(p, step) == pc' = [pc EXCEPT ![p] = step]

\* The flag after a send: what the disposition of a send that succeeded says.
Marked(result) ==
  IF result = "sent" THEN Used("renderer")' >= High ELSE backpressured

RendererSend ==
  /\ pc["renderer"] = "idle" /\ state["renderer"] = "open"
  /\ \E result \in Results :
       /\ SendFrame("renderer", "data", result)
       /\ backpressured' = Marked(result)
       /\ Fault("renderer", result)
  /\ UNCHANGED <<nativeVars, transportClosed, state, pc, got>>

\* RendererCore::close begins: the close frame, and an error ends the port.
RendererClose ==
  /\ pc["renderer"] = "idle" /\ state["renderer"] = "open"
  /\ \E result \in Results :
       /\ SendFrame("renderer", "close", result)
       /\ IF result = "sent"
          THEN /\ At("renderer", "ending")
               /\ state' = [state EXCEPT !["renderer"] = "closing"]
               /\ UNCHANGED got
          ELSE /\ Finish("error", NoFrame)
               /\ UNCHANGED pc
       /\ Fault("renderer", result)
  /\ UNCHANGED <<rendererVars, nativeVars>>

\* ... and the channel's close behind it.
RendererEnd ==
  /\ pc["renderer"] = "ending"
  /\ \E result \in Results :
       /\ EndChannel("renderer", result)
       /\ IF result = "sent"
          THEN transportClosed' = TRUE /\ UNCHANGED <<state, got>>
          ELSE Finish("error", NoFrame) /\ UNCHANGED transportClosed
       /\ Fault("renderer", result)
  /\ At("renderer", "idle")
  /\ UNCHANGED <<backpressured, nativeVars>>

\* poll_port returns at once for a terminal port.
Polled == state["renderer"] \in {"open", "closing"}

\* dispatch_readable polls until nothing comes or the port is over.
RendererDispatch ==
  /\ pc["renderer"] = "idle" /\ Polled
  /\ At("renderer", "dispatching")
  /\ UNCHANGED <<channelVars, protectionVars, rendererVars, nativeVars, state, got, faulted>>

\* Mutant: only the close frame ends the port.
EndingsByFrame == {"close"}

\* What MacosRendererTransport::poll turns into a closed event.
Endings == {"close", "end"}

\* One turn of poll_port.
RendererTurn ==
  /\ pc["renderer"] = "dispatching"
  /\ \E frame \in Arriving("renderer"), result \in Results :
       /\ PollChannel("renderer", frame, result)
       /\ \/ /\ result = "data" /\ Hand("renderer", "message", frame)
             /\ UNCHANGED <<state, rendererVars>>
          \/ /\ result = "writable" /\ backpressured' = FALSE
             /\ UNCHANGED <<state, got, transportClosed>>
          \/ /\ result \in Endings /\ Finish("closed", frame)
             /\ transportClosed' = TRUE /\ UNCHANGED backpressured
          \/ /\ result = "failed" /\ Finish("error", NoFrame)
             /\ UNCHANGED rendererVars
          \/ /\ result \notin Endings \cup {"data", "writable", "failed"}
             /\ UNCHANGED <<state, got, rendererVars>>
       /\ At("renderer", IF result \in {"data", "writable"} THEN "dispatching" ELSE "idle")
       /\ Fault("renderer", result)
  /\ UNCHANGED nativeVars

(***************************************************************************)
(* The native peer's port.                                                 *)
(***************************************************************************)

Fails(result) ==
  state' = [state EXCEPT !["native"] = IF result = "failed" THEN "failed" ELSE @]

\* try_send: a refused frame is followed by one poll before the error returns.
NativeSend ==
  /\ pc["native"] = "idle" /\ state["native"] = "open"
  /\ \E result \in Results :
       /\ SendFrame("native", "data", result)
       /\ Fails(result)
       /\ At("native", IF result = "refused" THEN "yielding" ELSE "idle")
       /\ Fault("native", result)
  /\ UNCHANGED <<rendererVars, nativeVars, got>>

\* Mutant: a close frame met by that poll is taken for the end of the channel.
SetAsideData(frame, result) ==
  IF result = "data" THEN Append(pendingInbound, frame) ELSE pendingInbound

\* What the poll of a refused send leaves for the next receive.
SetAside(frame, result) ==
  IF result \in {"data", "close"} THEN Append(pendingInbound, frame) ELSE pendingInbound

\* That poll: a writable edge it returns is dropped, and its error is the
\* call's; try_send then fails the port, close does not.
NativeYield ==
  /\ pc["native"] \in {"yielding", "yielding in close"}
  /\ \E frame \in Arriving("native"), result \in Results :
       /\ PollChannel("native", frame, result)
       /\ pendingInbound' = SetAside(frame, result)
       /\ inboundEnded' = (inboundEnded \/ result = "end")
       /\ IF pc["native"] = "yielding" THEN Fails(result) ELSE UNCHANGED state
       /\ Fault("native", result)
  /\ At("native", "idle")
  /\ UNCHANGED <<rendererVars, got>>

\* The port takes a frame: a payload is handed on, a close frame also closes
\* the port and its transport.
NativeTakes(frame, result) ==
  /\ Hand("native", IF result = "close" THEN "closed" ELSE "message", frame)
  /\ state' = [state EXCEPT !["native"] = IF result = "close" THEN "closed" ELSE @]
  /\ At("native", IF result = "close" THEN "ending" ELSE "idle")

ReceiveSetAside ==
  /\ pc["native"] = "idle" /\ state["native"] = "open"
  /\ pendingInbound # <<>>
  /\ NativeTakes(Head(pendingInbound), Head(pendingInbound).kind)
  /\ pendingInbound' = Tail(pendingInbound)
  /\ UNCHANGED <<channelVars, protectionVars, rendererVars, inboundEnded, faulted>>

\* try_receive with nothing set aside.
ReceivePolled ==
  /\ pc["native"] = "idle" /\ state["native"] = "open"
  /\ pendingInbound = <<>> /\ ~inboundEnded
  /\ \E frame \in Arriving("native"), result \in Results :
       /\ PollChannel("native", frame, result)
       /\ inboundEnded' = (result = "end")
       /\ IF result \in {"data", "close"}
          THEN NativeTakes(frame, result)
          ELSE Fails(result) /\ UNCHANGED <<got, pc>>
       /\ Fault("native", result)
  /\ UNCHANGED <<rendererVars, pendingInbound>>

NativeReceive == ReceiveSetAside \/ ReceivePolled

\* NativePort::close: an open port sends its close frame first and keeps its
\* state when that fails; a failed one only releases the transport.
NativeClose ==
  /\ pc["native"] = "idle" /\ state["native"] # "closed"
  /\ IF state["native"] = "open"
     THEN \E result \in Results :
            /\ SendFrame("native", "close", result)
            /\ At("native", IF result = "sent" THEN "ending"
                            ELSE IF result = "refused" THEN "yielding in close" ELSE "idle")
            /\ Fault("native", result)
     ELSE /\ At("native", "ending")
          /\ UNCHANGED <<channelVars, protectionVars, faulted>>
  /\ UNCHANGED <<rendererVars, nativeVars, state, got>>

\* The last event, reported as the failure it ended in.
InError(events) ==
  [events EXCEPT ![Len(events)] = [kind |-> "error", id |-> events[Len(events)].id]]

\* MacosEndpointTransport::close: the channel's close, else its reset.  When that
\* fails too, a receive that met the close frame returns the failure instead.
NativeEnd ==
  /\ pc["native"] \in {"ending", "resetting"}
  /\ \E result \in Results :
       /\ EndChannel("native", result)
       /\ IF result = "sent"
          THEN /\ state' = [state EXCEPT !["native"] = "closed"]
               /\ At("native", "idle")
               /\ UNCHANGED <<got, faulted>>
          ELSE /\ At("native", IF pc["native"] = "ending" THEN "resetting" ELSE "idle")
               /\ faulted' = [faulted EXCEPT !["native"] = @ \/ pc["native"] = "resetting"]
               /\ got' = IF pc["native"] = "resetting" /\ state["native"] = "closed"
                         THEN [got EXCEPT !["native"] = InError(@)]
                         ELSE got
               /\ UNCHANGED state
  /\ UNCHANGED <<rendererVars, nativeVars>>

-----------------------------------------------------------------------------
Renderer == RendererSend \/ RendererClose \/ RendererEnd \/ RendererDispatch \/ RendererTurn

Native == NativeSend \/ NativeYield \/ NativeReceive \/ NativeClose \/ NativeEnd

Next == Renderer \/ Native

Spec == Init /\ [][Next]_vars

ReleaseFailed == state["native"] = "failed" /\ NativeClose

\* A call goes on, the renderer's thread dispatches again and again, and the
\* native application returns to receiving however often it sends, and closes a
\* port that has failed.
FairSpec ==
  /\ Spec
  /\ WF_vars(RendererEnd \/ RendererTurn) /\ SF_vars(RendererDispatch)
  /\ WF_vars(NativeYield \/ NativeEnd) /\ SF_vars(NativeReceive)
  /\ WF_vars(ReleaseFailed)
=============================================================================
