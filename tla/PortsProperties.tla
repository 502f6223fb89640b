-------------------------- MODULE PortsProperties --------------------------
(***************************************************************************)
(* What the two ports of a generation guarantee to their applications.     *)
(***************************************************************************)
EXTENDS Ports

Frame == [kind : FrameKinds, counter : 0 .. Exhausted, id : 0 .. Exhausted]

\* What opens into a frame for the port.
OpenedFrame == {frame \in Frame : frame.kind # "end"}

Steps == {"idle", "ending", "dispatching", "yielding", "yielding in close", "resetting"}

ChannelTypeOK ==
  /\ ring \in [Port -> Seq(Frame)] /\ sent \in [Port -> Seq(Frame)]
  /\ flow \in [Port -> BOOLEAN]
  /\ localClosed \in [Port -> BOOLEAN] /\ remoteClosed \in [Port -> BOOLEAN]
  /\ sealer \in [Port -> 0 .. Exhausted] /\ opener \in [Port -> 0 .. Exhausted]

Event == [kind : {"message", "closed", "error"}, id : 0 .. Exhausted]

PortTypeOK ==
  /\ state \in [Port -> {"open", "closing", "closed", "failed"}]
  /\ pc \in [Port -> Steps]
  /\ backpressured \in BOOLEAN /\ transportClosed \in BOOLEAN
  /\ pendingInbound \in Seq(OpenedFrame) /\ inboundEnded \in BOOLEAN
  /\ got \in [Port -> Seq(Event)]
  /\ faulted \in [Port -> BOOLEAN]

\* Every variable stays in its type.
TypeOK == ChannelTypeOK /\ PortTypeOK

\* The documentation of the frame protection: a counter is spent exactly when
\* its frame is published, so refusals leave no gap and no nonce is used twice,
\* also when the notification fails after the publication.
CountersAreSpentOnce ==
  \A p \in Port : \A i \in DOMAIN sent[p] : sent[p][i].counter = i - 1

Terminal == {"closed", "error"}

\* A port hands on the frames of the other one in order, each once and none
\* after a lost one, whatever failed before; what the native port has set aside
\* comes next.
DeliveredInOrder ==
  /\ \A p \in Port : \A i \in DOMAIN got[p] :
       got[p][i].id = i \/ (got[p][i].id = 0 /\ got[p][i].kind \in Terminal)
  /\ \A i \in DOMAIN pendingInbound : pendingInbound[i].id = Len(got["native"]) + i

InFlight(p) == SelectSeq(ring[p], LAMBDA frame : frame.kind # "end")

\* The application of a port sees one terminal event, and nothing after it.
OneTerminalEvent ==
  \A p \in Port : \A i \in DOMAIN got[p] : got[p][i].kind \in Terminal => i = Len(got[p])

Over(p) == state[p] \in {"closed", "failed"}

\* Once the native port has closed its channel, the renderer learns of an end.
NativeCloseIsSeen == localClosed["native"] ~> Over("renderer")

\* Once the renderer's close has completed, the native port does not stay open,
\* unless a call of it failed, which may have cost it the close frame.
RendererCloseIsSeen ==
  (transportClosed /\ state["renderer"] = "closing")
    ~> (Over("native") \/ faulted["native"])

\* Backpressure a send reported to the renderer ends, in a writable event or in
\* a later accepted send, as long as no port is over and no call failed: no
\* edge is lost to the observations that sends make themselves.
BackpressureEnds ==
  backpressured ~> (~backpressured \/ \E p \in Port : Over(p) \/ faulted[p])

\* RendererCore promises of close that it "queues exactly one close event".  Not
\* so when the native close found no room for its end record: nothing sends it.
CloseIsReported == (state["renderer"] = "closing") ~> Over("renderer")
=============================================================================
