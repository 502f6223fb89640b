------------------------------ MODULE MCPorts ------------------------------
(***************************************************************************)
(* Frame protection under the ports of one generation, over the channel    *)
(* they have, and on its own among endpoints of two generations, over a    *)
(* link that keeps nothing of a channel's promises: link says which.       *)
(***************************************************************************)
EXTENDS PortsProperties, FrameProtection

VARIABLE link

\* A payload or close frame with its protection, and the channel's last record.
Cells == [data |-> 7, close |-> 7, end |-> 3]

Endpoint(generation, role) ==
  [secret |-> "secret", session |-> "session", generation |-> generation, role |-> role]

\* Both endpoints of one generation, and one that its replacement has.
Parties == {Endpoint(1, "renderer"), Endpoint(1, "peer"), Endpoint(2, "renderer")}

MCInit == Init /\ ProtectionInit /\ link \in {"channel", "any"}

MCNext ==
  \/ link = "channel" /\ Next /\ UNCHANGED <<protectionParts, link>>
  \/ link = "any" /\ ProtectionNext /\ UNCHANGED <<vars, link>>

\* Fairness is Ports', for the ports' part.
OverChannel(action) == action /\ link = "channel" /\ UNCHANGED <<protectionParts, link>>

MCSpec ==
  /\ MCInit /\ [][MCNext]_<<vars, protectionParts, link>>
  /\ WF_vars(OverChannel(RendererEnd \/ RendererTurn))
  /\ SF_vars(OverChannel(RendererDispatch))
  /\ WF_vars(OverChannel(NativeYield \/ NativeEnd))
  /\ SF_vars(OverChannel(NativeReceive))
  /\ WF_vars(OverChannel(ReleaseFailed))
=============================================================================
