---------------------------- MODULE MCDocuments ----------------------------
(***************************************************************************)
(* A web content process takes the shim's own route to the binding, or the *)
(* one through an installed entrypoint: entry says which.                  *)
(***************************************************************************)
EXTENDS Documents, Bundle

VARIABLE entry

\* The first connection is used both ways, the second hears its peer only.
Messages == <<2, 0>>
Posts == <<2, 0>>

MCInit == Init /\ BundleInit /\ entry \in {"shim", "entrypoint"}

MCNext ==
  \/ entry = "shim" /\ Next /\ UNCHANGED <<bundleVars, entry>>
  \/ entry = "entrypoint" /\ BundleNext /\ UNCHANGED <<vars, entry>>

\* Fairness is Documents', for the shim's part.
OfShim(action) == action /\ entry = "shim" /\ UNCHANGED <<bundleVars, entry>>

MCSpec ==
  /\ MCInit /\ [][MCNext]_<<vars, bundleVars, entry>>
  /\ SF_vars(OfShim(Tick)) /\ WF_vars(OfShim(HandOut))
  /\ \A p \in Connection : WF_vars(OfShim(PeerTakes(p)))
=============================================================================
