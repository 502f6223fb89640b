---------------------------- MODULE SessionState ----------------------------
(***************************************************************************)
(* The canonical transition table of one session generation: nwipc-state.  *)
(***************************************************************************)

State == {"Created", "Preparing", "WaitingForRenderer", "WaitingForPeer",
          "Handshaking", "Open", "Draining", "Disconnected", "Failed", "Closed"}

\* Mutant: a failed generation still accepts events.
TerminalClosedOnly == {"Closed"}

\* SessionState::is_terminal
Terminal == {"Failed", "Closed"}

\* SessionState::can_replace
Replaceable == Terminal \cup {"Disconnected"}

\* SessionState::transition, as triples of a state, an event and the next state.
Transitions ==
  { <<"Created", "Prepare", "Preparing">>,
    <<"Preparing", "ResourcesReady", "WaitingForRenderer">>,
    <<"WaitingForRenderer", "RendererReady", "WaitingForPeer">>,
    <<"WaitingForPeer", "PeerReady", "Handshaking">>,
    <<"Handshaking", "HandshakeComplete", "Open">>,
    <<"Open", "BeginDrain", "Draining">>,
    <<"Draining", "Close", "Closed">>,
    <<"Disconnected", "Close", "Closed">> }
  \cup {<<state, "Disconnect", "Disconnected">> :
          state \in {"WaitingForRenderer", "WaitingForPeer", "Handshaking", "Open", "Draining"}}
  \cup {<<state, "Fail", "Failed">> : state \in State \ Terminal}

\* transition(event) returns Ok(next).
Moves(state, event, next) == <<state, event, next>> \in Transitions
=============================================================================
