---------------------------- MODULE HostRegistry ----------------------------
(***************************************************************************)
(* nwipc-macos-host under the adapters nwipc-wry and nwipc-tauri: the host *)
(* keeps one generation and state per session, the adapter a session and a *)
(* generation per window.  An adapter call holds the adapter's lock, so it *)
(* is one step; a call under a generation that is not the window's, or for *)
(* an unknown window, changes nothing and is no step.                      *)
(***************************************************************************)
EXTENDS Integers, SessionState

CONSTANTS
  Windows,
  LastHosted   \* the generation that has no successor: Generation::checked_next is None

ASSUME HostAssumption == LastHosted \in Nat \ {0}

VARIABLES
  hosted,      \* hosted[s]: the HostedSession of session s
  windows      \* windows[w]: the session and generation an adapter maps w to

hostVars == <<hosted, windows>>

Unhosted == [generation |-> 0, state |-> "Created"]
Unmapped == [session |-> 0, generation |-> 0]

HostInit(sessionIds) ==
  /\ hosted = [s \in sessionIds |-> Unhosted]
  /\ windows = [w \in Windows |-> Unmapped]

\* A generation whose renderer is awaited.
Awaited(g) == [generation |-> g, state |-> "WaitingForRenderer"]

\* MacosHost::register refuses a session it already hosts.
Accepts(s) == hosted[s] = Unhosted

\* register, register_session, with_nwipc
Register(w, s, g) ==
  /\ windows[w] = Unmapped
  /\ Accepts(s)
  /\ hosted' = [hosted EXCEPT ![s] = Awaited(g)]
  /\ windows' = [windows EXCEPT ![w] = [session |-> s, generation |-> g]]

\* renderer_attached, under the window's generation
Attached(w) ==
  /\ windows[w] # Unmapped
  /\ \E next \in State :
       /\ Moves(hosted[windows[w].session].state, "RendererReady", next)
       /\ hosted' = [hosted EXCEPT ![windows[w].session].state = next]
  /\ UNCHANGED windows

\* Mutant: the window keeps the generation that ended.
WindowKeeps(w) == windows

\* The window follows the generation the host has moved to.
WindowFollows(w) == [windows EXCEPT ![w].generation = @ + 1]

\* replace_renderer and unregister first move the session through Disconnected
\* to Closed, and return an error, with nothing changed, where it cannot be.
Disconnects(s) == Moves(hosted[s].state, "Disconnect", "Disconnected")

\* renderer_terminated, renderer_replaced, and the termination callback: the
\* host goes on to the next number by itself.
Terminated(w) ==
  /\ windows[w] # Unmapped
  /\ Disconnects(windows[w].session)
  /\ hosted[windows[w].session].generation < LastHosted
  /\ hosted' = [hosted EXCEPT ![windows[w].session] = Awaited(@.generation + 1)]
  /\ windows' = WindowFollows(w)

\* The same calls at the last number: the session is already Closed when
\* checked_next fails, and stays so under its old number.  No later call moves
\* it, so its window is never removed either.
Exhausted(w) ==
  /\ windows[w] # Unmapped
  /\ Disconnects(windows[w].session)
  /\ hosted[windows[w].session].generation >= LastHosted
  /\ hosted' = [hosted EXCEPT ![windows[w].session].state = "Closed"]
  /\ UNCHANGED windows

\* remove, remove_window, and the Tauri cleanup callbacks
Remove(w) ==
  /\ windows[w] # Unmapped
  /\ Disconnects(windows[w].session)
  /\ hosted' = [hosted EXCEPT ![windows[w].session] = Unhosted]
  /\ windows' = [windows EXCEPT ![w] = Unmapped]

HostStep(w) == Attached(w) \/ Terminated(w) \/ Exhausted(w) \/ Remove(w)

-----------------------------------------------------------------------------
Mapped == {w \in Windows : windows[w] # Unmapped}

\* An adapter and the host it drives keep two tables of the same thing, each
\* updated in its own line of every call: a hosted session has exactly one
\* window, and that window has the session's generation, so an event accepted
\* by the adapter is never refused by the host as stale.
OneWindowPerSession ==
  /\ \A w \in Mapped : hosted[windows[w].session].generation = windows[w].generation
  /\ \A v, w \in Mapped : windows[v].session = windows[w].session => v = w
  /\ \A s \in DOMAIN hosted : hosted[s] # Unhosted => \E w \in Mapped : windows[w].session = s
=============================================================================
