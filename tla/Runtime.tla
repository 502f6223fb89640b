------------------------------- MODULE Runtime -------------------------------
(***************************************************************************)
(* nwipc-runtime over nwipc-session-machine, nwipc-session and nwipc-state: *)
(* the registry of logical sessions, each with one active generation of    *)
(* resources.  The registry is behind &mut self, so a call is one step     *)
(* with everything it sets off; its callers (the two endpoints of every    *)
(* generation, and the host) hold handles that may be long replaced, and   *)
(* releasing or preparing resources may fail at any call.                  *)
(***************************************************************************)
EXTENDS Integers, SessionState

CONSTANTS
  LastSession,    \* u128::MAX, never issued because the next id must exist
  LastGeneration  \* u64::MAX, likewise

ASSUME IdentityAssumption ==
  LastSession \in Nat \ {0} /\ LastGeneration \in Nat \ {0}

Sessions == 1 .. LastSession - 1
Generations == 1 .. LastGeneration - 1

VARIABLES
  sessions,        \* sessions[s]: the Session the registry holds for s
  nextSession, nextGeneration,
  dropped,         \* the Runtime has been dropped
  acquired,        \* history: acquired[g]: preparations made under g
  released,        \* history: released[g]: releases of what g acquired
  ended,           \* history: generations that failed to prepare, were reported
                   \* ended under their own handle, or went with the runtime
  closed           \* history: generations whose close returned Ok

history == <<acquired, released, ended, closed>>
vars == <<sessions, nextSession, nextGeneration, dropped, history>>

EndpointStatus == {"Detached", "Attached", "Invalidated"}

Entry == [generation : Generations, state : State, renderer : EndpointStatus,
          peer : EndpointStatus, cleaned : BOOLEAN]

\* A session the registry does not hold; generation 0 is not a Generation.
Absent == [generation |-> 0, state |-> "Created", renderer |-> "Detached",
           peer |-> "Detached", cleaned |-> TRUE]

Init ==
  /\ sessions = [s \in Sessions |-> Absent]
  /\ nextSession = 1 /\ nextGeneration = 1
  /\ dropped = FALSE
  /\ acquired = [g \in Generations |-> 0]
  /\ released = [g \in Generations |-> 0]
  /\ ended = {} /\ closed = {}

(***************************************************************************)
(* One generation.                                                         *)
(***************************************************************************)

\* SessionMachine::prepare: the session that install_resources leaves.
Prepared(g) ==
  [generation |-> g, state |-> "WaitingForRenderer", renderer |-> "Detached",
   peer |-> "Detached", cleaned |-> FALSE]

\* Mutant: PreparedResources forgets that it has been cleaned.
ReleasesAgain(entry) == 1

\* Releases PreparedResources::cleanup makes: all of them, or none a second time.
Releases(entry) == IF entry.cleaned THEN 0 ELSE 1

\* Session::transition to a state, then Session::cleanup, whether it fails or not.
Cleaned(entry, state) ==
  [entry EXCEPT !.state = state, !.cleaned = TRUE,
                !.renderer = "Invalidated", !.peer = "Invalidated"]

\* Mutant: endpoints are invalidated and the resources forgotten.
ReleasedWithNothing(entry) == released

\* released after what entry owns has been cleaned up.
ReleasedWith(entry) ==
  [released EXCEPT ![entry.generation] = @ + Releases(entry)]

(***************************************************************************)
(* The registry.                                                           *)
(***************************************************************************)

\* active_entry_mut: the handle names the active generation.
Active(s, g) == ~dropped /\ sessions[s].generation = g

\* issue_generation, which fails at the last number.
CanIssue == nextGeneration < LastGeneration

\* Mutant: a number is handed out again.
GenerationAfterIssueKept == nextGeneration

\* issue_generation moves on before anything is prepared, so a failure spends the number.
GenerationAfterIssue == nextGeneration + 1

\* replace_session: a new generation is issued and prepared in the place of
\* entry, which insert drops; if either fails, entry stays and the number is spent.
ReplaceSession(s, entry, releasedSoFar, endedSoFar) ==
  \/ /\ CanIssue
     /\ sessions' = [sessions EXCEPT ![s] = Prepared(nextGeneration)]
     /\ nextGeneration' = GenerationAfterIssue
     /\ acquired' = [acquired EXCEPT ![nextGeneration] = @ + 1]
     /\ released' = [releasedSoFar EXCEPT ![entry.generation] = @ + Releases(entry)]
     /\ ended' = endedSoFar
  \/ /\ CanIssue
     /\ sessions' = [sessions EXCEPT ![s] = entry]
     /\ nextGeneration' = GenerationAfterIssue
     /\ acquired' = [acquired EXCEPT ![nextGeneration] = @ + 1]
     /\ released' = [releasedSoFar EXCEPT ![nextGeneration] = @ + 1]
     /\ ended' = endedSoFar \cup {nextGeneration}
  \/ /\ ~CanIssue
     /\ sessions' = [sessions EXCEPT ![s] = entry]
     /\ released' = releasedSoFar
     /\ ended' = endedSoFar
     /\ UNCHANGED <<nextGeneration, acquired>>

\* Runtime::create_session
CreateSession ==
  /\ ~dropped
  /\ nextSession < LastSession /\ CanIssue
  /\ nextSession' = nextSession + 1
  /\ nextGeneration' = GenerationAfterIssue
  /\ sessions' = [sessions EXCEPT ![nextSession] = Prepared(nextGeneration)]
  /\ acquired' = [acquired EXCEPT ![nextGeneration] = @ + 1]
  /\ UNCHANGED <<dropped, released, ended, closed>>

\* Its preparer fails: both identities are spent, and what it acquired is dropped.
CreateFails ==
  /\ ~dropped
  /\ nextSession < LastSession /\ CanIssue
  /\ nextSession' = nextSession + 1
  /\ nextGeneration' = GenerationAfterIssue
  /\ acquired' = [acquired EXCEPT ![nextGeneration] = @ + 1]
  /\ released' = [released EXCEPT ![nextGeneration] = @ + 1]
  /\ ended' = ended \cup {nextGeneration}
  /\ UNCHANGED <<sessions, dropped, closed>>

\* The generations are exhausted: the session identity is spent all the same.
CreateExhausted ==
  /\ ~dropped
  /\ nextSession < LastSession /\ ~CanIssue
  /\ nextSession' = nextSession + 1
  /\ UNCHANGED <<sessions, nextGeneration, dropped, history>>

\* An event that attaches an endpoint or ends the handshake.
Progress(s, g, entry) ==
  /\ Active(s, g)
  /\ sessions' = [sessions EXCEPT ![s] = entry]
  /\ UNCHANGED <<nextSession, nextGeneration, dropped, history>>

RendererAttached(s, g) ==
  \E next \in State :
    /\ Moves(sessions[s].state, "RendererReady", next)
    /\ Progress(s, g, [sessions[s] EXCEPT !.state = next, !.renderer = "Attached"])

PeerAttached(s, g) ==
  \E next \in State :
    /\ Moves(sessions[s].state, "PeerReady", next)
    /\ Progress(s, g, [sessions[s] EXCEPT !.state = next, !.peer = "Attached"])

HandshakeCompleted(s, g) ==
  \E next \in State :
    /\ Moves(sessions[s].state, "HandshakeComplete", next)
    /\ Progress(s, g, [sessions[s] EXCEPT !.state = next])

\* DocumentReplaced, RendererExited and PeerExited disconnect a generation, a
\* ProtocolViolation fails it: it is cleaned and replaced.
Invalidate(s, g, event) ==
  /\ Active(s, g) /\ sessions[s].state \notin Terminal
  /\ \E next \in State :
       /\ Moves(sessions[s].state, event, next)
       /\ ReplaceSession(s, Cleaned(sessions[s], next), ReleasedWith(sessions[s]),
                         ended \cup {g})
  /\ UNCHANGED <<nextSession, dropped, closed>>

\* A resource fails to release: the call ends there, with no replacement.
InvalidateFails(s, g, event) ==
  /\ Active(s, g) /\ sessions[s].state \notin Terminal
  /\ ~sessions[s].cleaned
  /\ \E next \in State :
       /\ Moves(sessions[s].state, event, next)
       /\ sessions' = [sessions EXCEPT ![s] = Cleaned(@, next)]
  /\ released' = ReleasedWith(sessions[s])
  /\ ended' = ended \cup {g}
  /\ UNCHANGED <<nextSession, nextGeneration, dropped, acquired, closed>>

\* Runtime::replace, the host's retry.
Replace(s) ==
  /\ ~dropped /\ sessions[s].generation # 0
  /\ sessions[s].state \in Replaceable
  /\ ReplaceSession(s, sessions[s], released, ended)
  /\ UNCHANGED <<nextSession, dropped, closed>>

\* States from which SessionMachine::close drains; in the others it fails the session.
Drains == {"Open", "Draining", "Disconnected"}

Close(s, g) ==
  /\ Active(s, g) /\ sessions[s].state \notin Terminal
  /\ LET next == IF sessions[s].state \in Drains THEN "Closed" ELSE "Failed"
     IN  sessions' = [sessions EXCEPT ![s] = Cleaned(@, next)]
  /\ released' = ReleasedWith(sessions[s])
  /\ ended' = ended \cup {g}
  /\ closed' = closed \cup {g}
  /\ UNCHANGED <<nextSession, nextGeneration, dropped, acquired>>

\* A resource fails to release: the session is left draining or failed.
CloseFails(s, g) ==
  /\ Active(s, g) /\ sessions[s].state \notin Terminal
  /\ ~sessions[s].cleaned
  /\ LET next == IF sessions[s].state \in Drains THEN "Draining" ELSE "Failed"
     IN  sessions' = [sessions EXCEPT ![s] = Cleaned(@, next)]
  /\ released' = ReleasedWith(sessions[s])
  /\ ended' = ended \cup {g}
  /\ UNCHANGED <<nextSession, nextGeneration, dropped, acquired, closed>>

\* Closing a terminal generation is Ok and does nothing.
CloseAgain(s, g) ==
  /\ Active(s, g) /\ sessions[s].state \in Terminal
  /\ closed' = closed \cup {g}
  /\ UNCHANGED <<sessions, nextSession, nextGeneration, dropped,
                 acquired, released, ended>>

\* The Runtime is dropped, and every Session with it.
DropRuntime ==
  /\ ~dropped
  /\ dropped' = TRUE
  /\ sessions' = [s \in Sessions |-> Absent]
  /\ released' = [g \in Generations |->
       released[g] + IF \E s \in Sessions : sessions[s].generation = g /\ ~sessions[s].cleaned
                     THEN 1 ELSE 0]
  /\ ended' = ended \cup {g \in Generations : \E s \in Sessions : sessions[s].generation = g}
  /\ UNCHANGED <<nextSession, nextGeneration, acquired, closed>>

-----------------------------------------------------------------------------
Route(s, g) ==
  \/ RendererAttached(s, g) \/ PeerAttached(s, g) \/ HandshakeCompleted(s, g)
  \/ \E event \in {"Disconnect", "Fail"} : Invalidate(s, g, event) \/ InvalidateFails(s, g, event)

\* Any handle that was ever issued may be used at any time.
Next ==
  \/ CreateSession \/ CreateFails \/ CreateExhausted \/ DropRuntime
  \/ \E s \in Sessions : Replace(s)
  \/ \E s \in Sessions, g \in Generations :
       Route(s, g) \/ Close(s, g) \/ CloseFails(s, g) \/ CloseAgain(s, g)

Spec == Init /\ [][Next]_vars

-----------------------------------------------------------------------------
\* Every variable stays in its type.
TypeOK ==
  /\ sessions \in [Sessions -> Entry \cup {Absent}]
  /\ nextSession \in 1 .. LastSession /\ nextGeneration \in 1 .. LastGeneration
  /\ dropped \in BOOLEAN
  /\ acquired \in [Generations -> Nat] /\ released \in [Generations -> Nat]
  /\ ended \subseteq Generations /\ closed \subseteq Generations

\* PreparedResources "releases every resource exactly once", and a generation
\* number is never prepared twice: whichever of an event, a close, a failed
\* release, a failed preparation and a drop come, what a number acquired is
\* released once, and the number is not used again.
ReleasedOnce ==
  \A g \in Generations : acquired[g] <= 1 /\ released[g] <= acquired[g]

Live == {"WaitingForRenderer", "WaitingForPeer", "Handshaking", "Open"}

Holds(s, g) ==
  /\ sessions[s].generation = g
  /\ sessions[s].state \in Live

\* Nothing leaks and nothing is used after its release: resources are held
\* exactly for the active generations that can still carry traffic.
HeldWhileLive ==
  \A g \in Generations :
    released[g] < acquired[g] <=> \E s \in Sessions : Holds(s, g)

\* A late event about a replaced generation takes nothing from the one that
\* replaced it: resources go only by an event under the handle they belong to.
EndedByOwnEvent ==
  \A g \in Generations : released[g] > 0 => g \in ended

\* When close has returned Ok, no later endpoint event brings the session back:
\* only the host's own replace does.
CloseIsFinal ==
  [][\A s \in Sessions :
       /\ sessions[s].generation \in closed
       /\ sessions'[s].generation \notin {0, sessions[s].generation}
       => Replace(s)]_vars

Leases == INSTANCE Lease
  WITH lease <- [s \in Sessions |-> IF sessions[s].state \in Live
                                    THEN sessions[s].generation ELSE 0],
       high <- nextGeneration - 1

\* Each session holds at most one generation at a time and each generation is
\* newer than every earlier one, whatever fails.
ImplementsLease == Leases!Spec
=============================================================================
