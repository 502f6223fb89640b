------------------------------- MODULE Facade -------------------------------
(***************************************************************************)
(* The public facade nwipc: a Runtime whose preparer makes the transport's *)
(* regions and the two bootstrap envelopes, the Session handles it gives   *)
(* out, and the observations its diagnostics are built from; with it the   *)
(* host registry an application keeps beside it.  The facade is behind     *)
(* &mut self, so a call is a step.  Releasing a prepared transport cannot  *)
(* fail, and the facade routes three attachment events at once, a renderer *)
(* exit, and a close: it never retries a replacement.                      *)
(*   A process may also embed the runtime crate itself; then all of        *)
(* Runtime's steps are taken and there is no facade.  Beside a host        *)
(* registry only the calls that issue handles are taken: no other call of  *)
(* the facade changes what an adapter can be given.                        *)
(***************************************************************************)
EXTENDS Runtime, HostRegistry, FiniteSets

CONSTANT Retained   \* RETAINED_GENERATIONS_PER_SESSION

ASSUME RetainedAssumption == Retained \in Nat \ {0}

VARIABLES
  embedder,   \* what the process is made of, chosen once
  owner,      \* owner[g]: the session of the handle issued for g, 0 if none was
  envelopes,  \* generations whose handle still holds the renderer's bootstrap
  observed    \* observed[g]: the observation under g's key, or Unobserved

facadeVars == <<embedder, owner, envelopes, observed>>
allVars == <<vars, hostVars, facadeVars>>

Cleanup == {"Pending", "Complete", "Failed"}
Unobserved == [state |-> "Created", cleanup |-> "Pending"]
Fresh == [state |-> "WaitingForRenderer", cleanup |-> "Pending"]

FacadeInit ==
  /\ Init /\ HostInit(Sessions)
  /\ embedder \in {"runtime", "facade", "facade and host"}
  /\ owner = [g \in Generations |-> 0]
  /\ envelopes = {}
  /\ observed = [g \in Generations |-> Unobserved]

-----------------------------------------------------------------------------
\* Generations of s whose observation is kept.
Observed(s) == {g \in Generations : owner[g] = s /\ observed[g] # Unobserved}

\* Mutant: the newest are pruned.
NewestPruned(s, g) == {k \in Observed(s) : Cardinality({l \in Observed(s) : l < k}) >= Retained - 1}

\* What insert_observation removes when g is inserted: all but the latest.
Pruned(s, g) ==
  {k \in Observed(s) : Cardinality({l \in Observed(s) \cup {g} : l > k}) >= Retained}

\* insert_observation of a prepared generation into what is already observed.
Inserted(s, g, seen) ==
  [k \in Generations |-> IF k = g THEN Fresh ELSE IF k \in Pruned(s, g) THEN Unobserved ELSE seen[k]]

\* update_observation and observe_failure leave a generation that is not there alone.
Updated(g, state, cleanup) ==
  IF observed[g] = Unobserved THEN observed
  ELSE [observed EXCEPT ![g] = [state |-> state, cleanup |-> cleanup]]

CleanupFailed(g) ==
  IF observed[g] = Unobserved THEN observed
  ELSE [observed EXCEPT ![g].cleanup = "Failed"]

\* The Session returned for generation g of s.
Issued(s, g) ==
  /\ owner' = [owner EXCEPT ![g] = s]
  /\ envelopes' = envelopes \cup {g}

-----------------------------------------------------------------------------
\* Nwipc::create_session
FacadeCreate ==
  /\ CreateSession
  /\ Issued(nextSession, nextGeneration)
  /\ observed' = Inserted(nextSession, nextGeneration, observed)

\* The transport cannot be prepared, or an identity is exhausted.
FacadeCreateFails ==
  /\ CreateFails \/ CreateExhausted
  /\ UNCHANGED <<owner, envelopes, observed>>

\* Session::write_renderer_bootstrap: the envelope is taken whether the write
\* succeeds or not.  (The peer's is taken alike, and gates no other call.)
WriteBootstrap(g) ==
  /\ g \in envelopes
  /\ envelopes' = envelopes \ {g}
  /\ UNCHANGED <<vars, owner, observed>>

\* The three attachment events from the only state in which all are accepted.
Opened(s, g) ==
  /\ Active(s, g) /\ sessions[s].state = "WaitingForRenderer"
  /\ sessions' = [sessions EXCEPT ![s].state = "Open", ![s].renderer = "Attached",
                                  ![s].peer = "Attached"]
  /\ UNCHANGED <<nextSession, nextGeneration, dropped, history>>

\* The events on a session that is over: each is accepted and does nothing.
OpenedTooLate(s, g) ==
  /\ Active(s, g) /\ sessions[s].state \in Terminal
  /\ UNCHANGED vars

\* Nwipc::observe_external_connection
ObserveExternalConnection(s, g) ==
  /\ Opened(s, g) \/ OpenedTooLate(s, g)
  /\ observed' = Updated(g, "Open", "Pending")
  /\ UNCHANGED <<owner, envelopes>>

\* Nwipc::open_renderer: the transport is attached in this process.
OpenRenderer(s, g) ==
  /\ ~dropped
  /\ g \in envelopes
  /\ envelopes' = envelopes \ {g}
  /\ \/ /\ Opened(s, g) \/ OpenedTooLate(s, g)
        /\ observed' = Updated(g, "Open", "Pending")
     \/ UNCHANGED <<vars, observed>>  \* no transport, or an event is refused
  /\ UNCHANGED owner

\* Nwipc::observe_external_failure at the cleanup stage, the one stage that
\* changes more than the last failure.
ObserveExternalFailure(s, g) ==
  /\ Active(s, g)
  /\ observed' = CleanupFailed(g)
  /\ UNCHANGED <<vars, owner, envelopes>>

\* Mutant: the replacement is recorded as what ended.
ReplacementRecorded(s, g) == Inserted(s, nextGeneration, Updated(nextGeneration, "Disconnected", "Complete"))

\* What replace_renderer records once the replacement is installed.
Replaced(s, g) == Inserted(s, nextGeneration, Updated(g, "Disconnected", "Complete"))

\* Nwipc::replace_renderer. When the replacement cannot be prepared the old
\* generation has been released all the same, and its cleanup is not recorded.
ReplaceRenderer(s, g) ==
  /\ Invalidate(s, g, "Disconnect")
  /\ IF sessions'[s].generation # g
     THEN /\ Issued(s, nextGeneration)
          /\ observed' = Replaced(s, g)
     ELSE UNCHANGED <<owner, envelopes, observed>>

\* Nwipc::close of an active generation, open or already closed.
FacadeClose(s, g) ==
  /\ Close(s, g) \/ CloseAgain(s, g)
  /\ observed' = Updated(g, sessions'[s].state, "Complete")
  /\ UNCHANGED <<owner, envelopes>>

\* Nwipc::close under a replaced handle is refused, and noted as a failed cleanup.
FacadeCloseStale(s, g) ==
  /\ ~dropped /\ ~Active(s, g)
  /\ observed' = CleanupFailed(g)
  /\ UNCHANGED <<vars, owner, envelopes>>

\* The facade is dropped, and its Runtime with it.
FacadeDrop ==
  /\ DropRuntime
  /\ UNCHANGED <<owner, envelopes, observed>>

\* A call made with the handle for generation g of session s.
HandleCall(s, g) ==
  \/ OpenRenderer(s, g) \/ ObserveExternalConnection(s, g) \/ ObserveExternalFailure(s, g)
  \/ ReplaceRenderer(s, g) \/ FacadeClose(s, g) \/ FacadeCloseStale(s, g)
  \/ WriteBootstrap(g)

FacadeStep ==
  \/ FacadeCreate \/ FacadeCreateFails \/ FacadeDrop
  \/ \E g \in Generations : owner[g] # 0 /\ HandleCall(owner[g], g)

\* The calls that issue a handle.
HandleIssue ==
  \/ FacadeCreate
  \/ \E g \in Generations : owner[g] # 0 /\ ReplaceRenderer(owner[g], g)

\* The host's own steps; a window is registered with a handle, stale or not.
HostCall ==
  \/ \E w \in Windows, g \in Generations : owner[g] # 0 /\ Register(w, owner[g], g)
  \/ \E w \in Windows : HostStep(w)

FacadeNext ==
  \/ embedder = "runtime" /\ Next /\ UNCHANGED <<hostVars, facadeVars>>
  \/ embedder = "facade" /\ FacadeStep /\ UNCHANGED <<hostVars, embedder>>
  \/ embedder = "facade and host" /\ HandleIssue /\ UNCHANGED <<hostVars, embedder>>
  \/ embedder = "facade and host" /\ HostCall /\ UNCHANGED <<vars, facadeVars>>

FacadeSpec == FacadeInit /\ [][FacadeNext]_allVars

-----------------------------------------------------------------------------
FacadeTypeOK ==
  /\ owner \in [Generations -> Sessions \cup {0}]
  /\ envelopes \subseteq Generations
  /\ observed \in [Generations -> [state : State, cleanup : Cleanup]]

\* The state diagnostics shows for g: the runtime's own if g is active.
Shown(g) == IF Active(owner[g], g) THEN sessions[owner[g]].state ELSE observed[g].state

\* "The latest 16 generations per session remain in the runtime snapshot":
\* pruning never takes an active generation or a newer one than it keeps.
LatestAreObserved ==
  \A s \in Sessions :
    LET issued == {g \in Generations : owner[g] = s}
    IN  Observed(s) = {g \in issued : Cardinality({l \in issued : l > g}) < Retained}

\* The snapshot never shows a released generation as live, nor a cleanup as
\* complete that has not been made: whichever of replacements, closes, late
\* attachments and failures were reported, under handles current or replaced.
SnapshotIsTrue ==
  ~dropped =>
    \A g \in Generations :
      observed[g] # Unobserved =>
        /\ Shown(g) \in Live => released[g] < acquired[g]
        /\ observed[g].cleanup = "Complete" => released[g] = acquired[g]

\* Pending means that resources "are still owned by an active generation".  Not
\* so: a replacement that cannot be prepared leaves the released generation
\* Pending, and a connection reported after a close makes it Pending again.
PendingIsOwned ==
  ~dropped =>
    \A g \in Generations :
      observed[g] # Unobserved /\ observed[g].cleanup = "Pending" => released[g] < acquired[g]
=============================================================================
