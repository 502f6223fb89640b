--------------------------- MODULE FrameProtection ---------------------------
(***************************************************************************)
(* EndpointProtection of the crypto crate on its own, over any link at     *)
(* all: what was published may be lost, repeated, reordered, and handed to *)
(* an endpoint of another session, generation or direction.  A derived key *)
(* is the tuple it is derived from, and the cipher opens a box only under  *)
(* the key, the nonce and the associated data it was closed with.          *)
(***************************************************************************)
EXTENDS Integers, Sequences

CONSTANTS
  Party,        \* endpoints that are alive: [secret, session, generation, role]
  LastCounter,  \* the last frame counter, u64::MAX in the code
  Plaintext

EndpointRole == {"renderer", "peer"}

ASSUME ProtectionAssumption ==
  /\ LastCounter \in Nat
  /\ \A e \in Party :
       /\ e.role \in EndpointRole
       /\ e = [secret |-> e.secret, session |-> e.session,
               generation |-> e.generation, role |-> e.role]

VARIABLES
  nextCounter,      \* FrameSealer::next_counter
  expectedCounter,  \* FrameOpener::expected_counter
  pending,          \* the PendingProtectedFrame an endpoint holds
  published,        \* per endpoint: the frames it committed
  opened            \* history: the plaintexts it has accepted

protectionParts == <<nextCounter, expectedCounter, pending, published, opened>>

\* The next_counter of an endpoint whose counters are used up.
NoCounter == LastCounter + 1

OutboundDirection(role) ==
  IF role = "renderer" THEN "renderer-to-peer" ELSE "peer-to-renderer"

InboundDirection(role) ==
  IF role = "renderer" THEN "peer-to-renderer" ELSE "renderer-to-peer"

Context(e) == <<e.session, e.generation>>

\* Mutant: both directions of a generation have one key.
DeriveForBoth(e, direction) == <<e.secret, Context(e)>>

DeriveDirection(e, direction) == <<e.secret, Context(e), direction>>

SealingKey(e) == DeriveDirection(e, OutboundDirection(e.role))
OpeningKey(e) == DeriveDirection(e, InboundDirection(e.role))

Nonce(key, counter) == <<key, counter>>

Aad(e, counter) == <<Context(e), counter>>

NoFrameYet == [counter |-> NoCounter]

ProtectionInit ==
  /\ nextCounter = [e \in Party |-> 0]
  /\ expectedCounter = [e \in Party |-> 0]
  /\ pending = [e \in Party |-> NoFrameYet]
  /\ published = [e \in Party |-> <<>>]
  /\ opened = [e \in Party |-> <<>>]

Sealed(e, plaintext) ==
  [counter |-> nextCounter[e], nonce |-> Nonce(SealingKey(e), nextCounter[e]),
   aad |-> Aad(e, nextCounter[e]), plaintext |-> plaintext]

\* prepare: the counter stays where it is.
Prepare(e, plaintext) ==
  /\ pending[e] = NoFrameYet /\ nextCounter[e] # NoCounter
  /\ pending' = [pending EXCEPT ![e] = Sealed(e, plaintext)]
  /\ UNCHANGED <<nextCounter, expectedCounter, published, opened>>

\* The channel published the frame and the counter moves on.
Commit(e) ==
  /\ pending[e] # NoFrameYet
  /\ published' = [published EXCEPT ![e] = Append(@, pending[e])]
  /\ nextCounter' = [nextCounter EXCEPT ![e] = pending[e].counter + 1]
  /\ pending' = [pending EXCEPT ![e] = NoFrameYet]
  /\ UNCHANGED <<expectedCounter, opened>>

\* The channel refused it: the next frame takes the same counter.
DropFrame(e) ==
  /\ pending[e] # NoFrameYet
  /\ pending' = [pending EXCEPT ![e] = NoFrameYet]
  /\ UNCHANGED <<nextCounter, expectedCounter, published, opened>>

\* Mutant: replays are refused, gaps are not.
ExpectsLater(e, frame) == frame.counter >= expectedCounter[e]

Expects(e, frame) == frame.counter = expectedCounter[e]

Authentic(e, frame) ==
  /\ frame.nonce = Nonce(OpeningKey(e), frame.counter)
  /\ frame.aad = Aad(e, frame.counter)

\* open of any frame that any endpoint published, any number of times.  A frame
\* that is refused changes nothing.
Open(e, sender, i) ==
  LET frame == published[sender][i]
  IN  /\ Expects(e, frame) /\ Authentic(e, frame)
      /\ expectedCounter' = [expectedCounter EXCEPT ![e] = frame.counter + 1]
      /\ opened' = [opened EXCEPT ![e] = Append(@, frame.plaintext)]
      /\ UNCHANGED <<nextCounter, pending, published>>

ProtectionNext ==
  \E e \in Party :
    \/ \E plaintext \in Plaintext : Prepare(e, plaintext)
    \/ Commit(e) \/ DropFrame(e)
    \/ \E sender \in Party : \E i \in DOMAIN published[sender] : Open(e, sender, i)

ProtectionSpec == ProtectionInit /\ [][ProtectionNext]_protectionParts

-----------------------------------------------------------------------------
\* Two endpoints of one generation that face each other.
Faces(e, f) ==
  /\ e.secret = f.secret /\ Context(e) = Context(f)
  /\ e.role # f.role

\* Whatever the link does and whichever frames were dropped before they were
\* published, an endpoint accepts from the endpoint that faces it, and from no
\* other, its frames from the first on without a gap, a repetition or a change of
\* order (FrameOpener::open, PendingProtectedFrame::commit).
OpenedInOrder ==
  \A e \in Party : opened[e] # <<>> =>
    \E f \in Party :
      /\ Faces(e, f)
      /\ Len(opened[e]) <= Len(published[f])
      /\ \A i \in 1 .. Len(opened[e]) : opened[e][i] = published[f][i].plaintext

\* No two frames that were published were sealed under one nonce: not by one
\* endpoint and not by two (FrameSealer::prepare and commit, derive_direction).
NonceOnce ==
  \A e, f \in Party :
    \A i \in 1 .. Len(published[e]), j \in 1 .. Len(published[f]) :
      published[e][i].nonce = published[f][j].nonce => e = f /\ i = j
=============================================================================
