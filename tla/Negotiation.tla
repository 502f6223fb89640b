---------------------------- MODULE Negotiation ----------------------------
(***************************************************************************)
(* HELLO and ACK (nwipc-protocol): what an initiator offers, what an       *)
(* acceptor selects, and what the initiator checks of the selection.  A    *)
(* capability set is a set of names (nwipc-capabilities); a version is its *)
(* wire number, the major number in the high byte.                         *)
(***************************************************************************)
EXTENDS Integers, FiniteSets

Major(version) == version \div 256
Version(major) == 256 * major
VersionRange(minimum, maximum) == [minimum |-> minimum, maximum |-> maximum]
Exact(version) == VersionRange(version, version)

\* VersionRange::new
ValidRange(versions) ==
    versions.minimum <= versions.maximum /\ Major(versions.minimum) = Major(versions.maximum)

\* validate_limits; a proof is opaque and never empty here.
ValidLimit(limit) == limit > 0

Larger(a, b) == IF a > b THEN a ELSE b
Smaller(a, b) == IF a < b THEN a ELSE b

\* negotiate_version: the largest version of the overlap.
Overlap(local, remote) ==
    /\ Major(local.minimum) = Major(remote.minimum)
    /\ Larger(local.minimum, remote.minimum) <= Smaller(local.maximum, remote.maximum)
Negotiated(local, remote) == Smaller(local.maximum, remote.maximum)

\* negotiate: nothing required may be missing on either side.
CapabilitiesAgree(supported, requested, required) ==
    required \subseteq requested /\ required \subseteq supported

\* validate_identity
SameIdentity(frame, session, generation, role) ==
    /\ frame.session = session /\ frame.role = role
    /\ frame.generation = generation

\* decode_hello: the kind, a range within one major version, a limit.
HelloDecodes(hello) ==
    hello.kind = "hello" /\ ValidRange(hello.versions) /\ ValidLimit(hello.limit)

\* decode_ack
AckDecodes(ack) == ack.kind = "ack" /\ ValidLimit(ack.selection.limit)

\* AcceptorHandshake::accept, for an acceptor configuration a.
Acceptable(a, hello) ==
    /\ HelloDecodes(hello)
    /\ SameIdentity(hello, a.session, a.generation, a.remote)
    /\ hello.proof = a.proof
    /\ Overlap(a.versions, hello.versions)
    /\ CapabilitiesAgree(a.supported, hello.requested, hello.required)

\* Mutant: the acceptor names its own limit.
SelectionOwnLimit(a, hello) ==
    [version |-> Negotiated(a.versions, hello.versions),
     capabilities |-> a.supported \cap hello.requested,
     limit |-> a.limit]

Selection(a, hello) ==
    [version |-> Negotiated(a.versions, hello.versions),
     capabilities |-> a.supported \cap hello.requested,
     limit |-> Smaller(a.limit, hello.limit)]

\* encode_ack
Ack(a, selection) ==
    [kind |-> "ack", role |-> a.role, session |-> a.session, generation |-> a.generation,
     selection |-> selection]

\* InitiatorHandshake::hello, for an initiator configuration i.
Hello(i) ==
    [kind |-> "hello", role |-> i.role, session |-> i.session, generation |-> i.generation,
     versions |-> i.versions, requested |-> i.requested, required |-> i.required,
     limit |-> i.limit, proof |-> i.proof]

\* InitiatorHandshake::acknowledge
Acknowledges(i, ack) ==
    /\ AckDecodes(ack)
    /\ SameIdentity(ack, i.session, i.generation, i.remote)
    /\ i.versions.minimum <= ack.selection.version
    /\ ack.selection.version <= i.versions.maximum
    /\ ack.selection.capabilities \subseteq i.requested
    /\ i.required \subseteq ack.selection.capabilities
    /\ ack.selection.limit <= i.limit
=============================================================================
