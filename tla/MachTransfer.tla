---------------------------- MODULE MachTransfer ----------------------------
(***************************************************************************)
(* The rights a host prepares for its two endpoints (nwipc-mach-transfer,  *)
(* and the transfer resources of nwipc-signal-mach and nwipc-memory-mach), *)
(* and their one-shot move in a single message each.                       *)
(*                                                                         *)
(* A task has one name per port, which stands for the receive right and    *)
(* for every send reference it holds.  mach_port_deallocate gives one      *)
(* reference back; mach_port_destroy gives back everything the name        *)
(* stands for.  "stale" records that a release or a move named a right     *)
(* that was no longer there: by then the name may be another port's.       *)
(***************************************************************************)
EXTENDS Naturals, FiniteSets

Roles == {"renderer", "peer"}
Other(role) == IF role = "renderer" THEN "peer" ELSE "renderer"

\* One signal port per direction, named after the endpoint that sends on it,
\* one memory entry per direction, and one control port per endpoint.
Signal(role) == <<"signal", role>>
Memory(role) == <<"memory", role>>
Control(role) == <<"control", role>>
Names == {"signal", "memory", "control"} \X Roles

VARIABLES
    names,          \* what each name of the host's task stands for
    resource,       \* host resources not yet dropped (signal ports, mappings)
    owns,           \* TransferResource.owns_receive
    bundle,         \* where each endpoint's four rights are
    attempted,      \* AuthenticatedControlHost.attempted
    stale           \* history: a right was released or moved twice

transferVars == <<names, resource, owns, bundle, attempted, stale>>

Right(receive, send) == [receive |-> receive, send |-> send]
Gone == Right(FALSE, 0)

TransferTypeOK ==
    /\ names \in [Names -> [receive : BOOLEAN, send : 0..3]]
    /\ resource \subseteq {"signal", "memory"} \X Roles
    /\ owns \in [Roles -> BOOLEAN]
    /\ bundle \in [Roles -> {"held", "moved", "released"}]
    /\ attempted \in [Roles -> BOOLEAN]
    /\ stale \in BOOLEAN

\* create_transfer_resource and create_transfer_mapping for both directions,
\* duplicate_sender_right, duplicate_memory_entry_right (once per endpoint)
\* and take_listener_right for both bundles, and both control channels.
TransferInit ==
    /\ names = [n \in Names |->
                    CASE n[1] = "signal" -> Right(TRUE, 2)
                      [] n[1] = "memory" -> Right(FALSE, 3)
                      [] OTHER -> Right(TRUE, 1)]
    /\ resource = {"signal", "memory"} \X Roles
    /\ owns = [r \in Roles |-> FALSE]
    /\ bundle = [r \in Roles |-> "held"]
    /\ attempted = [r \in Roles |-> FALSE]
    /\ stale = FALSE

\* The four rights of a bundle, in the order a message carries them.
CanonicalKinds(role) == <<Memory(role), Memory(Other(role)), Signal(role), Signal(Other(role))>>

\* Three send rights, and the receive right in the last place.
Sends(role) == {CanonicalKinds(role)[i] : i \in 1 .. 3}
Receives(role) == {CanonicalKinds(role)[4]}

\* An owned right is dropped: mach_port_deallocate, mach_port_destroy.
DropSend(right) == IF right.send > 0 THEN Right(right.receive, right.send - 1) ELSE right
DropReceive(right) == Gone

\* Some names are destroyed, then others deallocated: what destroy took is no
\* longer there for deallocate.
Released(ns, destroyed, deallocated) ==
    [n \in Names |-> IF n \in destroyed THEN DropReceive(ns[n])
                     ELSE IF n \in deallocated THEN DropSend(ns[n])
                     ELSE ns[n]]

\* One of those releases finds its right missing.
Missing(ns, destroyed, deallocated) ==
    \/ \E n \in destroyed : ~ns[n].receive
    \/ \E n \in deallocated : n \in destroyed \/ ns[n].send = 0

\* The message leaves: MOVE_SEND and MOVE_RECEIVE take the rights named.
Moved(ns, role) ==
    [n \in Names |-> Right(ns[n].receive /\ n \notin Receives(role),
                           ns[n].send - (IF n \in Sends(role) THEN 1 ELSE 0))]

Movable(role) ==
    /\ \A n \in Sends(role) : names[n].send > 0
    /\ \A n \in Receives(role) : names[n].receive

\* A bundle is dropped: the receive right is destroyed, then the send rights are
\* deallocated.
DropBundle(role, ns, control) ==
    /\ bundle' = [bundle EXCEPT ![role] = "released"]
    /\ names' = Released(ns, Receives(role), Sends(role) \cup control)
    /\ stale' = (stale \/ Missing(ns, Receives(role), Sends(role) \cup control))

\* A failed send cleans the descriptors of its message, the last one first.
CleanupDescriptors(role, ns, control) == DropBundle(role, ns, control)

\* Session, generation and role: what a control channel, a bundle and a
\* descriptor are each bound to.
TransferIdentity == [session : {"s", "t"}, generation : {1, 2}, role : Roles]
IdentityOf(role) == [session |-> "s", generation |-> 2, role |-> role]

\* TransferManifest::validate_for, whose kinds are canonical by construction.
ValidateFor(identity, expected) == identity = expected

\* AuthenticatedControlHost::transfer, whose host is dropped after it.
\* "delivered" is the kernel's verdict on the send.  A second attempt is refused
\* before anything is touched.
Transfer(role, identity, delivered) ==
    /\ ~attempted[role] /\ bundle[role] = "held"
    /\ attempted' = [attempted EXCEPT ![role] = TRUE]
    /\ \/ /\ ~ValidateFor(identity, IdentityOf(role))
          /\ DropBundle(role, names, {Control(role)})
       \/ /\ ValidateFor(identity, IdentityOf(role))
          /\ IF delivered /\ Movable(role)
             THEN /\ bundle' = [bundle EXCEPT ![role] = "moved"]
                  /\ names' = Released(Moved(names, role), {}, {Control(role)})
                  /\ stale' = (stale \/ Missing(names, {}, {Control(role)}))
             ELSE CleanupDescriptors(role, names, {Control(role)})
    /\ UNCHANGED <<resource, owns>>

\* TransferResource and Mapping are dropped.
DropResource(n) ==
    /\ n \in resource
    /\ resource' = resource \ {n}
    /\ LET destroys == n[1] = "signal" /\ owns[n[2]]
           destroyed == IF destroys THEN {n} ELSE {}
           deallocated == IF destroys THEN {} ELSE {n}
       IN /\ names' = Released(names, destroyed, deallocated)
          /\ stale' = (stale \/ Missing(names, destroyed, deallocated))
    /\ UNCHANGED <<owns, bundle, attempted>>
=============================================================================
