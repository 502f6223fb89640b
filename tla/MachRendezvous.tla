--------------------------- MODULE MachRendezvous ---------------------------
(***************************************************************************)
(* The one-shot rendezvous of nwipc-mach-rendezvous, which hands an        *)
(* endpoint its control right and then its four capability rights          *)
(* (MachTransfer).  The renderer's endpoint attaches through a             *)
(* publication: the host's worker thread serves its service port, and      *)
(* consumers that hold the descriptor connect to it, more than one when it *)
(* is replayed.  The peer's rights are moved directly.                     *)
(*                                                                         *)
(* Waits to receive have a timeout, except the one for the capability      *)
(* message (nwipc-mach-transfer, platform::receive).  The two sends of a   *)
(* consumer, request and acknowledgement, have none: they block while the  *)
(* queue of the service port is full, and fail once the port is gone.  The *)
(* worker's two sends do not block: a send-once right always has room, and *)
(* nothing else is sent to the control port.  A request that dies with its *)
(* reply right answers its sender with a send-once notification.           *)
(***************************************************************************)
EXTENDS MachTransfer, Sequences, SequencesExt

CONSTANTS
    Consumers,      \* tasks that hold the descriptor
    ServiceLimit    \* messages the queue of the service port takes

ASSUME ConsumersAssumption == Consumers \cap {"host", "leaked", "dead"} = {}
ASSUME ServiceLimitAssumption == ServiceLimit \in Nat \ {0}

VARIABLES
    service,        \* the published service port: none, live, dead, leaked
    inbox,          \* messages queued on it
    worker,         \* serve: none, connect, transfer, ack, ended
    control,        \* who holds the control receive right
    queued,         \* the capability message waits in the control port
    completed,      \* RendezvousHost.completed
    consumer,       \* where each consumer is in consume
    refused,        \* consumers whose request died with its reply right
    took,           \* history: consumers that received the capabilities
    manifest        \* the identity of the bundle given to publish

rendezvousVars ==
    <<service, inbox, worker, control, queued, completed, consumer, refused, took, manifest>>
vars == <<transferVars, rendezvousVars>>

Role == "renderer"
Waiting == {"calling", "connecting", "receiving", "acking"}
Mail == [from : Consumers, kind : {"connect", "ack"}, valid : BOOLEAN]

TypeOK ==
    /\ TransferTypeOK
    /\ service \in {"none", "live", "dead", "leaked"}
    /\ inbox \in Seq(Mail)
    /\ worker \in {"none", "connect", "transfer", "ack", "ended"}
    /\ control \in Consumers \cup {"host", "leaked", "dead"}
    /\ queued \in BOOLEAN /\ completed \in BOOLEAN /\ manifest \in TransferIdentity
    /\ consumer \in [Consumers -> Waiting \cup {"idle", "ok", "failed"}]
    /\ refused \subseteq Consumers /\ took \subseteq Consumers

Init ==
    /\ TransferInit
    /\ service = "none" /\ inbox = <<>> /\ worker = "none"
    /\ control = "host" /\ queued = FALSE /\ completed = FALSE
    /\ consumer = [c \in Consumers |-> "idle"]
    /\ refused = {} /\ took = {}
    /\ manifest \in {IdentityOf(Role), IdentityOf(Other(Role)),
                    [IdentityOf(Role) EXCEPT !.generation = 1],
                    [IdentityOf(Role) EXCEPT !.session = "t"]}

\* What authenticates a request: the identity and the nonce of the descriptor.
Authenticates(message, kind) == message.kind = kind /\ message.valid

\* The control receive right and what is queued behind it are destroyed.
ControlDies == control' = "dead" /\ queued' = FALSE

\* What the worker's end releases: the endpoint's raw receive right if it
\* still has it, the capabilities, and the control host with its send right.
HostLets ==
    LET endpoint == IF control = "host" THEN {Control(Role)} ELSE {}
        sends == (IF bundle[Role] = "held" THEN Sends(Role) ELSE {})
                    \cup (IF attempted[Role] THEN {} ELSE {Control(Role)})
        receives == IF bundle[Role] = "held" THEN Receives(Role) ELSE {}
    IN /\ names' = Released(names, endpoint \cup receives, sends)
       /\ stale' = (stale \/ Missing(names, endpoint \cup receives, sends))
       /\ bundle' = [bundle EXCEPT ![Role] = IF @ = "held" THEN "released" ELSE @]
       /\ IF control = "host" THEN ControlDies ELSE UNCHANGED <<control, queued>>
       /\ UNCHANGED <<resource, owns, attempted>>

-----------------------------------------------------------------------------
(* The host.                                                               *)

\* publish: the service is registered and the worker spawned, or a step of it
\* fails; the control endpoint has by then become a bare name nobody drops, and
\* so has the registered service when the sandbox token is not UTF-8.
Publish ==
    /\ service = "none"
    /\ \/ /\ service' = "live" /\ worker' = "connect"
          /\ UNCHANGED <<transferVars, control>>
       \/ /\ service' \in {"dead", "leaked"} /\ worker' = "ended" /\ control' = "leaked"
          /\ DropBundle(Role, names, {Control(Role)})
          /\ UNCHANGED <<resource, owns, attempted>>
    /\ UNCHANGED <<inbox, queued, completed, consumer, refused, took, manifest>>

\* serve: an invalid request is dropped with its reply right; a valid one is
\* answered with the control receive right, which fails, and ends the worker,
\* when its sender no longer waits.
ServeConnect ==
    /\ worker = "connect" /\ service = "live" /\ inbox # <<>>
    /\ inbox' = Tail(inbox)
    /\ LET m == Head(inbox)
           valid == Authenticates(m, "connect")
           waits == consumer[m.from] = "connecting"
       IN \/ /\ ~valid
             /\ refused' = IF waits THEN refused \cup {m.from} ELSE refused
             /\ UNCHANGED <<transferVars, worker, control, queued>>
          \/ /\ valid /\ waits
             /\ control' = m.from /\ worker' = "transfer"
             /\ names' = [names EXCEPT ![Control(Role)] = Right(FALSE, @.send)]
             /\ UNCHANGED <<resource, owns, bundle, attempted, stale, queued, refused>>
          \/ /\ valid /\ ~waits
             /\ worker' = "ended"
             /\ HostLets
             /\ UNCHANGED refused
    /\ UNCHANGED <<service, completed, consumer, took, manifest>>

\* serve: the capabilities follow on the control right.
ServeTransfer ==
    /\ worker = "transfer"
    /\ Transfer(Role, manifest, control \in Consumers)
    /\ queued' = (bundle'[Role] = "moved")
    /\ worker' = IF bundle'[Role] = "moved" THEN "ack" ELSE "ended"
    /\ UNCHANGED <<service, inbox, control, completed, consumer, refused, took, manifest>>

\* serve: one message is taken for the acknowledgement, whatever it is; a
\* request taken here is neither answered nor dropped.
ServeAck ==
    /\ worker = "ack" /\ service = "live" /\ inbox # <<>>
    /\ inbox' = Tail(inbox)
    /\ completed' = Authenticates(Head(inbox), "ack")
    /\ worker' = "ended"
    /\ UNCHANGED <<transferVars, service, control, queued, consumer, refused, took, manifest>>

\* A plausible slip: the worker returns without dropping what it still holds.
ServeEndsHolding ==
    /\ worker \in {"connect", "ack"}
    /\ inbox = <<>> \/ service = "dead"
    /\ worker' = "ended"
    /\ UNCHANGED <<transferVars, service, inbox, control, queued, completed, consumer, refused,
                   took, manifest>>

\* serve: no message within RECEIVE_TIMEOUT_MS, or the service port is gone.
ServeEnds ==
    /\ worker \in {"connect", "ack"}
    /\ inbox = <<>> \/ service = "dead"
    /\ worker' = "ended"
    /\ HostLets
    /\ UNCHANGED <<service, inbox, completed, consumer, refused, took, manifest>>

\* RendezvousHost is dropped: the service port is destroyed with its queue,
\* and the worker joined.
DropHost ==
    /\ service = "live"
    /\ service' = "dead" /\ inbox' = <<>>
    /\ refused' = refused \cup {c \in Consumers : /\ consumer[c] = "connecting"
                                                  /\ \E i \in DOMAIN inbox : inbox[i].from = c}
    /\ UNCHANGED <<transferVars, worker, control, queued, completed, consumer, took, manifest>>

\* The host's process exits: the kernel releases everything it held.
HostExit ==
    /\ service = "live"
    /\ service' = "dead" /\ worker' = "ended" /\ inbox' = <<>>
    /\ refused' = refused \cup {c \in Consumers : consumer[c] = "connecting"}
    /\ names' = [n \in Names |-> Gone] /\ resource' = {}
    /\ bundle' = [r \in Roles |-> IF bundle[r] = "held" THEN "released" ELSE bundle[r]]
    /\ IF control = "host" THEN ControlDies ELSE UNCHANGED <<control, queued>>
    /\ UNCHANGED <<owns, attempted, stale, completed, consumer, took, manifest>>

\* The peer's rights are moved over its own control channel, or dropped.
MovePeer ==
    /\ \E delivered \in BOOLEAN : Transfer("peer", IdentityOf("peer"), delivered)
    /\ UNCHANGED rendezvousVars

DropHostResource ==
    /\ \E n \in resource : DropResource(n)
    /\ UNCHANGED rendezvousVars

-----------------------------------------------------------------------------
(* Consumers.                                                              *)

\* lookup_service finds what is published; the sandbox may deny it.
LookupService == service = "live"

\* consume compares the descriptor's identity with the expected one.
Consumable(expected) == IdentityOf(Role) = expected

\* consume: the identity is compared first, then the service is looked up.  A
\* publish that failed has given nobody a descriptor.
Connect(c) ==
    /\ consumer[c] = "idle" /\ service \in {"live", "dead"}
    /\ \/ /\ \E expected \in TransferIdentity : Consumable(expected) /\ LookupService
          /\ consumer' = [consumer EXCEPT ![c] = "calling"]
       \/ consumer' = [consumer EXCEPT ![c] = "failed"]
    /\ UNCHANGED <<transferVars, service, inbox, worker, control, queued, completed, refused,
                   took, manifest>>

\* The kernel takes a message for the service port while its queue has room.
Room == service = "live" /\ Len(inbox) < ServiceLimit

\* connect_control: the request is sent, with the descriptor's nonce or a
\* corrupted one; it waits for room, and fails when the port is gone.
SendRequest(c) ==
    /\ consumer[c] = "calling"
    /\ \/ /\ Room
          /\ \E valid \in BOOLEAN :
                inbox' = Append(inbox, [from |-> c, kind |-> "connect", valid |-> valid])
          /\ consumer' = [consumer EXCEPT ![c] = "connecting"]
       \/ /\ service # "live"
          /\ consumer' = [consumer EXCEPT ![c] = "failed"]
          /\ UNCHANGED inbox
    /\ UNCHANGED <<transferVars, service, worker, control, queued, completed, refused, took,
                   manifest>>

ReceiveControl(c) ==
    /\ consumer[c] = "connecting" /\ control = c
    /\ consumer' = [consumer EXCEPT ![c] = "receiving"]
    /\ UNCHANGED <<transferVars, service, inbox, worker, control, queued, completed, refused,
                   took, manifest>>

\* A plausible slip: connect_control waits for its reply without a timeout.
GiveUpRefused(c) ==
    /\ consumer[c] = "connecting" /\ c \in refused
    /\ consumer' = [consumer EXCEPT ![c] = "failed"]
    /\ UNCHANGED <<transferVars, service, inbox, worker, control, queued, completed, refused,
                   took, manifest>>

\* connect_control gives up: its request died, or no reply came in time; a
\* reply that arrives later dies with its port.
GiveUp(c) ==
    /\ consumer[c] = "connecting"
    /\ consumer' = [consumer EXCEPT ![c] = "failed"]
    /\ IF control = c THEN ControlDies ELSE UNCHANGED <<control, queued>>
    /\ UNCHANGED <<transferVars, service, inbox, worker, completed, refused, took, manifest>>

\* platform::receive, which waits as long as it takes; the control right is
\* dropped, and the message was validated by the host against this identity.
ReceiveCapabilities(c) ==
    /\ consumer[c] = "receiving" /\ queued
    /\ consumer' = [consumer EXCEPT ![c] = "acking"]
    /\ took' = took \cup {c}
    /\ ControlDies
    /\ UNCHANGED <<transferVars, service, inbox, worker, completed, refused, manifest>>

\* The acknowledgement is sent, once there is room; or the service is gone and
\* the capabilities are dropped with the error.
Acknowledge(c) ==
    /\ consumer[c] = "acking"
    /\ \/ /\ Room
          /\ inbox' = Append(inbox, [from |-> c, kind |-> "ack", valid |-> TRUE])
          /\ consumer' = [consumer EXCEPT ![c] = "ok"]
          /\ UNCHANGED bundle
       \/ /\ service # "live"
          /\ consumer' = [consumer EXCEPT ![c] = "failed"]
          /\ bundle' = [bundle EXCEPT ![Role] = "released"]
          /\ UNCHANGED inbox
    /\ UNCHANGED <<names, resource, owns, attempted, stale, service, worker, control, queued,
                   completed, refused, took, manifest>>

-----------------------------------------------------------------------------
HostStep == ServeConnect \/ ServeTransfer \/ ServeAck \/ ServeEnds
ConsumerStep(c) ==
    \/ SendRequest(c) \/ ReceiveControl(c) \/ GiveUp(c)
    \/ ReceiveCapabilities(c) \/ Acknowledge(c)

Next ==
    \/ Publish \/ HostStep \/ DropHost \/ HostExit \/ MovePeer \/ DropHostResource
    \/ \E c \in Consumers : Connect(c) \/ ConsumerStep(c)

\* The worker thread runs and its timeouts elapse; a consumer goes on.
Fairness == WF_vars(HostStep) /\ \A c \in Consumers : WF_vars(ConsumerStep(c))

Spec == Init /\ [][Next]_vars /\ Fairness

-----------------------------------------------------------------------------
(* Properties.                                                             *)

\* The four rights stay together: an endpoint's bundle is with the host, on
\* its way or received, or released as a whole, and once the worker has ended
\* and no consumer is under way the host holds none of them.  The control right
\* is gone with them, unless a failed publish leaked it (FailedPublishReleases).
NothingLeftBehind ==
    (worker = "ended" /\ \A c \in Consumers : consumer[c] \notin Waiting)
        => /\ bundle[Role] # "held"
           /\ control \in {"dead", "leaked"}

\* consume returns.  Not so:
ConsumeReturns == \A c \in Consumers : <>[](consumer[c] \notin Waiting)

\* the control right arrived and the capabilities never will, for the worker's
\* transfer failed or its process ended after the right had moved;
Orphaned(c) ==
    consumer[c] = "receiving" /\ control = c /\ worker = "ended" /\ ~queued

\* or the request or the acknowledgement waits for room on a port that nobody
\* serves any more and the host still holds.
Blocked(c) ==
    consumer[c] \in {"calling", "acking"} /\ service = "live" /\ ~Room /\ worker = "ended"

\* Nothing else keeps a consume: whatever is refused, replayed, dropped or lost,
\* each consumer returns, is orphaned, or is blocked (RECEIVE_TIMEOUT_MS).
ConsumeReturnsUnlessStuck ==
    \A c \in Consumers : <>[](consumer[c] \notin Waiting \/ Orphaned(c) \/ Blocked(c))

\* A publish that fails keeps nothing.  Not so: the control endpoint is leaked,
\* and on one path the registered service with it.
FailedPublishReleases == control # "leaked" /\ service # "leaked"

\* Every release and every move names a right its caller still has ("cleaned
\* in reverse order").  Not so: a worker that ends early destroys the control
\* endpoint, which takes every reference of its name, before the control host
\* deallocates its send right of the same name.
EachRightReleasedOnce == ~stale
=============================================================================
