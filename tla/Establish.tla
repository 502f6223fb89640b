----------------------------- MODULE Establish -----------------------------
(***************************************************************************)
(* How the two endpoints of one generation come to be open.  In production *)
(* ("mapped") the host prepares two regions and two envelopes; the peer    *)
(* reads its envelope from an inherited pipe, the renderer from a property *)
(* list; each attaches to the regions, and HELLO and ACK cross them as     *)
(* protected frames (nwipc-peer, nwipc-peer-core, nwipc-renderer-bootstrap,*)
(* nwipc-macos-transport).  In a process test ("process") the peer sends   *)
(* HELLO over its stdio to a coordinator.                                  *)
(*                                                                         *)
(* At most one thing is not as the host meant it: a wire form, what an     *)
(* endpoint was told to expect, a region, a secret, or a capability.  Any  *)
(* process may also die at any step.                                       *)
(***************************************************************************)
EXTENDS Bootstrap, Region, Negotiation

CONSTANTS
    MaxInline, MaxMessage,  \* bounds: the channel limits tried, in bytes
    PeerLimit,              \* DEFAULT_MAXIMUM_MESSAGE
    HelloBytes, AckBytes,   \* the length of an encoded HELLO, of an ACK
    MaxProtocol             \* bound: protocol numbers tried

ASSUME EstablishAssumption ==
    /\ MaxInline \in Nat /\ MaxMessage \in Nat /\ MaxProtocol \in Nat
    /\ PeerLimit \in Nat \ {0} /\ HelloBytes \in Nat /\ AckBytes \in Nat

VARIABLES
    given,          \* what the host hands out: a record, see Given
    pipe,           \* how much of the frame is written: none, part, whole, broken
    pc,             \* where each endpoint is
    env,            \* the envelope it decoded
    inbound,        \* the frames on their way to it
    chosen,         \* the selection it opens with
    touched,        \* history: endpoints that sent or took a frame
    hindered        \* history: a process died or a notification failed

vars == <<given, pipe, pc, env, inbound, chosen, touched, hindered>>

Endpoints == {"renderer", "peer", "coordinator"}
Initiator == IF given.mode = "mapped" THEN "renderer" ELSE "peer"
Acceptor == IF given.mode = "mapped" THEN "peer" ELSE "coordinator"
Other(e) == IF e = Initiator THEN Acceptor ELSE Initiator

Capabilities == {"memory", "binary", "backpressure"}
Production == Capabilities \cup {"signal", "encryption", "fragmentation"}
Required == IF given.mode = "mapped" THEN Production ELSE Capabilities

Nothing == [none |-> TRUE]
Ended == {"absent", "open", "failed", "dead"}

-----------------------------------------------------------------------------
(* What the host prepares (PreparedMacosTransport, MacosPreparer).         *)

Session == "s"
Generation == 2
Secret(generation) == <<"secret", generation>>

MemoryDescriptor(c) ==
    [provider |-> "IoSurface", config |-> c, regions |-> Prepared(c, Session, Generation)]
TestDescriptor == [provider |-> "ProcessTest"]

EnvelopeOf(m, c, role) ==
    [session |-> Session, generation |-> Generation, protocols |-> ProtocolRange(1, 1),
     role |-> role, secret |-> Secret(Generation),
     memory |-> IF m = "mapped" THEN MemoryDescriptor(c) ELSE TestDescriptor,
     signal |-> IF m = "mapped" THEN [provider |-> "Hybrid", generation |-> Generation]
                                ELSE TestDescriptor]

Expected == [session |-> Session, generation |-> Generation, protocol |-> 1]

Configuration(inline, message, cells) ==
    [capacity |-> CellBytes * cells, inline |-> inline, message |-> message,
     low |-> 0, high |-> CellBytes * cells - 1]

\* The smallest capacity every endpoint accepts, and one that wraps elsewhere.
Fitting(inline, message) ==
    LET frame == message + 1 + FrameOverhead
        cells == RequiredCapacity(inline, frame)
    IN {Configuration(inline, message, n) : n \in {cells, cells + 1}}

Common == Configuration(9, 20, RequiredCapacity(9, 21 + FrameOverhead))

-----------------------------------------------------------------------------
(* What may be otherwise.                                                  *)

\* One field lost, doubled, unreadable or unknown, a wrong version, a cut end.
WithFields(w, fields) == [w EXCEPT !.fields = fields]
Doubled(f) == IF f.kind = "generation" THEN [f EXCEPT !.value = @ - 1] ELSE f
WireForms(w) ==
    {[w EXCEPT !.cut = TRUE], [w EXCEPT !.schema = @ + 1]}
    \cup {WithFields(w, RemoveAt(w.fields, i)) : i \in DOMAIN w.fields}
    \cup {WithFields(w, Append(w.fields, Doubled(w.fields[i]))) : i \in DOMAIN w.fields}
    \cup {WithFields(w, [w.fields EXCEPT ![i].sound = FALSE]) : i \in DOMAIN w.fields}
    \cup {WithFields(w, InsertAt(w.fields, i, UnknownField(r))) :
            i \in DOMAIN w.fields, r \in BOOLEAN}
    \cup {WithFields(w, Reverse(w.fields))}

PlistForms(d) ==
    {[d EXCEPT !.schema = @ + 1], [d EXCEPT !.entries = @ \cup {UnknownField(FALSE)}]}
    \cup {[d EXCEPT !.entries = @ \ {f}] : f \in d.entries}
    \cup {[d EXCEPT !.entries = (@ \ {f}) \cup {[f EXCEPT !.sound = FALSE]}] : f \in d.entries}

\* Envelopes that carry something of another endpoint or generation, as a host
\* that mixed them up would write them.
MixedUp(e) ==
    {[e EXCEPT !.generation = 1], [e EXCEPT !.secret = Secret(1)], [e EXCEPT !.session = "t"],
     [e EXCEPT !.role = IF @ = "peer" THEN "renderer" ELSE "peer"],
     [e EXCEPT !.memory = [@ EXCEPT !.provider = "Hybrid"]]}

\* Bundles whose regions are swapped, of another generation, or mapped short.
OtherRegions(e) ==
    LET r == e.memory.regions
    IN {[e EXCEPT !.memory.regions = x] :
          x \in {[r EXCEPT !["renderer"] = r["peer"], !["peer"] = r["renderer"]],
                 [r EXCEPT !["peer"].generation = 1],
                 [r EXCEPT !["renderer"].mapped = @ - CellBytes],
                 [r EXCEPT !["peer"].sound = FALSE]}}

Misinformed ==
    {[Expected EXCEPT !.generation = 1], [Expected EXCEPT !.session = "t"]}
    \cup {[Expected EXCEPT !.protocol = p] : p \in 2 .. MaxProtocol}

\* "meant" is what the host encoded, "wire" and "plist" the forms that arrive,
\* "told" what each endpoint expects, "supported" the acceptor's capabilities.
Given(m, c) ==
    [mode |-> m, config |-> c,
     meant |-> [e \in {"peer", "renderer"} |-> EnvelopeOf(m, c, e)],
     wire |-> Encode(EnvelopeOf(m, c, "peer")),
     plist |-> EncodePlist(EnvelopeOf(m, c, "renderer")),
     told |-> [e \in Endpoints |-> Expected],
     supported |-> IF m = "mapped" THEN Production ELSE Capabilities]

WrittenOtherwise(g) ==
    {[g EXCEPT !.wire = w] : w \in WireForms(g.wire)}
    \cup {[g EXCEPT !.plist = d] : d \in PlistForms(g.plist)}

MeantOtherwise(g) ==
    LET Mixed(e) == MixedUp(e) \cup (IF g.mode = "mapped" THEN OtherRegions(e) ELSE {})
    IN {[g EXCEPT !.wire = Encode(x), !.meant["peer"] = x] : x \in Mixed(g.meant["peer"])}
       \cup {[g EXCEPT !.plist = EncodePlist(x), !.meant["renderer"] = x] :
            x \in Mixed(g.meant["renderer"])}

ToldOtherwise(g) ==
    {[g EXCEPT !.told[e] = x] : e \in Endpoints, x \in Misinformed}
    \cup {[g EXCEPT !.supported = x] :
            x \in {g.supported \ {"binary"}, g.supported \cup {"newer"}}}

Deviating(m) ==
    LET g == Given(m, Common)
    IN WrittenOtherwise(g) \cup MeantOtherwise(g) \cup ToldOtherwise(g)

Init ==
    /\ \/ \E m \in {"mapped", "process"} : given \in {Given(m, Common)} \cup Deviating(m)
       \/ \E inline \in 1 .. MaxInline, message \in 1 .. MaxMessage :
            /\ inline <= message
            /\ \E c \in Fitting(inline, message) : Prepares(c) /\ given = Given("mapped", c)
    /\ pipe = "none"
    /\ pc = [e \in Endpoints |->
                IF e \notin {Initiator, Acceptor} THEN "absent"
                ELSE IF e = "coordinator" THEN "accept" ELSE "decode"]
    /\ env = [e \in Endpoints |-> Nothing]
    /\ inbound = [e \in Endpoints |-> <<>>]
    /\ chosen = [e \in Endpoints |-> Nothing]
    /\ touched = {} /\ hindered = FALSE

-----------------------------------------------------------------------------
(* Helpers.                                                                *)

Becomes(e, step) == pc' = [pc EXCEPT ![e] = step]
Fails(e) == Becomes(e, "failed")

\* Frames are sealed with keys derived from the secret and the identity of the
\* sender's envelope; a stream's are plain.
Key(e) ==
    IF given.mode = "process" THEN <<>>
    ELSE <<env[e].secret, env[e].session, env[e].generation>>

Put(e, frame) ==
    /\ inbound' = [inbound EXCEPT ![Other(e)] = Append(@, [key |-> Key(e), frame |-> frame])]
    /\ touched' = touched \cup {e}

\* The proof of the coordinator is the secret itself.
ProofOf(e) == IF e = "coordinator" THEN Secret(Generation) ELSE env[e].secret

\* Fragmenter::fragments takes a protected frame up to the limit of the channel,
\* StreamTransport::send a plain one up to MAXIMUM_FRAME_LENGTH.
Sendable(e, bytes) ==
    IF given.mode = "mapped" THEN bytes + FrameOverhead <= FrameLimit(env[e].memory.config)
                             ELSE bytes <= PeerLimit + 64

InitiatorConfig ==
    LET x == given.told[Initiator]
    IN [role |-> Initiator, remote |-> Acceptor, session |-> x.session,
        generation |-> x.generation, versions |-> Exact(Version(x.protocol)),
        requested |-> Required, required |-> Required,
        limit |-> IF given.mode = "mapped" THEN env[Initiator].memory.config.message
                                           ELSE PeerLimit,
        proof |-> ProofOf(Initiator)]

AcceptorConfig ==
    LET x == given.told[Acceptor]
    IN [role |-> Acceptor, remote |-> Initiator, session |-> x.session,
        generation |-> x.generation, versions |-> Exact(Version(x.protocol)),
        supported |-> given.supported,
        limit |-> IF given.mode = "mapped" THEN PeerLimit ELSE PeerLimit + 1,
        proof |-> ProofOf(Acceptor)]

-----------------------------------------------------------------------------
(* The host writes the peer's frame: its length and its body.              *)

WritePipe ==
    /\ pipe \in {"none", "part"}
    /\ pipe' = IF pipe = "none" THEN "part" ELSE "whole"
    /\ UNCHANGED <<given, pc, env, inbound, chosen, touched, hindered>>

\* The host dies before it has written the whole frame: the pipe ends.
HostDies ==
    /\ pipe \in {"none", "part"}
    /\ pipe' = "broken" /\ hindered' = TRUE
    /\ UNCHANGED <<given, pc, env, inbound, chosen, touched>>

-----------------------------------------------------------------------------
(* Decoding and attaching.                                                 *)

\* consume: waits for the whole frame or for the end of the pipe.
PeerConsumes ==
    /\ pc["peer"] = "decode"
    /\ \/ /\ pipe = "whole" /\ Decodes(given.wire)
          /\ env' = [env EXCEPT !["peer"] = Carried(given.wire.fields)]
          /\ Becomes("peer", IF given.mode = "mapped" THEN "attach" ELSE "validate")
       \/ /\ pipe = "broken" \/ (pipe = "whole" /\ ~Decodes(given.wire))
          /\ Fails("peer")
          /\ UNCHANGED env
    /\ UNCHANGED <<given, pipe, inbound, chosen, touched, hindered>>

RendererDecodes ==
    /\ pc["renderer"] = "decode"
    /\ IF PlistDecodes(given.plist)
       THEN /\ env' = [env EXCEPT !["renderer"] = PlistCarried(given.plist)]
            /\ Becomes("renderer", "validate")
       ELSE Fails("renderer") /\ UNCHANGED env
    /\ UNCHANGED <<given, pipe, inbound, chosen, touched, hindered>>

\* attach_with_signal_behavior: for its own role, over production providers;
\* the listeners check the generation of the signals.
Attachable(e) ==
    LET x == env[e]
    IN /\ x.role = e
       /\ x.memory.provider = "IoSurface" /\ x.signal.provider \in {"DarwinNotify", "Hybrid"}
       /\ EndpointAttaches(x.memory.config, x.memory.regions[e], x.memory.regions[Other(e)],
                           x.session, x.generation, e, Other(e))
       /\ x.signal.generation = x.generation

\* The peer attaches before its envelope is compared with what it was told,
\* the renderer after.
Attach(e) ==
    /\ pc[e] = "attach"
    /\ IF Attachable(e)
       THEN Becomes(e, IF e = "peer" THEN "validate" ELSE "hello")
       ELSE Fails(e)
    /\ UNCHANGED <<given, pipe, env, inbound, chosen, touched, hindered>>

\* validate_for; a process test attaches to test providers only.
Validate(e) ==
    /\ pc[e] = "validate"
    /\ IF /\ RefusalFor(env[e], e, given.told[e]) = ""
          /\ given.mode = "process" => /\ env[e].memory.provider = "ProcessTest"
                                       /\ env[e].signal.provider = "ProcessTest"
       THEN Becomes(e, IF e = "renderer" THEN "attach"
                       ELSE IF e = Initiator THEN "hello" ELSE "accept")
       ELSE Fails(e)
    /\ UNCHANGED <<given, pipe, env, inbound, chosen, touched, hindered>>

-----------------------------------------------------------------------------
(* The handshake.                                                          *)

\* HELLO is published; when the notification fails the initiator gives up
\* although the frame stays in the ring.
SendHello(e) ==
    /\ pc[e] = "hello" /\ Sendable(e, HelloBytes)
    /\ Put(e, Hello(InitiatorConfig))
    /\ \/ Becomes(e, "acknowledge") /\ UNCHANGED hindered
       \/ given.mode = "mapped" /\ Fails(e) /\ hindered' = TRUE
    /\ UNCHANGED <<given, pipe, env, chosen>>

\* MessageTooLarge: the configuration was valid, and HELLO is larger than it lets
\* a frame be.  The acceptor is not told.
HelloRefused(e) ==
    /\ pc[e] = "hello" /\ ~Sendable(e, HelloBytes)
    /\ Fails(e)
    /\ UNCHANGED <<given, pipe, env, inbound, chosen, touched, hindered>>

\* wait_receive takes one frame, and accept answers it, if the ACK can be sent;
\* again the ACK may be out when the acceptor gives up.
Accept(e) ==
    /\ pc[e] = "accept" /\ inbound[e] # <<>>
    /\ LET m == Head(inbound[e])
           a == AcceptorConfig
           s == Selection(a, m.frame)
       IN IF m.key = Key(e) /\ Acceptable(a, m.frame) /\ Sendable(e, AckBytes)
          THEN /\ inbound' = [inbound EXCEPT ![e] = Tail(@),
                                   ![Other(e)] = Append(@, [key |-> Key(e), frame |-> Ack(a, s)])]
               /\ chosen' = [chosen EXCEPT ![e] = s]
               /\ \/ Becomes(e, "open") /\ UNCHANGED hindered
                  \/ given.mode = "mapped" /\ Fails(e) /\ hindered' = TRUE
          ELSE /\ inbound' = [inbound EXCEPT ![e] = Tail(@)]
               /\ Fails(e)
               /\ UNCHANGED <<chosen, hindered>>
    /\ touched' = touched \cup {e}
    /\ UNCHANGED <<given, pipe, env>>

Acknowledge(e) ==
    /\ pc[e] = "acknowledge" /\ inbound[e] # <<>>
    /\ LET m == Head(inbound[e])
       IN IF m.key = Key(e) /\ Acknowledges(InitiatorConfig, m.frame)
          THEN chosen' = [chosen EXCEPT ![e] = m.frame.selection] /\ Becomes(e, "open")
          ELSE Fails(e) /\ UNCHANGED chosen
    /\ inbound' = [inbound EXCEPT ![e] = Tail(@)]
    /\ touched' = touched \cup {e}
    /\ UNCHANGED <<given, pipe, env, hindered>>

\* A stream ends with the process at its other end, and the waiting read with
\* it; a ring says nothing of the process that is gone.
StreamEnds(e) ==
    /\ given.mode = "process"
    /\ pc[e] \in {"accept", "acknowledge"} /\ inbound[e] = <<>>
    /\ pc[Other(e)] \in {"failed", "dead"}
    /\ Fails(e)
    /\ UNCHANGED <<given, pipe, env, inbound, chosen, touched, hindered>>

Dies(e) ==
    /\ pc[e] \notin Ended
    /\ Becomes(e, "dead") /\ hindered' = TRUE
    /\ UNCHANGED <<given, pipe, env, inbound, chosen, touched>>

-----------------------------------------------------------------------------
Step(e) ==
    \/ Attach(e) \/ Validate(e)
    \/ SendHello(e) \/ HelloRefused(e) \/ Accept(e) \/ Acknowledge(e) \/ StreamEnds(e)

Next ==
    \/ WritePipe \/ HostDies \/ PeerConsumes \/ RendererDecodes
    \/ \E e \in Endpoints : Step(e) \/ Dies(e)

\* The host writes or dies, and endpoints run.
Fairness ==
    /\ WF_vars(WritePipe) /\ WF_vars(PeerConsumes) /\ WF_vars(RendererDecodes)
    /\ \A e \in Endpoints : WF_vars(Step(e))

Spec == Init /\ [][Next]_vars /\ Fairness

-----------------------------------------------------------------------------
(* Properties.                                                             *)

\* What an endpoint decodes is the envelope that the host encoded for it,
\* whatever became of its fields on the way (nwipc-bootstrap-codec::decode,
\* nwipc-renderer-bootstrap::decode).
DecodesAsMeant ==
    \A e \in {"peer", "renderer"} : env[e] # Nothing => env[e] = given.meant[e]

\* When the initiator is open the acceptor has selected the same, both sides
\* have what the other requires, each one's outbound region is the other's
\* inbound one, and a message at the limit fits the frames of both channels.
AgreeOnSelection ==
    (pc[Initiator] = "open") =>
        LET s == chosen[Initiator]
        IN /\ chosen[Acceptor] = s
           /\ Required \subseteq s.capabilities /\ s.capabilities \subseteq given.supported
           /\ s.limit <= PeerLimit
           /\ given.mode = "mapped" =>
                /\ env["renderer"].memory.regions = env["peer"].memory.regions
                /\ \A e \in {"renderer", "peer"} :
                        s.limit + 1 + FrameOverhead <= FrameLimit(env[e].memory.config)

\* With nothing otherwise than prepared, and no process or notification
\* failing, both endpoints open when the host allowed messages of a HELLO's
\* length (less the tag that messages have and HELLO has not); when it allowed
\* only smaller ones the initiator fails and the acceptor waits for ever
\* (ChannelConfiguration::validate accepts such limits).
UnhinderedOpens ==
    <>[](\/ hindered \/ given \notin {Given(m, given.config) : m \in {"mapped", "process"}}
         \/ IF given.mode = "mapped" /\ given.config.message + 1 < HelloBytes
            THEN pc[Initiator] = "failed" /\ pc[Acceptor] = "accept"
            ELSE pc[Initiator] = "open" /\ pc[Acceptor] = "open")

\* What validate accepts, opens: not so for messages smaller than a HELLO.
ValidConfigurationOpens ==
    <>[](\/ hindered \/ given \notin {Given(m, given.config) : m \in {"mapped", "process"}}
         \/ (pc[Initiator] = "open" /\ pc[Acceptor] = "open"))

\* Attaching ends, with an open endpoint or an error ("bounded timeout").  Not
\* so when the opposite endpoint is gone: the waits for HELLO and ACK have no end.
AttachReturns == \A e \in Endpoints : <>(pc[e] \in Ended)

\* An attached endpoint's empty ring takes every frame within its limit
\* wherever its cursor stands: the capacity rule of channel-core suffices
\* (ChannelConfig::validate_capacity, RingWriter::send_fragments).
EmptyRingFits ==
    \A e \in {"renderer", "peer"} :
        (pc[e] \in {"hello", "accept", "acknowledge", "open"} /\ given.mode = "mapped") =>
            LET c == env[e].memory.config
                cells == env[e].memory.regions[e].capacity \div CellBytes
            IN \A payload \in 0 .. FrameLimit(c), offset \in 0 .. cells - 1 :
                  PlannedCells(cells, offset, RecordLengths(InlineLimit(c), payload)) <= cells
=============================================================================
