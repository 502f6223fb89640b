----------------------------- MODULE MachSignal -----------------------------
(***************************************************************************)
(* One directional Mach signal port (nwipc-signal-mach): the broker thread *)
(* that owns it until an endpoint attaches, the endpoints that ask for a   *)
(* send or for the receive right, the hints, and the no-senders            *)
(* notification that tells the listener that every sender has gone.        *)
(*                                                                         *)
(* Each client is a task of its own.  A request that the broker drops, or  *)
(* that dies with its control port, answers its client with the send-once  *)
(* notification, which request_right refuses as a malformed response.  A   *)
(* reply to a client that has exited fails and leaves the rights it names  *)
(* with the broker.  Ports, rights and queues are the kernel's.            *)
(***************************************************************************)
EXTENDS Naturals, Sequences, SequencesExt

CONSTANTS
    Clients,        \* tasks that attach to the descriptor
    QueueLimit,     \* messages the kernel queues on a port
    MaxRefs         \* bound: send references one task holds

ASSUME QueueLimitAssumption == QueueLimit \in Nat \ {0}
ASSUME MaxRefsAssumption == MaxRefs \in Nat \ {0}
ASSUME ClientsAssumption == "host" \notin Clients

VARIABLES
    brokerPort,     \* the broker's control port: open or dead
    broker,         \* the broker thread: serving or ended
    requests,       \* requests queued on the control port
    available,      \* serve's listener_available
    reply,          \* what the kernel holds for each client's reply port
    receiver,       \* who holds the receive right
    refs,           \* send references held by each task
    queue,          \* messages on the signal port
    armed,          \* the no-senders notification is requested
    state,          \* what each client is doing
    swallowed,      \* history: a no-senders notification was never delivered
    stranded        \* history: a reply that moved the receive right failed

signalVars == <<brokerPort, broker, requests, available, reply, receiver, refs, queue,
          armed, state, swallowed, stranded>>

Host == "host"
Tasks == Clients \cup {Host}
Messages == {"signal", "nosenders"}
Requests == [client : Clients, id : {"sender", "listener"}]
Alive(c) == state[c] # "gone"

SignalTypeOK ==
    /\ brokerPort \in {"open", "dead"} /\ broker \in {"serving", "ended"}
    /\ requests \in Seq(Requests)
    /\ reply \in [Clients -> {"none", "send", "receive", "refused"}]
    /\ receiver \in Tasks \cup {"reply", "dead"}
    /\ refs \in [Tasks -> 0..MaxRefs]
    /\ queue \in Seq(Messages)
    /\ state \in [Clients -> {"idle", "asked", "failed", "sender", "arming", "listening",
                              "draining", "told", "cancelled", "gone"}]
    /\ available \in BOOLEAN /\ armed \in BOOLEAN
    /\ swallowed \in BOOLEAN /\ stranded \in BOOLEAN

\* allocate_port: the receive right, and one send right to it.
AllocatePort ==
    /\ receiver = Host
    /\ refs = [t \in Tasks |-> IF t = Host THEN 1 ELSE 0]
    /\ queue = <<>> /\ armed = FALSE

SignalInit ==
    /\ brokerPort = "open" /\ broker = "serving"
    /\ requests = <<>> /\ available = TRUE
    /\ reply = [c \in Clients |-> "none"]
    /\ AllocatePort
    /\ state = [c \in Clients |-> "idle"]
    /\ swallowed = FALSE /\ stranded = FALSE

-----------------------------------------------------------------------------
(* The kernel.                                                             *)

\* No task holds a send reference and none is on its way to a client.
NoSenders(r, p) == (\A t \in Tasks : r[t] = 0) /\ \A c \in Clients : p[c] # "send"

\* The receive right dies with its queue; else a requested no-senders
\* notification is queued when the last send right has gone.
PortAfter(r, p, who) ==
    IF who = "dead"
    THEN /\ receiver' = "dead" /\ queue' = <<>> /\ armed' = FALSE
    ELSE /\ receiver' = who
         /\ IF armed /\ NoSenders(r, p)
            THEN queue' = Append(queue, "nosenders") /\ armed' = FALSE
            ELSE UNCHANGED <<queue, armed>>

-----------------------------------------------------------------------------
(* Attaching: sender, listener, request_right.                             *)

ValidateGeneration(expected) == expected = "current"

\* The descriptor's generation is checked first; then the broker is looked up
\* and asked, which fails when its control port is dead.
Request(c, id, expected) ==
    /\ state[c] = "idle"
    /\ \/ /\ brokerPort = "open" /\ ValidateGeneration(expected)
          /\ requests' = Append(requests, [client |-> c, id |-> id])
          /\ state' = [state EXCEPT ![c] = "asked"]
       \/ /\ state' = [state EXCEPT ![c] = "failed"]
          /\ UNCHANGED requests
    /\ UNCHANGED <<brokerPort, broker, available, reply, receiver, refs, queue, armed,
                   swallowed, stranded>>

\* serve: a copy of the send right for every sender, the receive right for
\* the first listener, and nothing for the next one.
Serve ==
    /\ broker = "serving" /\ brokerPort = "open" /\ requests # <<>>
    /\ requests' = Tail(requests)
    /\ LET c == Head(requests).client
           listens == Head(requests).id = "listener"
           granted == ~listens \/ available
           right == IF listens THEN "receive" ELSE "send"
           answer == IF granted THEN right ELSE "refused"
       IN /\ available' = (available /\ ~listens)
          /\ reply' = IF Alive(c) THEN [reply EXCEPT ![c] = answer] ELSE reply
          /\ receiver' = IF Alive(c) /\ granted /\ listens THEN "reply" ELSE receiver
          /\ stranded' = (stranded \/ (~Alive(c) /\ granted /\ listens))
    /\ UNCHANGED <<brokerPort, broker, refs, queue, armed, state, swallowed>>

\* request_right receives its reply.
ReceiveReply(c) ==
    /\ state[c] = "asked" /\ reply[c] # "none"
    /\ reply' = [reply EXCEPT ![c] = "none"]
    /\ state' = [state EXCEPT ![c] = CASE reply[c] = "send" -> "sender"
                                       [] reply[c] = "receive" -> "arming"
                                       [] OTHER -> "failed"]
    /\ refs' = IF reply[c] = "send" THEN [refs EXCEPT ![c] = 1] ELSE refs
    /\ receiver' = IF reply[c] = "receive" THEN c ELSE receiver
    /\ UNCHANGED <<brokerPort, broker, requests, available, queue, armed, swallowed,
                   stranded>>

\* A plausible slip: the notification is never requested.
ArmNothing(c) ==
    /\ state[c] = "arming"
    /\ state' = [state EXCEPT ![c] = "listening"]
    /\ UNCHANGED <<brokerPort, broker, requests, available, reply, receiver, refs, queue,
                   armed, swallowed, stranded>>

\* listener asks for the no-senders notification, and destroys the right when
\* it cannot.  With no sender left the kernel may notify at once or never.
Arm(c) ==
    /\ state[c] = "arming"
    /\ \/ /\ state' = [state EXCEPT ![c] = "listening"]
          /\ IF ~NoSenders(refs, reply)
             THEN armed' = TRUE /\ UNCHANGED <<queue, swallowed>>
             ELSE \/ queue' = Append(queue, "nosenders") /\ UNCHANGED <<armed, swallowed>>
                  \/ swallowed' = TRUE /\ UNCHANGED <<armed, queue>>
          /\ UNCHANGED receiver
       \/ /\ state' = [state EXCEPT ![c] = "failed"]
          /\ PortAfter(refs, reply, "dead")
          /\ UNCHANGED swallowed
    /\ UNCHANGED <<brokerPort, broker, requests, available, reply, refs, stranded>>

-----------------------------------------------------------------------------
(* Senders.                                                                *)

\* A full queue already holds a hint: the timed-out send is a success.  A
\* dead port is reported and nothing changes.
Notify(c) ==
    /\ state[c] = "sender" /\ refs[c] > 0 /\ receiver # "dead"
    /\ queue' = IF Len(queue) < QueueLimit THEN Append(queue, "signal") ELSE queue
    /\ UNCHANGED <<brokerPort, broker, requests, available, reply, receiver, refs, armed,
                   state, swallowed, stranded>>

\* A clone adds a reference; with a dead port it panics and adds none.
CloneSender(c) ==
    /\ state[c] = "sender" /\ refs[c] \in 1..(MaxRefs - 1) /\ receiver # "dead"
    /\ refs' = [refs EXCEPT ![c] = @ + 1]
    /\ UNCHANGED <<brokerPort, broker, requests, available, reply, receiver, queue, armed,
                   state, swallowed, stranded>>

DropSender(c) ==
    /\ state[c] = "sender" /\ refs[c] > 0
    /\ refs' = [refs EXCEPT ![c] = @ - 1]
    /\ PortAfter(refs', reply, receiver)
    /\ UNCHANGED <<brokerPort, broker, requests, available, reply, state, swallowed,
                   stranded>>

-----------------------------------------------------------------------------
(* The listener.                                                           *)

\* A plausible slip: any message is taken for the notification.
WaitAny(c) ==
    /\ state[c] = "listening" /\ queue # <<>>
    /\ queue' = Tail(queue)
    /\ state' = [state EXCEPT ![c] = "told"]
    /\ UNCHANGED <<brokerPort, broker, requests, available, reply, receiver, refs, armed,
                   swallowed, stranded>>

\* wait: the first message; a no-senders notification is Cancelled.
Wait(c) ==
    /\ state[c] = "listening" /\ queue # <<>>
    /\ queue' = Tail(queue)
    /\ state' = [state EXCEPT ![c] = IF Head(queue) = "nosenders" THEN "told" ELSE "draining"]
    /\ UNCHANGED <<brokerPort, broker, requests, available, reply, receiver, refs, armed,
                   swallowed, stranded>>

\* wait: the loop that coalesces duplicates takes every message, whatever it
\* is, until the port is empty, and reports Signaled.
Drain(c) ==
    /\ state[c] = "draining"
    /\ queue' = <<>>
    /\ swallowed' = (swallowed \/ Contains(queue, "nosenders"))
    /\ state' = [state EXCEPT ![c] = "listening"]
    /\ UNCHANGED <<brokerPort, broker, requests, available, reply, receiver, refs, armed,
                   stranded>>

\* cancel, and drop: the receive right is destroyed.
CancelListener(c) ==
    /\ state[c] \in {"listening", "told"}
    /\ state' = [state EXCEPT ![c] = "cancelled"]
    /\ PortAfter(refs, reply, "dead")
    /\ UNCHANGED <<brokerPort, broker, requests, available, reply, refs, swallowed,
                   stranded>>

-----------------------------------------------------------------------------
(* Ends.                                                                   *)

\* MachSignalResource is dropped: the control port is destroyed and every
\* queued request with it.
DropSignal ==
    /\ brokerPort = "open"
    /\ brokerPort' = "dead" /\ requests' = <<>>
    /\ reply' = [c \in Clients |->
                    IF Alive(c) /\ \E i \in DOMAIN requests : requests[i].client = c
                    THEN "refused" ELSE reply[c]]
    /\ UNCHANGED <<broker, available, receiver, refs, queue, armed, state, swallowed,
                   stranded>>

\* serve returns: it destroys the port it still owns, or releases its send
\* right when the receive right has been given away.
BrokerEnds ==
    /\ broker = "serving" /\ brokerPort = "dead"
    /\ broker' = "ended"
    /\ refs' = [refs EXCEPT ![Host] = 0]
    /\ PortAfter(refs', reply, IF available THEN "dead" ELSE receiver)
    /\ UNCHANGED <<brokerPort, requests, available, reply, state, swallowed, stranded>>

\* A client's process exits: the kernel releases every right it held or that
\* was on its way to it.
Exit(c) ==
    /\ Alive(c)
    /\ state' = [state EXCEPT ![c] = "gone"]
    /\ refs' = [refs EXCEPT ![c] = 0]
    /\ reply' = [reply EXCEPT ![c] = "none"]
    /\ PortAfter(refs', reply', IF receiver = c \/ reply[c] = "receive" THEN "dead" ELSE receiver)
    /\ UNCHANGED <<brokerPort, broker, requests, available, swallowed, stranded>>

-----------------------------------------------------------------------------
\* MachSignal::sender and listener.
Attach(c) ==
    \/ \E id \in {"sender", "listener"}, expected \in {"current", "stale"} :
         Request(c, id, expected)
    \/ ReceiveReply(c) \/ Arm(c)

SenderCall(c) == Notify(c) \/ CloneSender(c) \/ DropSender(c)

ListenerCall(c) == Wait(c) \/ Drain(c) \/ CancelListener(c)

ClientStep(c) == Attach(c) \/ SenderCall(c) \/ ListenerCall(c) \/ Exit(c)

SignalNext == Serve \/ DropSignal \/ BrokerEnds \/ \E c \in Clients : ClientStep(c)

\* The broker thread serves and ends, a client that asked receives its reply
\* and arms, and a listener keeps waiting for hints.
SignalFairness ==
    /\ WF_signalVars(Serve) /\ WF_signalVars(BrokerEnds)
    /\ \A c \in Clients : /\ WF_signalVars(ReceiveReply(c) \/ Arm(c))
                          /\ WF_signalVars(Wait(c) \/ Drain(c))

SignalSpec == SignalInit /\ [][SignalNext]_signalVars /\ SignalFairness

-----------------------------------------------------------------------------
(* Properties.                                                             *)

\* A listener is told Cancelled only when no send right is left anywhere, the
\* broker's and those still on their way to a client included.
CancelledOnlyAfterLastSender ==
    (\E c \in Clients : state[c] = "told") => NoSenders(refs, reply)

\* When the last sender has gone the listener learns of it (the test
\* broker_exit_delivers_no_senders_notification).  Not always:
LastSenderIsSeen ==
    \A c \in Clients :
        (state[c] = "listening" /\ NoSenders(refs, reply)) ~> (state[c] # "listening")

\* ... unless the coalescing loop took the notification, or it was asked for
\* after the last sender had gone and the kernel sent none.
LastSenderIsSeenUnlessSwallowed ==
    \A c \in Clients :
        (state[c] = "listening" /\ NoSenders(refs, reply) /\ ~swallowed)
            ~> (state[c] \notin {"listening", "draining"} \/ swallowed)

=============================================================================
