----------------------------- MODULE MacosProofs -----------------------------
(***************************************************************************)
(* What holds of the macOS bindings for every number of clients and every  *)
(* bound: the signal port (MachSignal), the rendezvous (MachRendezvous)    *)
(* and the pages of an injected bundle (Bundle).                           *)
(***************************************************************************)
EXTENDS MachSignal, MachRendezvous, Bundle, TLAPS

(***************************************************************************)
(* The signal port.  A listener believes a no-senders notification because *)
(* none is ever made again of a port whose last send right has gone: only  *)
(* the broker makes new ones, and it holds one itself as long as it serves.*)
(***************************************************************************)

\* A no-senders notification waits in the queue, or has been taken from it.
Waits(q) == \E i \in DOMAIN q : q[i] = "nosenders"
Told(s) == \E c \in Clients : s[c] = "told"

SignalInv ==
    /\ SignalTypeOK
    /\ broker = "serving" => refs[Host] = 1
    /\ Waits(queue) \/ Told(state) => NoSenders(refs, reply)

LEMMA EmptyQueue == <<>> \in Seq(Messages) /\ ~Waits(<<>>)
BY DEF Waits

LEMMA AppendedQueue ==
    ASSUME NEW q \in Seq(Messages), NEW m \in Messages
    PROVE  /\ Append(q, m) \in Seq(Messages)
           /\ Waits(Append(q, m)) => Waits(q) \/ m = "nosenders"
BY DEF Waits

LEMMA ShortenedQueue ==
    ASSUME NEW q \in Seq(Messages), q # <<>>
    PROVE  /\ Head(q) \in Messages /\ Tail(q) \in Seq(Messages)
           /\ Waits(Tail(q)) => Waits(q)
           /\ Head(q) = "nosenders" => Waits(q)
<1>1. ASSUME NEW i \in DOMAIN Tail(q) PROVE i + 1 \in DOMAIN q /\ Tail(q)[i] = q[i + 1]
  OBVIOUS
<1>2. 1 \in DOMAIN q /\ Head(q) = q[1]
  OBVIOUS
<1>3. Head(q) \in Messages /\ Tail(q) \in Seq(Messages)
  OBVIOUS
<1> QED BY <1>1, <1>2, <1>3 DEF Waits

LEMMA RequestQueue ==
    ASSUME NEW q \in Seq(Requests)
    PROVE  /\ \A r \in Requests : Append(q, r) \in Seq(Requests)
           /\ q # <<>> => Head(q) \in Requests /\ Tail(q) \in Seq(Requests)
OBVIOUS

\* What a client is doing changes, and it is not told anything.
LEMMA StateStep ==
    ASSUME SignalTypeOK, NEW c \in Clients,
           NEW s \in {"idle", "asked", "failed", "sender", "arming", "listening",
                      "draining", "told", "cancelled", "gone"}
    PROVE  /\ [state EXCEPT ![c] = s] \in
                [Clients -> {"idle", "asked", "failed", "sender", "arming", "listening",
                             "draining", "told", "cancelled", "gone"}]
           /\ s # "told" /\ Told([state EXCEPT ![c] = s]) => Told(state)
BY DEF SignalTypeOK, Told

LEMMA SignalInitially == SignalInit => SignalInv
<1> SUFFICES ASSUME SignalInit PROVE SignalInv
  OBVIOUS
<1>1. /\ refs = [t \in Tasks |-> IF t = Host THEN 1 ELSE 0] /\ Host \in Tasks
      /\ queue = <<>> /\ armed = FALSE /\ receiver = Host
  BY DEF SignalInit, AllocatePort, Tasks
<1>2. SignalTypeOK
  <2>1. refs \in [Tasks -> 0..MaxRefs] /\ queue \in Seq(Messages)
    BY <1>1, EmptyQueue, MaxRefsAssumption
  <2>2. requests \in Seq(Requests)
    BY DEF SignalInit
  <2> QED BY <1>1, <2>1, <2>2 DEF SignalInit, SignalTypeOK
<1>3. ~Waits(queue) /\ ~Told(state)
  BY <1>1, EmptyQueue DEF Told, SignalInit
<1> QED BY <1>1, <1>2, <1>3 DEF SignalInv

LEMMA RequestStep ==
    ASSUME SignalInv, NEW c \in Clients, NEW id \in {"sender", "listener"},
           NEW expected, Request(c, id, expected)
    PROVE  SignalInv'
<1>1. [client |-> c, id |-> id] \in Requests
  BY DEF Requests
<1>2. requests \in Seq(Requests) /\ SignalTypeOK
  BY DEF SignalInv, SignalTypeOK
<1>3. PICK s \in {"asked", "failed"} : state' = [state EXCEPT ![c] = s]
  BY DEF Request
<1>4. /\ requests' \in Seq(Requests)
      /\ UNCHANGED <<brokerPort, broker, available, reply, receiver, refs, queue, armed,
                     swallowed, stranded>>
  BY <1>1, <1>2, RequestQueue DEF Request
<1>5. SignalTypeOK'
  BY <1>2, <1>3, <1>4, StateStep DEF SignalTypeOK
<1>6. Told(state') => Told(state)
  BY <1>2, <1>3, StateStep
<1> QED BY <1>4, <1>5, <1>6 DEF SignalInv, NoSenders

LEMMA ServeStep ==
    ASSUME SignalInv, Serve
    PROVE  SignalInv'
<1> DEFINE c == Head(requests).client
<1>1. requests \in Seq(Requests) /\ SignalTypeOK
  BY DEF SignalInv, SignalTypeOK
<1>2. c \in Clients /\ requests' \in Seq(Requests)
  BY <1>1, RequestQueue DEF Serve, Requests
<1>3. /\ broker = "serving"
      /\ \/ reply' = reply
         \/ \E r \in {"send", "receive", "refused"} : reply' = [reply EXCEPT ![c] = r]
      /\ receiver' \in {receiver, "reply"}
      /\ available' \in BOOLEAN /\ stranded' \in BOOLEAN
      /\ UNCHANGED <<brokerPort, broker, refs, queue, armed, state, swallowed>>
  BY DEF Serve, Alive
<1> HIDE DEF c
<1>4. SignalTypeOK'
  BY <1>1, <1>2, <1>3 DEF SignalTypeOK
<1>5. ~Waits(queue) /\ ~Told(state)
  BY <1>3 DEF SignalInv, NoSenders, Tasks
<1> QED BY <1>3, <1>4, <1>5 DEF SignalInv

LEMMA ReceiveReplyStep ==
    ASSUME SignalInv, NEW c \in Clients, ReceiveReply(c)
    PROVE  SignalInv'
<1>1. SignalTypeOK /\ c \in Tasks /\ c # Host
  BY ClientsAssumption DEF SignalInv, Host, Tasks
<1>2. PICK s \in {"sender", "arming", "failed"} : state' = [state EXCEPT ![c] = s]
  BY DEF ReceiveReply
<1>3. /\ reply' = [reply EXCEPT ![c] = "none"]
      /\ \/ refs' = refs
         \/ reply[c] = "send" /\ refs' = [refs EXCEPT ![c] = 1]
      /\ receiver' \in {receiver, c}
      /\ UNCHANGED <<brokerPort, broker, requests, available, queue, armed, swallowed,
                     stranded>>
  BY DEF ReceiveReply
<1>4. SignalTypeOK'
  <2>1. refs' \in [Tasks -> 0..MaxRefs]
    BY <1>1, <1>3, MaxRefsAssumption DEF SignalTypeOK
  <2> QED BY <1>1, <1>2, <1>3, <2>1, StateStep DEF SignalTypeOK
<1>5. Told(state') => Told(state)
  BY <1>1, <1>2, StateStep
<1>6. NoSenders(refs, reply) => NoSenders(refs', reply')
  BY <1>1, <1>3 DEF NoSenders, SignalTypeOK
<1>7. broker' = "serving" => refs'[Host] = 1
  BY <1>1, <1>3 DEF SignalInv, SignalTypeOK, Tasks
<1> QED BY <1>3, <1>4, <1>5, <1>6, <1>7 DEF SignalInv

\* The kernel's part of a step, whatever the step did to the rights before it:
\* a notification is queued only of a port without senders.
LEMMA PortStep ==
    ASSUME SignalTypeOK, NEW r, NEW p, NEW who \in Tasks \cup {"reply", "dead"},
           PortAfter(r, p, who)
    PROVE  /\ receiver' \in Tasks \cup {"reply", "dead"}
           /\ queue' \in Seq(Messages) /\ armed' \in BOOLEAN
           /\ Waits(queue') => Waits(queue) \/ NoSenders(r, p)
<1>1. queue \in Seq(Messages) /\ armed \in BOOLEAN
  BY DEF SignalTypeOK
<1>2. CASE who = "dead"
  BY <1>2, EmptyQueue DEF PortAfter
<1>3. CASE who # "dead" /\ armed /\ NoSenders(r, p)
  <2>1. "nosenders" \in Messages
    BY DEF Messages
  <2>2. queue' = Append(queue, "nosenders") /\ armed' = FALSE /\ receiver' = who
    BY <1>3 DEF PortAfter
  <2> QED BY <1>1, <1>3, <2>1, <2>2, AppendedQueue
<1>4. CASE who # "dead" /\ ~(armed /\ NoSenders(r, p))
  BY <1>1, <1>4 DEF PortAfter
<1> QED BY <1>2, <1>3, <1>4

LEMMA ArmStep ==
    ASSUME SignalInv, NEW c \in Clients, Arm(c)
    PROVE  SignalInv'
<1>1. SignalTypeOK /\ queue \in Seq(Messages) /\ "nosenders" \in Messages
  BY DEF SignalInv, SignalTypeOK, Messages
<1>2. PICK s \in {"listening", "failed"} : state' = [state EXCEPT ![c] = s]
  BY DEF Arm
<1>3. UNCHANGED <<brokerPort, broker, requests, available, reply, refs, stranded>>
  BY DEF Arm
<1>4. /\ receiver' \in Tasks \cup {"reply", "dead"} /\ armed' \in BOOLEAN
      /\ swallowed' \in BOOLEAN /\ queue' \in Seq(Messages)
      /\ Waits(queue') => Waits(queue) \/ NoSenders(refs, reply)
  <2>1. CASE PortAfter(refs, reply, "dead") /\ UNCHANGED swallowed
    BY <1>1, <2>1, PortStep DEF SignalTypeOK
  <2>2. CASE /\ UNCHANGED receiver
             /\ \/ armed' = TRUE /\ UNCHANGED <<queue, swallowed>>
                \/ /\ NoSenders(refs, reply)
                   /\ queue' = Append(queue, "nosenders") /\ UNCHANGED <<armed, swallowed>>
                \/ swallowed' = TRUE /\ UNCHANGED <<armed, queue>>
    <3>1. armed' \in BOOLEAN /\ swallowed' \in BOOLEAN /\ receiver' = receiver
      BY <1>1, <2>2 DEF SignalTypeOK
    <3>2. \/ queue' = queue
          \/ NoSenders(refs, reply) /\ queue' = Append(queue, "nosenders")
      BY <2>2
    <3>3. queue' \in Seq(Messages) /\ (Waits(queue') => Waits(queue) \/ NoSenders(refs, reply))
      BY <1>1, <3>2, AppendedQueue
    <3> QED BY <1>1, <3>1, <3>3 DEF SignalTypeOK
  <2> QED BY <2>1, <2>2 DEF Arm
<1>5. SignalTypeOK'
  BY <1>1, <1>2, <1>3, <1>4, StateStep DEF SignalTypeOK
<1>6. Told(state') => Told(state)
  BY <1>1, <1>2, StateStep
<1> QED BY <1>3, <1>4, <1>5, <1>6 DEF SignalInv

LEMMA NotifyStep ==
    ASSUME SignalInv, NEW c \in Clients, Notify(c)
    PROVE  SignalInv'
<1>1. SignalTypeOK /\ queue \in Seq(Messages) /\ "signal" \in Messages
  BY DEF SignalInv, SignalTypeOK, Messages
<1>2. /\ queue' \in Seq(Messages) /\ (Waits(queue') => Waits(queue))
      /\ UNCHANGED <<brokerPort, broker, requests, available, reply, receiver, refs, armed,
                     state, swallowed, stranded>>
  BY <1>1, AppendedQueue DEF Notify
<1>3. SignalTypeOK'
  BY <1>1, <1>2 DEF SignalTypeOK
<1> QED BY <1>2, <1>3 DEF SignalInv

\* A sender clones and drops only references it has, so the host's stays.
LEMMA SenderStep ==
    ASSUME SignalInv, NEW c \in Clients, CloneSender(c) \/ DropSender(c)
    PROVE  SignalInv'
<1>1. /\ SignalTypeOK /\ c \in Tasks /\ c # Host /\ Host \in Tasks
      /\ refs \in [Tasks -> 0..MaxRefs] /\ receiver \in Tasks \cup {"reply", "dead"}
  BY ClientsAssumption DEF SignalInv, SignalTypeOK, Host, Tasks
<1>2. /\ refs[c] > 0
      /\ \E n \in 0..MaxRefs : refs' = [refs EXCEPT ![c] = n]
      /\ UNCHANGED <<brokerPort, broker, requests, available, reply, state, swallowed,
                     stranded>>
  BY <1>1, MaxRefsAssumption DEF CloneSender, DropSender
<1>3. refs' \in [Tasks -> 0..MaxRefs] /\ refs'[Host] = refs[Host]
  BY <1>1, <1>2
<1>4. ~Waits(queue) /\ ~Told(state)
  BY <1>1, <1>2 DEF SignalInv, NoSenders
<1>5. /\ receiver' \in Tasks \cup {"reply", "dead"} /\ armed' \in BOOLEAN
      /\ queue' \in Seq(Messages)
      /\ Waits(queue') => NoSenders(refs', reply')
  <2>1. CASE CloneSender(c)
    BY <1>1, <1>4, <2>1 DEF CloneSender, SignalTypeOK
  <2>2. CASE DropSender(c)
    <3>1. PortAfter(refs', reply, receiver) /\ reply' = reply
      BY <2>2 DEF DropSender
    <3> QED BY <1>1, <1>4, <3>1, PortStep
  <2> QED BY <2>1, <2>2
<1>6. SignalTypeOK'
  BY <1>1, <1>2, <1>3, <1>5 DEF SignalTypeOK
<1> QED BY <1>2, <1>3, <1>4, <1>5, <1>6 DEF SignalInv

\* Only a notification tells the listener, and it was in the queue.
LEMMA ListenStep ==
    ASSUME SignalInv, NEW c \in Clients, Wait(c) \/ Drain(c)
    PROVE  SignalInv'
<1>1. SignalTypeOK /\ queue \in Seq(Messages)
  BY DEF SignalInv, SignalTypeOK
<1>2. PICK s \in {"told", "draining", "listening"} :
        /\ state' = [state EXCEPT ![c] = s]
        /\ s = "told" => Wait(c) /\ Head(queue) = "nosenders"
  BY DEF Wait, Drain
<1>3. /\ swallowed' \in BOOLEAN
      /\ UNCHANGED <<brokerPort, broker, requests, available, reply, receiver, refs, armed,
                     stranded>>
  BY <1>1 DEF Wait, Drain, SignalTypeOK
<1>4. queue' \in Seq(Messages) /\ (Waits(queue') => Waits(queue))
  BY <1>1, ShortenedQueue, EmptyQueue DEF Wait, Drain
<1>5. Told(state') => Told(state) \/ Waits(queue)
  BY <1>1, <1>2, StateStep, ShortenedQueue DEF Wait
<1>6. SignalTypeOK'
  BY <1>1, <1>2, <1>3, <1>4, StateStep DEF SignalTypeOK
<1> QED BY <1>3, <1>4, <1>5, <1>6 DEF SignalInv

LEMMA CancelStep ==
    ASSUME SignalInv, NEW c \in Clients, CancelListener(c)
    PROVE  SignalInv'
<1>1. SignalTypeOK
  BY DEF SignalInv
<1>2. /\ state' = [state EXCEPT ![c] = "cancelled"]
      /\ PortAfter(refs, reply, "dead")
      /\ UNCHANGED <<brokerPort, broker, requests, available, reply, refs, swallowed,
                     stranded>>
  BY DEF CancelListener
<1>3. /\ receiver' \in Tasks \cup {"reply", "dead"} /\ armed' \in BOOLEAN
      /\ queue' \in Seq(Messages)
      /\ Waits(queue') => Waits(queue) \/ NoSenders(refs, reply)
  BY <1>1, <1>2, PortStep
<1>4. SignalTypeOK'
  BY <1>1, <1>2, <1>3, StateStep DEF SignalTypeOK
<1>5. Told(state') => Told(state)
  BY <1>1, <1>2, StateStep
<1> QED BY <1>2, <1>3, <1>4, <1>5 DEF SignalInv

\* The resource is dropped: a client whose request dies is refused, which
\* gives it no right.
LEMMA DropSignalStep ==
    ASSUME SignalInv, DropSignal
    PROVE  SignalInv'
<1>1. SignalTypeOK
  BY DEF SignalInv
<1>2. /\ brokerPort' = "dead" /\ requests' = <<>>
      /\ UNCHANGED <<broker, available, receiver, refs, queue, armed, state, swallowed,
                     stranded>>
  BY DEF DropSignal
<1>3. /\ reply' \in [Clients -> {"none", "send", "receive", "refused"}]
      /\ \A c \in Clients : reply'[c] = "send" => reply[c] = "send"
  BY <1>1 DEF DropSignal, SignalTypeOK
<1>4. SignalTypeOK'
  BY <1>1, <1>2, <1>3 DEF SignalTypeOK
<1>5. NoSenders(refs, reply) => NoSenders(refs', reply')
  BY <1>2, <1>3 DEF NoSenders
<1> QED BY <1>2, <1>4, <1>5 DEF SignalInv

\* The broker's own right goes when it ends, a client's when it exits.
LEMMA EndStep ==
    ASSUME SignalInv, BrokerEnds \/ \E c \in Clients : Exit(c)
    PROVE  SignalInv'
<1>1. /\ SignalTypeOK /\ Host \in Tasks /\ Host \notin Clients /\ Clients \subseteq Tasks
      /\ refs \in [Tasks -> 0..MaxRefs] /\ receiver \in Tasks \cup {"reply", "dead"}
  BY ClientsAssumption DEF SignalInv, SignalTypeOK, Host, Tasks
<1>2. PICK t \in Tasks, who \in Tasks \cup {"reply", "dead"} :
        /\ refs' = [refs EXCEPT ![t] = 0]
        /\ PortAfter(refs', reply', who)
        /\ broker' = "serving" => broker = "serving" /\ t # Host
  <2>1. CASE BrokerEnds
    BY <1>1, <2>1 DEF BrokerEnds
  <2>2. CASE \E c \in Clients : Exit(c)
    BY <1>1, <2>2 DEF Exit
  <2> QED BY <2>1, <2>2
<1>3. /\ broker' \in {"serving", "ended"}
      /\ UNCHANGED <<brokerPort, requests, available, swallowed, stranded>>
      /\ \/ UNCHANGED <<state, reply>>
         \/ \E c \in Clients : /\ state' = [state EXCEPT ![c] = "gone"]
                               /\ reply' = [reply EXCEPT ![c] = "none"]
  BY <1>1 DEF BrokerEnds, Exit, SignalTypeOK
<1>4. /\ receiver' \in Tasks \cup {"reply", "dead"} /\ armed' \in BOOLEAN
      /\ queue' \in Seq(Messages)
      /\ Waits(queue') => Waits(queue) \/ NoSenders(refs', reply')
  BY <1>1, <1>2, PortStep
<1>5. /\ refs' \in [Tasks -> 0..MaxRefs]
      /\ \A u \in Tasks : refs'[u] # 0 => u # t /\ refs'[u] = refs[u]
      /\ \A u \in Tasks : u # t => refs'[u] = refs[u]
  BY <1>1, <1>2, MaxRefsAssumption
<1>6. /\ reply' \in [Clients -> {"none", "send", "receive", "refused"}]
      /\ \A c \in Clients : reply'[c] = "send" => reply[c] = "send"
  BY <1>1, <1>3 DEF SignalTypeOK
<1>7. Told(state') => Told(state)
  <2>1. CASE UNCHANGED <<state, reply>>
    BY <2>1
  <2>2. CASE \E c \in Clients : state' = [state EXCEPT ![c] = "gone"]
    <3>1. PICK c \in Clients : state' = [state EXCEPT ![c] = "gone"]
      BY <2>2
    <3> QED BY <1>1, <3>1, StateStep
  <2> QED BY <1>3, <2>1, <2>2
<1>8. SignalTypeOK'
  BY <1>1, <1>3, <1>4, <1>5, <1>6, StateStep DEF SignalTypeOK
<1>9. NoSenders(refs, reply) => NoSenders(refs', reply')
  BY <1>5, <1>6 DEF NoSenders
<1>10. broker' = "serving" => refs'[Host] = 1
  BY <1>1, <1>2, <1>5 DEF SignalInv
<1> QED BY <1>4, <1>7, <1>8, <1>9, <1>10 DEF SignalInv

LEMMA SignalStep == SignalInv /\ [SignalNext]_signalVars => SignalInv'
<1> SUFFICES ASSUME SignalInv, [SignalNext]_signalVars PROVE SignalInv'
  OBVIOUS
<1>1. CASE UNCHANGED signalVars
  BY <1>1 DEF signalVars, SignalInv, SignalTypeOK, NoSenders
<1>2. CASE Serve \/ DropSignal \/ BrokerEnds
  BY <1>2, ServeStep, DropSignalStep, EndStep
<1>3. ASSUME NEW c \in Clients, ClientStep(c) PROVE SignalInv'
  <2>1. CASE Attach(c)
    BY <2>1, RequestStep, ReceiveReplyStep, ArmStep DEF Attach
  <2>2. CASE SenderCall(c)
    BY <2>2, NotifyStep, SenderStep DEF SenderCall
  <2>3. CASE ListenerCall(c)
    BY <2>3, ListenStep, CancelStep DEF ListenerCall
  <2>4. CASE Exit(c)
    BY <2>4, EndStep
  <2> QED BY <1>3, <2>1, <2>2, <2>3, <2>4 DEF ClientStep
<1> QED BY <1>1, <1>2, <1>3 DEF SignalNext

\* In every state of a wake broker: it holds a send right while it serves, and a
\* no-senders notification on its way or delivered means no sender is left.
THEOREM SignalInvariance == SignalSpec => []SignalInv
BY SignalInitially, SignalStep, PTL DEF SignalSpec

\* MachListener::wait reports Cancelled only of a port whose every send right has
\* gone, the broker's own and those in a reply not yet received included,
\* whatever the order of attaching, cloning, dropping and exiting.
THEOREM CancelledSafe == SignalSpec => []CancelledOnlyAfterLastSender
<1>1. SignalInv => CancelledOnlyAfterLastSender
  BY DEF SignalInv, CancelledOnlyAfterLastSender, Told
<1> QED BY <1>1, SignalInvariance, PTL

(***************************************************************************)
(* The rendezvous.  Whatever the host still has when its worker ends is    *)
(* released then, and a control right on its way is with a consumer that   *)
(* waits: between them they account for every right of the endpoint.       *)
(***************************************************************************)

RendezvousInv ==
    /\ TypeOK
    /\ worker \in {"ack", "ended"} => bundle[Role] # "held"
    /\ worker \in {"transfer", "ack", "ended"} => control # "host"
    /\ control \in Consumers => consumer[control] \in {"connecting", "receiving"}
    /\ queued \/ took # {} => bundle[Role] # "held"
    /\ queued => took = {}
    /\ \A c, d \in took : c = d

RightRecord == [receive : BOOLEAN, send : 0..3]

LEMMA RoleKinds ==
    ASSUME NEW role \in Roles
    PROVE  Sends(role) \subseteq Names /\ Receives(role) \subseteq Names
BY DEF Sends, Receives, CanonicalKinds, Names, Signal, Memory, Other, Roles

\* Releasing names, whichever they are, leaves every name a count of rights.
LEMMA ReleasedType ==
    ASSUME NEW ns \in [Names -> RightRecord], NEW D, NEW S
    PROVE  Released(ns, D, S) \in [Names -> RightRecord]
<1> SUFFICES ASSUME NEW n \in Names
             PROVE  Released(ns, D, S)[n] \in RightRecord
  BY DEF Released
<1>1. DropReceive(ns[n]) \in RightRecord
  BY DEF DropReceive, Gone, Right, RightRecord
<1>2. DropSend(ns[n]) \in RightRecord
  <2>1. ns[n].receive \in BOOLEAN /\ ns[n].send \in 0..3
    BY DEF RightRecord
  <2>2. CASE ns[n].send > 0
    BY <2>1, <2>2 DEF DropSend, Right, RightRecord
  <2>3. CASE ~(ns[n].send > 0)
    BY <2>3 DEF DropSend
  <2> QED BY <2>2, <2>3
<1> QED BY <1>1, <1>2 DEF Released

LEMMA MovedType ==
    ASSUME NEW role \in Roles, names \in [Names -> RightRecord], Movable(role)
    PROVE  Moved(names, role) \in [Names -> RightRecord]
<1> SUFFICES ASSUME NEW n \in Names
             PROVE  Moved(names, role)[n] \in RightRecord
  BY DEF Moved
<1>1. /\ names[n].receive \in BOOLEAN /\ names[n].send \in 0..3
      /\ n \in Sends(role) => names[n].send > 0
  BY DEF RightRecord, Movable
<1>2. /\ (names[n].receive /\ n \notin Receives(role)) \in BOOLEAN
      /\ names[n].send - (IF n \in Sends(role) THEN 1 ELSE 0) \in 0..3
  BY <1>1
<1> QED BY <1>2 DEF Moved, Right, RightRecord

\* A bundle that is dropped, or moved, is not held any more; the other stays.
LEMMA DropBundleStep ==
    ASSUME TransferTypeOK, NEW role \in Roles, NEW ns \in [Names -> RightRecord],
           NEW ctl, DropBundle(role, ns, ctl)
    PROVE  /\ names' \in [Names -> RightRecord] /\ stale' \in BOOLEAN
           /\ bundle' = [bundle EXCEPT ![role] = "released"]
BY ReleasedType DEF DropBundle, TransferTypeOK

LEMMA TransferStep ==
    ASSUME TransferTypeOK, NEW role \in Roles, NEW identity, NEW delivered,
           Transfer(role, identity, delivered)
    PROVE  /\ TransferTypeOK'
           /\ bundle[role] = "held"
           /\ \E b \in {"moved", "released"} : bundle' = [bundle EXCEPT ![role] = b]
<1>1. /\ names \in [Names -> RightRecord]
      /\ bundle \in [Roles -> {"held", "moved", "released"}]
      /\ attempted \in [Roles -> BOOLEAN]
  BY DEF TransferTypeOK, RightRecord
<1>2. /\ bundle[role] = "held" /\ attempted' = [attempted EXCEPT ![role] = TRUE]
      /\ UNCHANGED <<resource, owns>>
  BY DEF Transfer
<1>3. /\ names' \in [Names -> RightRecord] /\ stale' \in BOOLEAN
      /\ \E b \in {"moved", "released"} : bundle' = [bundle EXCEPT ![role] = b]
  <2>1. CASE DropBundle(role, names, {Control(role)})
    BY <1>1, <2>1, DropBundleStep
  <2>2. CASE /\ delivered /\ Movable(role)
             /\ bundle' = [bundle EXCEPT ![role] = "moved"]
             /\ names' = Released(Moved(names, role), {}, {Control(role)})
             /\ stale' = (stale \/ Missing(names, {}, {Control(role)}))
    <3>1. Moved(names, role) \in [Names -> RightRecord]
      BY <1>1, <2>2, MovedType
    <3> QED BY <2>2, <3>1, ReleasedType
  <2> QED BY <2>1, <2>2 DEF Transfer, CleanupDescriptors
<1> QED BY <1>1, <1>2, <1>3 DEF TransferTypeOK, RightRecord

LEMMA HostLetsStep ==
    ASSUME TypeOK, HostLets
    PROVE  /\ TransferTypeOK'
           /\ bundle'[Role] # "held"
           /\ control' \in {control, "dead"} /\ control' # "host"
           /\ queued' \in BOOLEAN /\ (queued' => queued)
<1>1. /\ names \in [Names -> RightRecord] /\ Role \in Roles
      /\ bundle \in [Roles -> {"held", "moved", "released"}] /\ queued \in BOOLEAN
  BY DEF TypeOK, TransferTypeOK, RightRecord, Role, Roles
<1>2. names' \in [Names -> RightRecord] /\ stale' \in BOOLEAN
  BY <1>1, ReleasedType DEF HostLets
<1>3. /\ bundle' \in [Roles -> {"held", "moved", "released"}] /\ bundle'[Role] # "held"
      /\ UNCHANGED <<resource, owns, attempted>>
  BY <1>1 DEF HostLets
<1>4. TransferTypeOK'
  BY <1>2, <1>3 DEF TypeOK, TransferTypeOK, RightRecord
<1>5. /\ control' \in {control, "dead"} /\ control' # "host"
      /\ queued' \in BOOLEAN /\ (queued' => queued)
  BY <1>1 DEF HostLets, ControlDies
<1> QED BY <1>3, <1>4, <1>5

LEMMA InboxType ==
    ASSUME NEW q \in Seq(Mail)
    PROVE  /\ <<>> \in Seq(Mail)
           /\ \A m \in Mail : Append(q, m) \in Seq(Mail)
           /\ q # <<>> => Head(q) \in Mail /\ Tail(q) \in Seq(Mail)
OBVIOUS

LEMMA RendezvousInitially == Init => RendezvousInv
<1> SUFFICES ASSUME Init PROVE RendezvousInv
  OBVIOUS
<1>1. TransferTypeOK
  <2>1. names \in [Names -> RightRecord]
    BY DEF Init, TransferInit, Right, RightRecord
  <2> QED BY <2>1 DEF Init, TransferInit, TransferTypeOK, RightRecord
<1>2. manifest \in TransferIdentity
  BY DEF Init, TransferIdentity, IdentityOf, Role, Other, Roles
<1>3. inbox \in Seq(Mail)
  BY InboxType DEF Init
<1>4. TypeOK
  BY <1>1, <1>2, <1>3 DEF Init, TypeOK
<1> QED BY <1>4, ConsumersAssumption DEF Init, RendezvousInv

-----------------------------------------------------------------------------
(* One lemma per action of the host.                                       *)

LEMMA PublishStep ==
    ASSUME RendezvousInv, Publish
    PROVE  RendezvousInv'
<1>1. /\ TypeOK /\ TransferTypeOK /\ Role \in Roles /\ names \in [Names -> RightRecord]
      /\ bundle \in [Roles -> {"held", "moved", "released"}]
  BY DEF RendezvousInv, TypeOK, TransferTypeOK, RightRecord, Role, Roles
<1>2. UNCHANGED <<inbox, queued, completed, consumer, refused, took, manifest>>
  BY DEF Publish
<1>3. CASE service' = "live" /\ worker' = "connect" /\ UNCHANGED <<transferVars, control>>
  BY <1>2, <1>3 DEF RendezvousInv, TypeOK, TransferTypeOK, transferVars
<1>4. CASE /\ service' \in {"dead", "leaked"} /\ worker' = "ended" /\ control' = "leaked"
           /\ DropBundle(Role, names, {Control(Role)})
           /\ UNCHANGED <<resource, owns, attempted>>
  <2>1. /\ names' \in [Names -> RightRecord] /\ stale' \in BOOLEAN
        /\ bundle' = [bundle EXCEPT ![Role] = "released"]
    BY <1>1, <1>4, DropBundleStep
  <2>2. TypeOK'
    BY <1>1, <1>2, <1>4, <2>1 DEF TypeOK, TransferTypeOK, RightRecord
  <2> QED BY <1>1, <1>2, <1>4, <2>1, <2>2, ConsumersAssumption DEF RendezvousInv
<1> QED BY <1>3, <1>4 DEF Publish

LEMMA ServeConnectStep ==
    ASSUME RendezvousInv, ServeConnect
    PROVE  RendezvousInv'
<1> DEFINE m == Head(inbox)
<1>1. /\ TypeOK /\ Role \in Roles /\ bundle \in [Roles -> {"held", "moved", "released"}]
      /\ names \in [Names -> RightRecord] /\ inbox \in Seq(Mail) /\ inbox # <<>>
  BY DEF RendezvousInv, TypeOK, TransferTypeOK, RightRecord, Role, Roles, ServeConnect
<1>2. m.from \in Consumers /\ inbox' \in Seq(Mail)
  BY <1>1, InboxType DEF ServeConnect, Mail
<1>3. /\ worker = "connect"
      /\ UNCHANGED <<service, completed, consumer, took, manifest>>
  BY DEF ServeConnect
<1>4. CASE /\ refused' = IF consumer[m.from] = "connecting" THEN refused \cup {m.from}
                         ELSE refused
           /\ UNCHANGED <<transferVars, worker, control, queued>>
  <2>1. refused' \subseteq Consumers
    BY <1>1, <1>2, <1>4 DEF TypeOK
  <2>2. TypeOK'
    BY <1>1, <1>2, <1>3, <1>4, <2>1 DEF TypeOK, TransferTypeOK, transferVars
  <2> QED BY <1>3, <1>4, <2>2 DEF RendezvousInv, transferVars
<1>5. CASE /\ consumer[m.from] = "connecting"
           /\ control' = m.from /\ worker' = "transfer"
           /\ names' = [names EXCEPT ![Control(Role)] = Right(FALSE, @.send)]
           /\ UNCHANGED <<resource, owns, bundle, attempted, stale, queued, refused>>
  <2>1. names' \in [Names -> RightRecord]
    <3>1. \A n \in Names : Right(FALSE, names[n].send) \in RightRecord
      BY <1>1 DEF Right, RightRecord
    <3> QED BY <1>1, <1>5, <3>1
  <2>2. TypeOK'
    BY <1>1, <1>2, <1>3, <1>5, <2>1 DEF TypeOK, TransferTypeOK, RightRecord
  <2> QED BY <1>2, <1>3, <1>5, <2>2, ConsumersAssumption DEF RendezvousInv
<1>6. CASE worker' = "ended" /\ HostLets /\ UNCHANGED refused
  <2>1. /\ TransferTypeOK' /\ bundle'[Role] # "held"
        /\ control' \in {control, "dead"} /\ control' # "host"
        /\ queued' \in BOOLEAN /\ (queued' => queued)
    BY <1>1, <1>6, HostLetsStep
  <2>2. TypeOK'
    BY <1>1, <1>2, <1>3, <1>6, <2>1 DEF TypeOK
  <2> QED BY <1>3, <1>6, <2>1, <2>2, ConsumersAssumption DEF RendezvousInv
<1> QED BY <1>4, <1>5, <1>6 DEF ServeConnect

LEMMA ServeTransferStep ==
    ASSUME RendezvousInv, ServeTransfer
    PROVE  RendezvousInv'
<1>1. /\ TypeOK /\ TransferTypeOK /\ Role \in Roles
      /\ bundle \in [Roles -> {"held", "moved", "released"}]
  BY DEF RendezvousInv, TypeOK, TransferTypeOK, Role, Roles
<1>2. /\ worker = "transfer"
      /\ queued' = (bundle'[Role] = "moved")
      /\ worker' \in {"ack", "ended"}
      /\ UNCHANGED <<service, inbox, control, completed, consumer, refused, took, manifest>>
  BY DEF ServeTransfer
<1>3. /\ TransferTypeOK' /\ bundle[Role] = "held"
      /\ \E b \in {"moved", "released"} : bundle' = [bundle EXCEPT ![Role] = b]
  BY <1>1, TransferStep DEF ServeTransfer
<1>4. bundle'[Role] \in {"moved", "released"}
  BY <1>1, <1>3
<1>5. queued' \in BOOLEAN /\ took = {}
  BY <1>2, <1>3 DEF RendezvousInv
<1>6. TypeOK'
  BY <1>1, <1>2, <1>3, <1>5 DEF TypeOK
<1> QED BY <1>2, <1>4, <1>5, <1>6 DEF RendezvousInv

LEMMA ServeAckStep ==
    ASSUME RendezvousInv, ServeAck
    PROVE  RendezvousInv'
<1>1. /\ TypeOK /\ inbox \in Seq(Mail) /\ inbox # <<>>
  BY DEF RendezvousInv, TypeOK, ServeAck
<1>2. /\ inbox' \in Seq(Mail) /\ completed' \in BOOLEAN
      /\ worker = "ack" /\ worker' = "ended"
      /\ UNCHANGED <<transferVars, service, control, queued, consumer, refused, took,
                     manifest>>
  BY <1>1, InboxType DEF ServeAck, Authenticates, Mail
<1>3. TypeOK'
  BY <1>1, <1>2 DEF TypeOK, TransferTypeOK, transferVars
<1> QED BY <1>2, <1>3 DEF RendezvousInv, transferVars

LEMMA ServeEndsStep ==
    ASSUME RendezvousInv, ServeEnds
    PROVE  RendezvousInv'
<1>1. TypeOK
  BY DEF RendezvousInv
<1>2. /\ worker' = "ended" /\ HostLets
      /\ UNCHANGED <<service, inbox, completed, consumer, refused, took, manifest>>
  BY DEF ServeEnds
<1>3. /\ TransferTypeOK' /\ bundle'[Role] # "held"
      /\ control' \in {control, "dead"} /\ control' # "host"
      /\ queued' \in BOOLEAN /\ (queued' => queued)
  BY <1>1, <1>2, HostLetsStep
<1>4. TypeOK'
  BY <1>1, <1>2, <1>3 DEF TypeOK
<1> QED BY <1>2, <1>3, <1>4, ConsumersAssumption DEF RendezvousInv

LEMMA DropHostStep ==
    ASSUME RendezvousInv, DropHost
    PROVE  RendezvousInv'
<1>1. /\ inbox' \in Seq(Mail) /\ refused' \subseteq Consumers /\ service' = "dead"
      /\ UNCHANGED <<transferVars, worker, control, queued, completed, consumer, took,
                     manifest>>
  BY InboxType DEF DropHost, RendezvousInv, TypeOK
<1>2. TypeOK'
  BY <1>1 DEF RendezvousInv, TypeOK, TransferTypeOK, transferVars
<1> QED BY <1>1, <1>2 DEF RendezvousInv, transferVars

LEMMA HostExitStep ==
    ASSUME RendezvousInv, HostExit
    PROVE  RendezvousInv'
<1>1. /\ TypeOK /\ Role \in Roles /\ bundle \in [Roles -> {"held", "moved", "released"}]
  BY DEF RendezvousInv, TypeOK, TransferTypeOK, Role, Roles
<1>2. /\ service' = "dead" /\ worker' = "ended" /\ inbox' \in Seq(Mail)
      /\ refused' \subseteq Consumers
      /\ names' = [n \in Names |-> Gone] /\ resource' = {}
      /\ UNCHANGED <<owns, attempted, stale, completed, consumer, took, manifest>>
  BY <1>1, InboxType DEF HostExit, TypeOK
<1>3. /\ bundle' \in [Roles -> {"held", "moved", "released"}] /\ bundle'[Role] # "held"
  BY <1>1 DEF HostExit
<1>4. /\ control' \in {control, "dead"} /\ control' # "host"
      /\ queued' \in BOOLEAN /\ (queued' => queued)
  BY <1>1 DEF HostExit, ControlDies, TypeOK
<1>5. names' \in [Names -> RightRecord]
  BY <1>2 DEF Gone, Right, RightRecord
<1>6. TypeOK'
  BY <1>1, <1>2, <1>3, <1>4, <1>5 DEF TypeOK, TransferTypeOK, RightRecord
<1> QED BY <1>2, <1>3, <1>4, <1>6, ConsumersAssumption DEF RendezvousInv

\* What happens to the peer's rights and to the host's resources leaves the
\* renderer's bundle alone.
LEMMA OtherRightsStep ==
    ASSUME RendezvousInv, MovePeer \/ DropHostResource
    PROVE  RendezvousInv'
<1>1. /\ TypeOK /\ TransferTypeOK /\ Role \in Roles /\ "peer" \in Roles /\ Role # "peer"
      /\ bundle \in [Roles -> {"held", "moved", "released"}]
      /\ names \in [Names -> RightRecord]
  BY DEF RendezvousInv, TypeOK, TransferTypeOK, RightRecord, Role, Roles
<1>2. UNCHANGED rendezvousVars
  BY DEF MovePeer, DropHostResource
<1>3. TransferTypeOK' /\ bundle'[Role] = bundle[Role]
  <2>1. CASE MovePeer
    <3>1. /\ TransferTypeOK'
          /\ \E b \in {"moved", "released"} : bundle' = [bundle EXCEPT !["peer"] = b]
      BY <1>1, <2>1, TransferStep DEF MovePeer
    <3> QED BY <1>1, <3>1
  <2>2. CASE DropHostResource
    <3>1. PICK n \in resource : DropResource(n)
      BY <2>2 DEF DropHostResource
    <3>2. names' \in [Names -> RightRecord] /\ stale' \in BOOLEAN
      BY <1>1, <3>1, ReleasedType DEF DropResource
    <3>3. /\ resource' \subseteq {"signal", "memory"} \X Roles
          /\ UNCHANGED <<owns, bundle, attempted>>
      BY <1>1, <3>1 DEF DropResource, TransferTypeOK
    <3> QED BY <1>1, <3>2, <3>3 DEF TransferTypeOK, RightRecord
  <2> QED BY <2>1, <2>2
<1>4. TypeOK'
  BY <1>1, <1>2, <1>3 DEF TypeOK, rendezvousVars
<1> QED BY <1>2, <1>3, <1>4 DEF RendezvousInv, rendezvousVars

-----------------------------------------------------------------------------
(* One lemma for the actions of a consumer.                                *)

LEMMA ConnectStep ==
    ASSUME RendezvousInv, NEW c \in Consumers, Connect(c)
    PROVE  RendezvousInv'
<1>1. TypeOK
  BY DEF RendezvousInv
<1>2. /\ consumer[c] = "idle"
      /\ \E s \in {"calling", "failed"} : consumer' = [consumer EXCEPT ![c] = s]
      /\ UNCHANGED <<transferVars, service, inbox, worker, control, queued, completed, refused,
                     took, manifest>>
  BY DEF Connect
<1>3. TypeOK'
  BY <1>1, <1>2 DEF TypeOK, TransferTypeOK, transferVars, Waiting
<1>4. control \in Consumers => consumer'[control] \in {"connecting", "receiving"}
  BY <1>1, <1>2 DEF RendezvousInv, TypeOK
<1> QED BY <1>2, <1>3, <1>4 DEF RendezvousInv, transferVars

LEMMA SendRequestStep ==
    ASSUME RendezvousInv, NEW c \in Consumers, SendRequest(c)
    PROVE  RendezvousInv'
<1>1. TypeOK /\ inbox \in Seq(Mail)
  BY DEF RendezvousInv, TypeOK
<1>2. /\ inbox' \in Seq(Mail)
      /\ \E s \in {"connecting", "failed"} : consumer' = [consumer EXCEPT ![c] = s]
  <2>1. CASE UNCHANGED inbox /\ consumer' = [consumer EXCEPT ![c] = "failed"]
    BY <1>1, <2>1
  <2>2. CASE /\ \E valid \in BOOLEAN :
                 inbox' = Append(inbox, [from |-> c, kind |-> "connect", valid |-> valid])
             /\ consumer' = [consumer EXCEPT ![c] = "connecting"]
    <3>1. \A valid \in BOOLEAN : [from |-> c, kind |-> "connect", valid |-> valid] \in Mail
      BY DEF Mail
    <3> QED BY <1>1, <2>2, <3>1, InboxType
  <2> QED BY <2>1, <2>2 DEF SendRequest
<1>3. /\ consumer[c] = "calling"
      /\ UNCHANGED <<transferVars, service, worker, control, queued, completed, refused, took,
                     manifest>>
  BY DEF SendRequest
<1>4. TypeOK'
  BY <1>1, <1>2, <1>3 DEF TypeOK, TransferTypeOK, transferVars, Waiting
<1>5. control \in Consumers => consumer'[control] \in {"connecting", "receiving"}
  BY <1>1, <1>2, <1>3 DEF RendezvousInv, TypeOK
<1> QED BY <1>3, <1>4, <1>5 DEF RendezvousInv, transferVars

\* The control right is received, or dies with whoever gives up on it or has
\* used it; what it carried is received once.
LEMMA ConsumerStepSafe ==
    ASSUME RendezvousInv, NEW c \in Consumers, ConsumerStep(c)
    PROVE  RendezvousInv'
<1>1. /\ TypeOK /\ Role \in Roles /\ bundle \in [Roles -> {"held", "moved", "released"}]
      /\ consumer \in [Consumers -> Waiting \cup {"idle", "ok", "failed"}]
      /\ inbox \in Seq(Mail)
  BY DEF RendezvousInv, TypeOK, TransferTypeOK, Role, Roles
<1>2. CASE ReceiveControl(c)
  <2>1. /\ consumer' = [consumer EXCEPT ![c] = "receiving"] /\ control = c
        /\ UNCHANGED <<transferVars, service, inbox, worker, control, queued, completed,
                       refused, took, manifest>>
    BY <1>2 DEF ReceiveControl
  <2>2. TypeOK'
    BY <1>1, <2>1 DEF TypeOK, TransferTypeOK, transferVars, Waiting
  <2> QED BY <1>1, <2>1, <2>2 DEF RendezvousInv, transferVars
<1>3. CASE GiveUp(c)
  <2>1. /\ consumer' = [consumer EXCEPT ![c] = "failed"]
        /\ UNCHANGED <<transferVars, service, inbox, worker, completed, refused, took,
                       manifest>>
        /\ \/ control = c /\ control' = "dead" /\ queued' = FALSE
           \/ control # c /\ UNCHANGED <<control, queued>>
    BY <1>3 DEF GiveUp, ControlDies
  <2>2. queued' \in BOOLEAN /\ (queued' => queued) /\ control' \in {control, "dead"}
    <3>1. queued \in BOOLEAN
      BY <1>1 DEF TypeOK
    <3>2. CASE control = c /\ control' = "dead" /\ queued' = FALSE
      BY <3>2
    <3>3. CASE control # c /\ UNCHANGED <<control, queued>>
      BY <3>1, <3>3
    <3> QED BY <2>1, <3>2, <3>3
  <2>3. TypeOK'
    BY <1>1, <2>1, <2>2 DEF TypeOK, TransferTypeOK, transferVars, Waiting
  <2>4. control' \in Consumers => consumer'[control'] \in {"connecting", "receiving"}
    BY <1>1, <2>1, ConsumersAssumption DEF RendezvousInv
  <2> QED BY <1>1, <2>1, <2>2, <2>3, <2>4 DEF RendezvousInv, transferVars
<1>4. CASE ReceiveCapabilities(c)
  <2>1. /\ queued /\ consumer' = [consumer EXCEPT ![c] = "acking"]
        /\ took' = took \cup {c} /\ control' = "dead" /\ queued' = FALSE
        /\ UNCHANGED <<transferVars, service, inbox, worker, completed, refused, manifest>>
    BY <1>4 DEF ReceiveCapabilities, ControlDies
  <2>2. took = {} /\ bundle[Role] # "held"
    BY <2>1 DEF RendezvousInv
  <2>3. TypeOK'
    BY <1>1, <2>1 DEF TypeOK, TransferTypeOK, transferVars, Waiting
  <2> QED BY <1>1, <2>1, <2>2, <2>3, ConsumersAssumption DEF RendezvousInv, transferVars
<1>5. CASE Acknowledge(c)
  <2>1. /\ consumer[c] = "acking"
        /\ UNCHANGED <<names, resource, owns, attempted, stale, service, worker, control,
                       queued, completed, refused, took, manifest>>
        /\ \E s \in {"ok", "failed"} : consumer' = [consumer EXCEPT ![c] = s]
        /\ \/ UNCHANGED bundle
           \/ bundle' = [bundle EXCEPT ![Role] = "released"]
    BY <1>5 DEF Acknowledge
  <2>2. inbox' \in Seq(Mail)
    <3>1. [from |-> c, kind |-> "ack", valid |-> TRUE] \in Mail
      BY DEF Mail
    <3> QED BY <1>1, <1>5, <3>1, InboxType DEF Acknowledge
  <2>3. /\ bundle' \in [Roles -> {"held", "moved", "released"}]
        /\ bundle[Role] # "held" => bundle'[Role] # "held"
    BY <1>1, <2>1
  <2>4. TypeOK'
    BY <1>1, <2>1, <2>2, <2>3 DEF TypeOK, TransferTypeOK, Waiting
  <2>5. control \in Consumers => consumer'[control] \in {"connecting", "receiving"}
    BY <1>1, <2>1 DEF RendezvousInv
  <2> QED BY <2>1, <2>3, <2>4, <2>5 DEF RendezvousInv
<1> QED BY <1>2, <1>3, <1>4, <1>5, SendRequestStep DEF ConsumerStep

LEMMA RendezvousStep == RendezvousInv /\ [Next]_vars => RendezvousInv'
<1> SUFFICES ASSUME RendezvousInv, [Next]_vars PROVE RendezvousInv'
  OBVIOUS
<1>1. CASE UNCHANGED vars
  BY <1>1 DEF vars, transferVars, rendezvousVars, RendezvousInv, TypeOK, TransferTypeOK
<1>2. CASE Publish \/ HostStep
  BY <1>2, PublishStep, ServeConnectStep, ServeTransferStep, ServeAckStep, ServeEndsStep
     DEF HostStep
<1>3. CASE DropHost \/ HostExit \/ MovePeer \/ DropHostResource
  BY <1>3, DropHostStep, HostExitStep, OtherRightsStep
<1>4. CASE \E c \in Consumers : Connect(c) \/ ConsumerStep(c)
  BY <1>4, ConnectStep, ConsumerStepSafe
<1> QED BY <1>1, <1>2, <1>3, <1>4 DEF Next

\* In every state of a rendezvous: a bundle whose hand-over is under way or done
\* has left the broker, one consumer at most has taken it, and none has while it
\* waits in the queue.
THEOREM RendezvousInvariance == Spec => []RendezvousInv
BY RendezvousInitially, RendezvousStep, PTL DEF Spec

\* Once the worker of a publication has ended and no consumer is under way, the
\* host holds neither the endpoint's four rights nor its control endpoint (which a
\* failed publish leaks), whichever step failed, timed out or died, and however
\* many hold the descriptor.
THEOREM NothingLeftSafe == Spec => []NothingLeftBehind
<1>1. RendezvousInv => NothingLeftBehind
  BY DEF RendezvousInv, NothingLeftBehind, TypeOK, Waiting
<1> QED BY <1>1, RendezvousInvariance, PTL

\* A descriptor that is replayed hands its capabilities to one consumer only.
THEOREM TakenOnce == Spec => [](\A c, d \in took : c = d)
<1>1. RendezvousInv => \A c, d \in took : c = d
  BY DEF RendezvousInv
<1> QED BY <1>1, RendezvousInvariance, PTL

(***************************************************************************)
(* The bundle.  A binding is made and a page replaced or removed in one    *)
(* handler, so the page map tells for which document there is one.         *)
(***************************************************************************)

BundleInv == BundleTypeOK /\ BindingFollowsDocument

PageRecord == [document : 0 .. LastPageDocument, bindingInstalled : BOOLEAN]

\* What the invariant says of one page.
PageFollows(ps, bs, ds, page) ==
    /\ bs[page] = IF ps[page].bindingInstalled THEN {ps[page].document} ELSE {}
    /\ page \in ds => ps[page].document = 0

LEMMA FollowsEveryPage ==
    BindingFollowsDocument <=>
        failed \/ \A page \in PageId : PageFollows(pages, bindings, destroyed, page)
BY DEF BindingFollowsDocument, PageFollows, Exists

LEMMA BundleInitially == BundleInit => BundleInv
<1> SUFFICES ASSUME BundleInit PROVE BundleInv
  OBVIOUS
<1>1. BundleTypeOK
  <2>1. NoPage \in PageRecord
    BY BundleAssumption DEF NoPage, PageRecord
  <2>2. pages \in [PageId -> PageRecord]
    BY <2>1 DEF BundleInit
  <2>3. nextDocument \in 1 .. LastPageDocument + 1
    BY BundleAssumption DEF BundleInit
  <2> QED BY <2>2, <2>3 DEF BundleInit, BundleTypeOK, PageRecord
<1>2. BindingFollowsDocument
  BY DEF BundleInit, NoPage, BindingFollowsDocument
<1> QED BY <1>1, <1>2 DEF BundleInv

\* A handler that changes the map changes one page, and keeps it in step with
\* the bindings unless the installer panicked.
LEMMA OnePageStep ==
    ASSUME BundleInv, NEW page \in PageId, failed' \in BOOLEAN,
           failed => failed',
           NEW record \in PageRecord, NEW bound \in SUBSET (1 .. LastPageDocument),
           pages' = [pages EXCEPT ![page] = record],
           bindings' = [bindings EXCEPT ![page] = bound],
           destroyed' \subseteq PageId, destroyed' \subseteq destroyed \cup {page},
           nextDocument' \in 1 .. LastPageDocument + 1,
           UNCHANGED <<entrypoint, initialization, attachment>>,
           failed' \/ PageFollows(pages', bindings', destroyed', page)
    PROVE  BundleInv'
<1>1. BundleTypeOK
  BY DEF BundleInv
<1>2. BundleTypeOK'
  BY <1>1 DEF BundleTypeOK, PageRecord
<1>3. ASSUME ~failed', NEW other \in PageId
      PROVE  PageFollows(pages', bindings', destroyed', other)
  <2>1. CASE other = page
    BY <1>3, <2>1
  <2>2. CASE other # page
    <3>1. PageFollows(pages, bindings, destroyed, other)
      BY <1>3, FollowsEveryPage DEF BundleInv
    <3>2. pages'[other] = pages[other] /\ bindings'[other] = bindings[other]
      BY <1>1, <2>2 DEF BundleTypeOK
    <3> QED BY <2>2, <3>1, <3>2 DEF PageFollows
  <2> QED BY <2>1, <2>2
<1>4. BindingFollowsDocument'
  BY <1>3 DEF BindingFollowsDocument, PageFollows, Exists
<1> QED BY <1>2, <1>4 DEF BundleInv

\* A page whose binding is installed exists, and what is left for it when its
\* document goes is nothing.
LEMMA PageFacts ==
    ASSUME BundleInv, NEW page \in PageId
    PROVE  /\ pages[page] \in PageRecord
           /\ bindings[page] \in SUBSET (1 .. LastPageDocument)
           /\ ~failed => /\ PageFollows(pages, bindings, destroyed, page)
                         /\ pages[page].bindingInstalled => pages[page].document # 0
                         /\ bindings[page] \ {pages[page].document} = {}
<1>1. BundleTypeOK
  BY DEF BundleInv
<1>2. /\ pages[page] \in PageRecord
      /\ bindings[page] \in SUBSET (1 .. LastPageDocument)
  BY <1>1 DEF BundleTypeOK, PageRecord
<1>3. ASSUME ~failed
      PROVE  PageFollows(pages, bindings, destroyed, page)
  BY <1>3, FollowsEveryPage DEF BundleInv
<1>4. ASSUME ~failed, pages[page].bindingInstalled
      PROVE  pages[page].document # 0
  BY <1>2, <1>3, <1>4 DEF PageFollows
<1>5. ASSUME ~failed
      PROVE  bindings[page] \ {pages[page].document} = {}
  BY <1>3, <1>5 DEF PageFollows
<1> QED BY <1>2, <1>3, <1>4, <1>5

\* The document a page is given next.
LEMMA AllocatedDocument ==
    ASSUME BundleTypeOK, AllocateDocument
    PROVE  /\ nextDocument' \in 1 .. LastPageDocument + 1
           /\ NewDocument \in PageRecord /\ NewDocument.document # 0
           /\ ~NewDocument.bindingInstalled
BY BundleAssumption DEF BundleTypeOK, AllocateDocument, NewDocument, PageRecord

LEMMA DispatchedStep ==
    ASSUME BundleTypeOK, NEW panics \in BOOLEAN, Dispatched(panics)
    PROVE  failed' \in BOOLEAN /\ (failed => failed') /\ (~failed' => ~panics)
BY DEF BundleTypeOK, Dispatched

LEMMA CreatePageStep ==
    ASSUME BundleInv, NEW page \in PageId, CreatePage(page)
    PROVE  BundleInv'
<1>1. BundleTypeOK
  BY DEF BundleInv
<1>2. /\ page \notin destroyed /\ pages[page].document = 0
      /\ pages' = [pages EXCEPT ![page] = NewDocument]
      /\ UNCHANGED <<entrypoint, initialization, attachment, destroyed, bindings>>
  BY DEF CreatePage, Exists
<1>3. failed' \in BOOLEAN /\ (failed => failed')
  BY <1>1, DispatchedStep DEF CreatePage
<1>4. /\ nextDocument' \in 1 .. LastPageDocument + 1
      /\ NewDocument \in PageRecord /\ ~NewDocument.bindingInstalled
  BY <1>1, AllocatedDocument DEF CreatePage
<1>5. bindings' = [bindings EXCEPT ![page] = bindings[page]]
  BY <1>1, <1>2 DEF BundleTypeOK
<1>6. destroyed' \subseteq PageId /\ destroyed' \subseteq destroyed \cup {page}
  BY <1>1, <1>2 DEF BundleTypeOK
<1>7. failed' \/ PageFollows(pages', bindings', destroyed', page)
  <2>1. CASE failed
    BY <1>3, <2>1
  <2>2. CASE ~failed
    <3>1. bindings[page] = {} /\ pages'[page] = NewDocument
      BY <1>1, <1>2, <2>2, PageFacts DEF PageFollows, BundleTypeOK
    <3> QED BY <1>2, <1>4, <3>1 DEF PageFollows
  <2> QED BY <2>1, <2>2
<1>8. bindings[page] \in SUBSET (1 .. LastPageDocument)
  BY PageFacts
<1> QED BY <1>2, <1>3, <1>4, <1>5, <1>6, <1>7, <1>8, OnePageStep

LEMMA InstallStep ==
    ASSUME BundleInv, NEW context \in FrameContext, InstallFor(context)
    PROVE  BundleInv'
<1> DEFINE page == context.page
<1>1. BundleTypeOK /\ page \in PageId
  BY DEF BundleInv, FrameContext
<1>2. /\ pages[page].document # 0 /\ ~pages[page].bindingInstalled
      /\ UNCHANGED <<entrypoint, initialization, attachment, destroyed, nextDocument>>
  BY DEF InstallFor, Exists
<1> HIDE DEF page
<1>3. CASE Dispatched(TRUE) /\ UNCHANGED <<pages, bindings>>
  <2>1. failed' = TRUE
    BY <1>3 DEF Dispatched
  <2>2. BundleTypeOK'
    BY <1>1, <1>2, <1>3, <2>1 DEF BundleTypeOK
  <2> QED BY <2>1, <2>2 DEF BundleInv, BindingFollowsDocument
<1>4. CASE /\ Dispatched(FALSE)
           /\ bindings' = [bindings EXCEPT ![page] = @ \cup {pages[page].document}]
           /\ pages' = [pages EXCEPT ![page].bindingInstalled = TRUE]
  <2> DEFINE record == [pages[page] EXCEPT !.bindingInstalled = TRUE]
             bound == bindings[page] \cup {pages[page].document}
  <2>1. failed' \in BOOLEAN /\ (failed => failed')
    BY <1>1, <1>4, DispatchedStep
  <2>2. /\ record \in PageRecord /\ bound \in SUBSET (1 .. LastPageDocument)
        /\ record.document = pages[page].document /\ record.bindingInstalled
    <3>1. /\ pages[page] \in PageRecord
          /\ bindings[page] \in SUBSET (1 .. LastPageDocument)
      BY <1>1, PageFacts
    <3>2. pages[page].document \in 1 .. LastPageDocument
      BY <1>2, <3>1 DEF PageRecord
    <3> QED BY <3>1, <3>2 DEF PageRecord
  <2>3. /\ pages' = [pages EXCEPT ![page] = record]
        /\ bindings' = [bindings EXCEPT ![page] = bound]
    BY <1>4
  <2>4. pages'[page] = record /\ bindings'[page] = bound
    BY <1>1, <2>3 DEF BundleTypeOK
  <2>5. failed' \/ PageFollows(pages', bindings', destroyed', page)
    <3>1. CASE failed
      BY <2>1, <3>1
    <3>2. CASE ~failed
      <4>1. bound = {pages[page].document} /\ page \notin destroyed
        BY <1>1, <1>2, <3>2, PageFacts DEF PageFollows
      <4> QED BY <1>2, <2>2, <2>4, <4>1 DEF PageFollows
    <3> QED BY <3>1, <3>2
  <2>6. destroyed' \subseteq PageId /\ nextDocument' \in 1 .. LastPageDocument + 1
    BY <1>1, <1>2 DEF BundleTypeOK
  <2> HIDE DEF record, bound
  <2> QED BY <1>1, <1>2, <2>1, <2>2, <2>3, <2>5, <2>6, OnePageStep
<1> QED BY <1>3, <1>4 DEF InstallFor, page

\* A reload whose installer does not panic, and one of a page that is gone.
LEMMA InvalidateStep ==
    ASSUME BundleInv, NEW page \in PageId, InvalidateDocument(page)
    PROVE  BundleInv'
<1>1. BundleTypeOK
  BY DEF BundleInv
<1>2. UNCHANGED <<entrypoint, initialization, attachment, destroyed>>
  BY DEF InvalidateDocument
<1>3. /\ nextDocument' \in 1 .. LastPageDocument + 1
      /\ NewDocument \in PageRecord /\ NewDocument.document # 0
      /\ ~NewDocument.bindingInstalled
  BY <1>1, AllocatedDocument DEF InvalidateDocument
<1>4. CASE Dispatched(Exists(page)) /\ UNCHANGED <<pages, bindings>>
  <2>1. failed' \in BOOLEAN /\ (failed => failed')
    BY <1>1, <1>4, DispatchedStep DEF Exists
  <2>2. BundleTypeOK'
    BY <1>1, <1>2, <1>3, <1>4, <2>1 DEF BundleTypeOK
  <2> QED BY <1>2, <1>4, <2>1, <2>2 DEF BundleInv, BindingFollowsDocument, Exists
<1>5. CASE /\ Dispatched(FALSE) /\ Exists(page)
           /\ bindings' = Invalidated(page)
           /\ pages' = [pages EXCEPT ![page] = Reloaded(page)]
  <2> DEFINE bound == bindings[page] \ {pages[page].document}
  <2>1. failed' \in BOOLEAN /\ (failed => failed')
    BY <1>1, <1>5, DispatchedStep
  <2>2. /\ pages' = [pages EXCEPT ![page] = NewDocument]
        /\ bindings' = [bindings EXCEPT ![page] = bound]
        /\ bound \in SUBSET (1 .. LastPageDocument)
    BY <1>5, PageFacts DEF Invalidated, Reloaded
  <2>3. pages'[page] = NewDocument /\ bindings'[page] = bound
    BY <1>1, <2>2 DEF BundleTypeOK
  <2>4. failed' \/ PageFollows(pages', bindings', destroyed', page)
    <3>1. CASE failed
      BY <2>1, <3>1
    <3>2. CASE ~failed
      <4>1. bound = {} /\ page \notin destroyed
        BY <1>5, <3>2, PageFacts DEF PageFollows, Exists
      <4> QED BY <1>2, <1>3, <2>3, <4>1 DEF PageFollows
    <3> QED BY <3>1, <3>2
  <2>5. destroyed' \subseteq PageId
    BY <1>1, <1>2 DEF BundleTypeOK
  <2> HIDE DEF bound
  <2> QED BY <1>2, <1>3, <2>1, <2>2, <2>4, <2>5, OnePageStep
<1> QED BY <1>4, <1>5 DEF InvalidateDocument

LEMMA DestroyStep ==
    ASSUME BundleInv, NEW page \in PageId, DestroyPage(page)
    PROVE  BundleInv'
<1>1. BundleTypeOK /\ NoPage \in PageRecord /\ NoPage.document = 0
      /\ ~NoPage.bindingInstalled
  BY BundleAssumption DEF BundleInv, NoPage, PageRecord
<1>2. /\ pages' = [pages EXCEPT ![page] = NoPage]
      /\ UNCHANGED <<entrypoint, initialization, attachment, nextDocument>>
  BY DEF DestroyPage
<1>3. PICK bound \in {bindings[page], bindings[page] \ {pages[page].document}} :
        /\ bindings' = [bindings EXCEPT ![page] = bound]
        /\ failed' \/ bound = bindings[page] \ {pages[page].document}
  <2>1. CASE Dispatched(FALSE) /\ bindings' = Invalidated(page)
    BY <2>1 DEF Invalidated
  <2>2. CASE Dispatched(TRUE) /\ UNCHANGED bindings
    <3>1. bindings' = [bindings EXCEPT ![page] = bindings[page]]
      BY <1>1, <2>2 DEF BundleTypeOK
    <3> QED BY <2>2, <3>1 DEF Dispatched
  <2> QED BY <2>1, <2>2 DEF DestroyPage
<1>4. failed' \in BOOLEAN /\ (failed => failed')
  BY <1>1, DispatchedStep DEF DestroyPage
<1>5. /\ destroyed' \subseteq PageId /\ destroyed' \subseteq destroyed \cup {page}
      /\ nextDocument' \in 1 .. LastPageDocument + 1
      /\ bound \in SUBSET (1 .. LastPageDocument)
  BY <1>1, <1>2, PageFacts DEF BundleTypeOK, DestroyPage
<1>6. pages'[page] = NoPage /\ bindings'[page] = bound
  BY <1>1, <1>2, <1>3 DEF BundleTypeOK
<1>7. failed' \/ PageFollows(pages', bindings', destroyed', page)
  <2>1. CASE failed'
    BY <2>1
  <2>2. CASE ~failed'
    <3>1. bound = {}
      BY <1>3, <1>4, <2>2, PageFacts
    <3> QED BY <1>1, <1>6, <3>1 DEF PageFollows
  <2> QED BY <2>1, <2>2
<1> QED BY <1>1, <1>2, <1>3, <1>4, <1>5, <1>7, OnePageStep

LEMMA BundleStep == BundleInv /\ [BundleNext]_bundleVars => BundleInv'
<1> SUFFICES ASSUME BundleInv, [BundleNext]_bundleVars PROVE BundleInv'
  OBVIOUS
<1>1. BundleTypeOK
  BY DEF BundleInv
<1>2. CASE UNCHANGED bundleVars
  BY <1>2 DEF bundleVars, BundleInv, BundleTypeOK, BindingFollowsDocument, Exists
<1>3. CASE WKBundleInitialize \/ InstallEntrypoint \/ Activate \/ Initialize
  <2>1. /\ failed' \in BOOLEAN /\ (failed => failed')
        /\ entrypoint' \in BOOLEAN /\ initialization' \in BOOLEAN
        /\ attachment' \in BOOLEAN
        /\ UNCHANGED <<pages, destroyed, nextDocument, bindings>>
    <3>1. CASE WKBundleInitialize
      BY <1>1, <3>1 DEF WKBundleInitialize, BundleTypeOK
    <3>2. CASE InstallEntrypoint \/ Activate
      BY <1>1, <3>2 DEF InstallEntrypoint, Activate, BundleTypeOK
    <3>3. CASE Initialize
      BY <1>1, <3>3, DispatchedStep DEF Initialize, BundleTypeOK
    <3> QED BY <1>3, <3>1, <3>2, <3>3
  <2>2. BundleTypeOK'
    BY <1>1, <2>1 DEF BundleTypeOK
  <2> QED BY <2>1, <2>2 DEF BundleInv, BindingFollowsDocument, Exists
<1>4. CASE \E context \in FrameContext : InstallFor(context)
  BY <1>4, InstallStep
<1>5. CASE \E page \in PageId : CreatePage(page) \/ InvalidateDocument(page) \/ DestroyPage(page)
  BY <1>5, CreatePageStep, InvalidateStep, DestroyStep
<1> QED BY <1>2, <1>3, <1>4, <1>5 DEF BundleNext, Handle

\* In every state of a bundle: each page has the binding of its own document
\* exactly while one is installed, unless the bundle has failed.
THEOREM BundleInvariance == BundleSpec => []BundleInv
BY BundleInitially, BundleStep, PTL DEF BundleSpec

\* Until a panic or a failed initialization is recorded, the installer holds a
\* binding for the current document of a page exactly when the page says so, for
\* every set of pages and every order of loads, installs, reloads and destructions.
THEOREM BindingSafe == BundleSpec => []BindingFollowsDocument
<1>1. BundleInv => BindingFollowsDocument
  BY DEF BundleInv
<1> QED BY <1>1, BundleInvariance, PTL
=============================================================================
