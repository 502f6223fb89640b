---------------------------- MODULE PortsProofs ----------------------------
(***************************************************************************)
(* The ports and the frame protection under them, for every number of      *)
(* frame counters, every size of frames and rings, any parties and keys    *)
(* and whichever notifications fail: frames are opened in the order in     *)
(* which they were sealed, counters are spent once, frames are handed on   *)
(* in order, and a port ends once.                                         *)
(***************************************************************************)
EXTENDS PortsProperties, FrameProtection, TLAPS

(***************************************************************************)
(* Frame protection over any link at all.  A published frame determines    *)
(* who sealed it and its place, because the key holds all that names an    *)
(* endpoint; an endpoint's next counter is the number of frames it         *)
(* published, its expected counter the number it opened.                   *)
(***************************************************************************)


Counter == 0 .. LastCounter

\* The frame of e with the counter c.
FrameOf(e, c, p) ==
  [counter |-> c, nonce |-> Nonce(SealingKey(e), c), aad |-> Aad(e, c), plaintext |-> p]

FrameBy(e) == {FrameOf(e, c, p) : c \in Counter, p \in Plaintext}

\* The published frames bear the counters from 0 on, and the pending one the next.
SealerInv ==
  /\ pending \in [Party -> {NoFrameYet} \cup UNION {FrameBy(e) : e \in Party}]
  /\ published \in [Party -> Seq(UNION {FrameBy(e) : e \in Party})]
  /\ nextCounter \in [Party -> 0 .. NoCounter]
  /\ \A e \in Party :
       /\ nextCounter[e] = Len(published[e])
       /\ \A i \in 1 .. Len(published[e]) :
            published[e][i] \in FrameBy(e) /\ published[e][i].counter = i - 1
       /\ pending[e] # NoFrameYet =>
            pending[e] \in FrameBy(e) /\ pending[e].counter = nextCounter[e]

OpenerInv ==
  /\ opened \in [Party -> Seq(Plaintext)]
  /\ expectedCounter \in [Party -> 0 .. NoCounter]
  /\ \A e \in Party : expectedCounter[e] = Len(opened[e])
  /\ OpenedInOrder

ProtectionInv == SealerInv /\ OpenerInv

-----------------------------------------------------------------------------
\* The fields of a frame.
LEMMA FrameFields ==
  ASSUME NEW e \in Party, NEW frame \in FrameBy(e)
  PROVE  /\ frame.counter \in Counter /\ frame.plaintext \in Plaintext
         /\ frame.nonce = Nonce(SealingKey(e), frame.counter)
         /\ frame = FrameOf(e, frame.counter, frame.plaintext)
  BY DEF FrameBy, FrameOf

\* A key names its endpoint: no two endpoints seal under one key.
LEMMA KeyNamesSealer ==
  ASSUME NEW e \in Party, NEW f \in Party, SealingKey(e) = SealingKey(f)
  PROVE  e = f
<1>1. e.secret = f.secret /\ e.session = f.session /\ e.generation = f.generation
  BY DEF SealingKey, DeriveDirection, Context
<1>2. OutboundDirection(e.role) = OutboundDirection(f.role)
  BY DEF SealingKey, DeriveDirection
<1>3. e.role = f.role
  BY <1>2, ProtectionAssumption DEF OutboundDirection, EndpointRole
<1>4. QED
  BY <1>1, <1>3, ProtectionAssumption

\* A frame that e accepts was sealed by an endpoint that faces e.
LEMMA AuthenticFaces ==
  ASSUME NEW e \in Party, NEW f \in Party, NEW frame \in FrameBy(f), Authentic(e, frame)
  PROVE  Faces(e, f)
<1>1. Nonce(SealingKey(f), frame.counter) = Nonce(OpeningKey(e), frame.counter)
  BY FrameFields DEF Authentic
<1>2. SealingKey(f) = OpeningKey(e)
  BY <1>1 DEF Nonce
<1>3. e.secret = f.secret /\ Context(e) = Context(f)
  BY <1>2 DEF SealingKey, OpeningKey, DeriveDirection
<1>4. OutboundDirection(f.role) = InboundDirection(e.role)
  BY <1>2 DEF SealingKey, OpeningKey, DeriveDirection
<1>5. e.role # f.role
  BY <1>4, ProtectionAssumption DEF OutboundDirection, InboundDirection, EndpointRole
<1>6. QED
  BY <1>3, <1>5 DEF Faces

\* One endpoint at most faces another.
LEMMA FacesOne ==
  ASSUME NEW e \in Party, NEW f \in Party, NEW g \in Party, Faces(e, f), Faces(e, g)
  PROVE  f = g
<1>1. /\ f.secret = g.secret /\ f.session = g.session /\ f.generation = g.generation
  BY DEF Faces, Context
<1>2. f.role = g.role
  BY ProtectionAssumption DEF Faces, EndpointRole
<1>3. QED
  BY <1>1, <1>2, ProtectionAssumption

\* The lengths of an endpoint's histories.
LEMMA Histories ==
  ASSUME ProtectionInv, NEW e \in Party
  PROVE  /\ published[e] \in Seq(UNION {FrameBy(f) : f \in Party})
         /\ Len(published[e]) \in Nat /\ DOMAIN published[e] = 1 .. Len(published[e])
         /\ opened[e] \in Seq(Plaintext) /\ Len(opened[e]) \in Nat
         /\ expectedCounter[e] = Len(opened[e])
<1> DEFINE AnyFrame == UNION {FrameBy(f) : f \in Party}
<1>1. published[e] \in Seq(AnyFrame)
  BY DEF ProtectionInv, SealerInv
<1>2. opened[e] \in Seq(Plaintext) /\ expectedCounter[e] = Len(opened[e])
  BY DEF ProtectionInv, OpenerInv
<1> HIDE DEF AnyFrame
<1>3. Len(published[e]) \in Nat /\ DOMAIN published[e] = 1 .. Len(published[e])
  BY <1>1
<1>4. Len(opened[e]) \in Nat
  BY <1>2
<1>5. QED
  BY <1>1, <1>2, <1>3, <1>4 DEF AnyFrame

-----------------------------------------------------------------------------
LEMMA ProtectionStart == ProtectionInit => ProtectionInv
  BY ProtectionAssumption
  DEF ProtectionInit, ProtectionInv, SealerInv, OpenerInv, OpenedInOrder, NoCounter

LEMMA PrepareKeeps ==
  ASSUME ProtectionInv, NEW e \in Party, NEW p \in Plaintext, Prepare(e, p)
  PROVE  ProtectionInv'
<1>1. nextCounter[e] \in Counter
  BY ProtectionAssumption DEF ProtectionInv, SealerInv, Prepare, NoCounter, Counter
<1>2. Sealed(e, p) \in FrameBy(e) /\ Sealed(e, p).counter = nextCounter[e]
  BY <1>1 DEF Sealed, FrameBy, FrameOf
<1>3. SealerInv'
  BY <1>2 DEF ProtectionInv, SealerInv, Prepare, NoCounter
<1>4. OpenerInv'
  BY DEF ProtectionInv, OpenerInv, OpenedInOrder, Prepare, NoCounter
<1>5. QED
  BY <1>3, <1>4 DEF ProtectionInv

\* A publication appends the frame whose turn it is.
LEMMA CommitKeeps ==
  ASSUME ProtectionInv, NEW e \in Party, Commit(e)
  PROVE  ProtectionInv'
<1> DEFINE frame == pending[e]
           AnyFrame == UNION {FrameBy(f) : f \in Party}
<1>1. /\ frame \in FrameBy(e) /\ frame.counter = Len(published[e])
      /\ frame.counter \in Counter
  BY FrameFields DEF ProtectionInv, SealerInv, Commit
<1>2. frame \in AnyFrame
  BY <1>1
<1>3. published[e] \in Seq(AnyFrame) /\ published \in [Party -> Seq(AnyFrame)]
  BY DEF ProtectionInv, SealerInv
<1>4. /\ published' = [published EXCEPT ![e] = Append(@, frame)]
      /\ published' \in [Party -> Seq(AnyFrame)]
  <2>1. published' = [published EXCEPT ![e] = Append(@, frame)]
    BY DEF Commit
  <2>2. Append(published[e], frame) \in Seq(AnyFrame)
    <3> HIDE DEF AnyFrame, frame
    <3>1. QED
      BY <1>2, <1>3
  <2>3. QED
    BY <2>1, <2>2, <1>3
<1>5. \A f \in Party :
        /\ nextCounter'[f] = Len(published'[f])
        /\ \A i \in 1 .. Len(published'[f]) :
             published'[f][i] \in FrameBy(f) /\ published'[f][i].counter = i - 1
  <2> SUFFICES ASSUME NEW f \in Party
               PROVE  /\ nextCounter'[f] = Len(published'[f])
                      /\ \A i \in 1 .. Len(published'[f]) :
                           published'[f][i] \in FrameBy(f) /\ published'[f][i].counter = i - 1
    OBVIOUS
  <2> HIDE DEF AnyFrame
  <2>1. CASE f = e
    <3>1. published'[e] = Append(published[e], frame)
      BY <1>4, <1>3
    <3>2. Len(published'[e]) = Len(published[e]) + 1
      BY <3>1, <1>3
    <3>3. nextCounter'[e] = frame.counter + 1
      BY DEF ProtectionInv, SealerInv, Commit
    <3>4. \A i \in 1 .. Len(published[e]) + 1 :
            published'[e][i] = IF i = Len(published[e]) + 1 THEN frame ELSE published[e][i]
      BY <3>1, <1>3
    <3>5. QED
      BY <2>1, <1>1, <1>3, <3>2, <3>3, <3>4 DEF ProtectionInv, SealerInv
  <2>2. CASE f # e
    <3>1. published'[f] = published[f] /\ nextCounter'[f] = nextCounter[f]
      BY <2>2, <1>4, <1>3 DEF Commit, ProtectionInv, SealerInv
    <3>2. QED
      BY <3>1 DEF ProtectionInv, SealerInv
  <2>3. QED
    BY <2>1, <2>2
<1>6. SealerInv'
  <2>1. nextCounter' \in [Party -> 0 .. NoCounter]
    BY <1>1, ProtectionAssumption DEF ProtectionInv, SealerInv, Commit, Counter, NoCounter
  <2>2. pending' \in [Party -> {NoFrameYet} \cup AnyFrame]
    BY DEF ProtectionInv, SealerInv, Commit
  <2>3. \A f \in Party : pending'[f] # NoFrameYet =>
           pending'[f] \in FrameBy(f) /\ pending'[f].counter = nextCounter'[f]
    BY DEF ProtectionInv, SealerInv, Commit
  <2>4. QED
    BY <1>4, <1>5, <2>1, <2>2, <2>3 DEF SealerInv
<1>7. \A f \in Party :
         /\ Len(published[f]) <= Len(published'[f])
         /\ \A i \in 1 .. Len(published[f]) : published'[f][i] = published[f][i]
  <2> HIDE DEF AnyFrame
  <2> SUFFICES ASSUME NEW f \in Party
               PROVE  /\ Len(published[f]) <= Len(published'[f])
                      /\ \A i \in 1 .. Len(published[f]) : published'[f][i] = published[f][i]
    OBVIOUS
  <2>1. published[f] \in Seq(AnyFrame) /\ Len(published[f]) \in Nat
    BY <1>3
  <2>2. CASE f = e
    <3>1. published'[f] = Append(published[f], frame)
      BY <2>2, <1>4, <1>3
    <3>2. QED
      BY <2>1, <3>1
  <2>3. CASE f # e
    <3>1. published'[f] = published[f]
      BY <2>3, <1>4, <1>3
    <3>2. QED
      BY <2>1, <3>1
  <2>4. QED
    BY <2>2, <2>3
<1>8. OpenerInv'
  <2>1. UNCHANGED <<opened, expectedCounter>>
    BY DEF Commit
  <2>2. OpenedInOrder'
    <3> SUFFICES ASSUME NEW g \in Party, opened[g] # <<>>
                 PROVE  \E f \in Party :
                          /\ Faces(g, f)
                          /\ Len(opened[g]) <= Len(published'[f])
                          /\ \A i \in 1 .. Len(opened[g]) :
                               opened[g][i] = published'[f][i].plaintext
      BY <2>1 DEF OpenedInOrder
    <3>1. PICK f \in Party : /\ Faces(g, f)
                             /\ Len(opened[g]) <= Len(published[f])
                             /\ \A i \in 1 .. Len(opened[g]) :
                                  opened[g][i] = published[f][i].plaintext
      BY DEF ProtectionInv, OpenerInv, OpenedInOrder
    <3>2. /\ Len(opened[g]) \in Nat /\ Len(published[f]) \in Nat
          /\ Len(published'[f]) \in Nat
      BY <1>3, <1>4 DEF ProtectionInv, OpenerInv
    <3>3. QED
      BY <3>1, <3>2, <1>7
  <2>3. QED
    BY <2>1, <2>2 DEF ProtectionInv, OpenerInv
<1>9. QED
  BY <1>6, <1>8 DEF ProtectionInv

LEMMA DropKeeps ==
  ASSUME ProtectionInv, NEW e \in Party, DropFrame(e)
  PROVE  ProtectionInv'
<1>1. SealerInv'
  BY DEF ProtectionInv, SealerInv, DropFrame
<1>2. OpenerInv'
  BY DEF ProtectionInv, OpenerInv, OpenedInOrder, DropFrame
<1>3. QED
  BY <1>1, <1>2 DEF ProtectionInv

\* The frame that opens is the next one of the endpoint that faces e: its
\* sealer faces e, which only one endpoint does, and its counter is its place.
LEMMA OpenKeeps ==
  ASSUME ProtectionInv, NEW e \in Party, NEW sender \in Party,
         NEW i \in DOMAIN published[sender], Open(e, sender, i)
  PROVE  ProtectionInv'
<1> DEFINE frame == published[sender][i]
           count == Len(opened[e])
<1>1. SealerInv'
  BY DEF ProtectionInv, SealerInv, Open
<1>2. i \in 1 .. Len(published[sender])
  BY Histories
<1>3. frame \in FrameBy(sender) /\ frame.counter = i - 1
  BY <1>2 DEF ProtectionInv, SealerInv
<1>4. Faces(e, sender)
  BY <1>3, AuthenticFaces DEF Open
<1>5. frame.counter \in Counter /\ frame.plaintext \in Plaintext
  BY <1>3, FrameFields
<1>6. count \in Nat /\ i = count + 1
  <2>1. count \in Nat /\ expectedCounter[e] = count /\ Len(published[sender]) \in Nat
    BY Histories
  <2>2. frame.counter = expectedCounter[e]
    BY DEF Open, Expects
  <2>3. QED
    BY <2>1, <2>2, <1>2, <1>3
<1>7. /\ opened' = [opened EXCEPT ![e] = Append(@, frame.plaintext)]
      /\ expectedCounter' = [expectedCounter EXCEPT ![e] = frame.counter + 1]
      /\ published' = published
  BY DEF Open
<1>8. /\ opened \in [Party -> Seq(Plaintext)]
      /\ opened' \in [Party -> Seq(Plaintext)]
      /\ expectedCounter \in [Party -> 0 .. NoCounter]
      /\ expectedCounter' \in [Party -> 0 .. NoCounter]
  BY <1>5, <1>7, ProtectionAssumption DEF ProtectionInv, OpenerInv, Counter, NoCounter
<1>9. \A f \in Party : expectedCounter'[f] = Len(opened'[f])
  BY <1>3, <1>6, <1>7, <1>8 DEF ProtectionInv, OpenerInv
<1>10. OpenedInOrder'
  <2> SUFFICES ASSUME NEW g \in Party, opened'[g] # <<>>
               PROVE  \E f \in Party :
                        /\ Faces(g, f)
                        /\ Len(opened'[g]) <= Len(published'[f])
                        /\ \A j \in 1 .. Len(opened'[g]) :
                             opened'[g][j] = published'[f][j].plaintext
    BY DEF OpenedInOrder
  <2>1. CASE g # e
    <3>1. opened'[g] = opened[g]
      BY <2>1, <1>7, <1>8
    <3>2. OpenedInOrder
      BY DEF ProtectionInv, OpenerInv
    <3>3. QED
      BY <3>1, <3>2, <1>7 DEF OpenedInOrder
  <2>2. CASE g = e
    <3>1. \A j \in 1 .. count : opened[e][j] = published[sender][j].plaintext
      <4>1. CASE opened[e] = <<>>
        BY <4>1
      <4>2. CASE opened[e] # <<>>
        <5>1. PICK f \in Party : /\ Faces(e, f)
                                 /\ \A j \in 1 .. count :
                                      opened[e][j] = published[f][j].plaintext
          BY <4>2 DEF ProtectionInv, OpenerInv, OpenedInOrder
        <5>2. f = sender
          BY <5>1, <1>4, FacesOne
        <5>3. QED
          BY <5>1, <5>2
      <4>3. QED
        BY <4>1, <4>2
    <3>2. opened[e] \in Seq(Plaintext) /\ opened'[e] = Append(opened[e], frame.plaintext)
      BY <1>7, <1>8
    <3>3. /\ Len(opened'[e]) = count + 1
          /\ \A j \in 1 .. count : opened'[e][j] = opened[e][j]
          /\ opened'[e][count + 1] = frame.plaintext
      BY <3>2
    <3>4. count + 1 <= Len(published[sender])
      BY <1>2, <1>6
    <3>5. \A j \in 1 .. count + 1 : opened'[e][j] = published[sender][j].plaintext
      BY <3>1, <3>3, <1>6
    <3>6. QED
      BY <2>2, <1>4, <1>7, <3>3, <3>4, <3>5
  <2>3. QED
    BY <2>1, <2>2
<1>11. QED
  BY <1>1, <1>8, <1>9, <1>10 DEF ProtectionInv, OpenerInv

-----------------------------------------------------------------------------
LEMMA ProtectionStep == ProtectionInv /\ [ProtectionNext]_protectionParts => ProtectionInv'
<1> SUFFICES ASSUME ProtectionInv, [ProtectionNext]_protectionParts PROVE ProtectionInv'
  OBVIOUS
<1>1. CASE UNCHANGED protectionParts
  BY <1>1 DEF protectionParts, ProtectionInv, SealerInv, OpenerInv, OpenedInOrder
<1>2. CASE ProtectionNext
  BY <1>2, PrepareKeeps, CommitKeeps, DropKeeps, OpenKeeps DEF ProtectionNext
<1>3. QED
  BY <1>1, <1>2

LEMMA ProtectionInvariant == ProtectionSpec => []ProtectionInv
  BY ProtectionStart, ProtectionStep, PTL DEF ProtectionSpec

\* Whatever the link loses, repeats, reorders or carries over from another
\* generation, an endpoint accepts the frames of the endpoint that faces it from
\* the first on, without a gap (FrameOpener::open), for any number of endpoints.
THEOREM ProtectionOpensInOrder == ProtectionSpec => []OpenedInOrder
<1>1. ProtectionInv => OpenedInOrder
  BY DEF ProtectionInv, OpenerInv
<1>2. QED
  BY <1>1, ProtectionInvariant, PTL

\* No nonce seals two published frames, of one endpoint or of two, whichever
\* prepared frames were dropped (FrameSealer::prepare, PendingProtectedFrame::commit).
THEOREM ProtectionNonceOnce == ProtectionSpec => []NonceOnce
<1>1. ASSUME ProtectionInv PROVE NonceOnce
  <2> SUFFICES ASSUME NEW e \in Party, NEW f \in Party,
                      NEW i \in 1 .. Len(published[e]), NEW j \in 1 .. Len(published[f]),
                      published[e][i].nonce = published[f][j].nonce
               PROVE  e = f /\ i = j
    BY DEF NonceOnce
  <2>1. /\ published[e][i] \in FrameBy(e) /\ published[e][i].counter = i - 1
        /\ published[f][j] \in FrameBy(f) /\ published[f][j].counter = j - 1
    BY <1>1 DEF ProtectionInv, SealerInv
  <2>2. Nonce(SealingKey(e), i - 1) = Nonce(SealingKey(f), j - 1)
    BY <2>1, FrameFields
  <2>3. SealingKey(e) = SealingKey(f) /\ i - 1 = j - 1
    BY <2>2 DEF Nonce
  <2>4. i \in Int /\ j \in Int
    <3>1. Len(published[e]) \in Nat /\ Len(published[f]) \in Nat
      BY <1>1, Histories
    <3>2. QED
      BY <3>1
  <2>5. QED
    BY <2>3, <2>4, KeyNamesSealer
<1>2. QED
  BY <1>1, ProtectionInvariant, PTL

(***************************************************************************)
(* The ports of one generation over their channel.                         *)
(***************************************************************************)

\* The sealer has counted what was published.
Spent == \A p \in Port : Len(sent[p]) = sealer[p]

\* What is on its way carries the number its counter stands for; an end record
\* has none.
Numbered ==
  \A p \in Port : \A i \in DOMAIN ring[p] :
    ring[p][i].id = IF ring[p][i].kind = "end" THEN 0 ELSE ring[p][i].counter + 1

ChannelInv == ChannelTypeOK /\ CountersAreSpentOnce /\ Spent /\ Numbered

\* The opener has counted what came as far as the port, while that can grow.
Counted ==
  /\ opener["native"] = Len(got["native"]) + Len(pendingInbound)
  /\ ~Over("renderer") => opener["renderer"] = Len(got["renderer"])

\* A terminal event leaves its port in a state that takes no more.
TerminalStates ==
  /\ \A i \in DOMAIN got["renderer"] :
       got["renderer"][i].kind \in Terminal => Over("renderer")
  /\ \A i \in DOMAIN got["native"] :
       got["native"][i].kind \in Terminal => state["native"] = "closed"

\* Which states a call under way may be in.
Calls ==
  /\ pc["renderer"] = "ending" => state["renderer"] = "closing"
  /\ pc["renderer"] = "dispatching" => state["renderer"] \in {"open", "closing"}
  /\ pc["native"] \in {"yielding", "yielding in close"} => state["native"] = "open"
  /\ pc["native"] \in {"ending", "resetting"} /\ state["native"] = "closed"
       => /\ got["native"] # <<>>
          /\ got["native"][Len(got["native"])].kind \in Terminal

PortInv ==
  PortTypeOK /\ DeliveredInOrder /\ OneTerminalEvent /\ Counted /\ TerminalStates /\ Calls

PortsInv == ChannelInv /\ PortInv

\* Watermark observations are flags.
LEMMA FlowBoolean ==
  ASSUME NEW flag, NEW buffered PROVE Flow(flag, buffered) \in BOOLEAN
<1>1. (buffered > Low) \in BOOLEAN /\ (buffered >= High) \in BOOLEAN
  OBVIOUS
<1> QED
  BY <1>1, Zenon DEF Flow

\* The first frame of a ring, and what is left behind it.
LEMMA HeadOfRing ==
  ASSUME ChannelInv, NEW p \in Port, ring[p] # <<>>
  PROVE  /\ Head(ring[p]) \in Frame /\ Tail(ring[p]) \in Seq(Frame)
         /\ Head(ring[p]).id =
              IF Head(ring[p]).kind = "end" THEN 0 ELSE Head(ring[p]).counter + 1
         /\ \A i \in DOMAIN Tail(ring[p]) :
              Tail(ring[p])[i].id = IF Tail(ring[p])[i].kind = "end" THEN 0
                                    ELSE Tail(ring[p])[i].counter + 1
<1>1. ring[p] \in Seq(Frame)
  BY DEF ChannelInv, ChannelTypeOK
<1>2. Len(ring[p]) # 0 /\ 1 \in DOMAIN ring[p] /\ Head(ring[p]) = ring[p][1]
  BY <1>1
<1>3. \A i \in DOMAIN Tail(ring[p]) : i + 1 \in DOMAIN ring[p] /\ Tail(ring[p])[i] = ring[p][i + 1]
  BY <1>1, <1>2
<1>4. Head(ring[p]) \in Frame /\ Tail(ring[p]) \in Seq(Frame)
  BY <1>1, <1>2
<1> QED
  BY <1>2, <1>3, <1>4 DEF ChannelInv, Numbered

\* A send keeps the counters in step, whether it publishes or not.
LEMMA SendKeeps ==
  ASSUME ChannelInv, NEW p \in Port, NEW kind \in {"data", "close"}, NEW result,
         SendFrame(p, kind, result)
  PROVE  ChannelInv' /\ opener' = opener
<1> USE PortsAssumption
<1>1. CASE Publish(p, kind, result)
  <2> DEFINE frame == [kind |-> kind, counter |-> sealer[p], id |-> Len(sent[p]) + 1]
  <2>1. sealer[p] \in 0 .. Exhausted - 1 /\ Len(sent[p]) = sealer[p]
    BY <1>1 DEF Publish, CountersLeft, ChannelInv, ChannelTypeOK, Spent
  <2>2. frame \in Frame
    BY <2>1 DEF Frame, FrameKinds
  <2>3. /\ ring' = [ring EXCEPT ![p] = Append(ring[p], frame)]
        /\ sent' = [sent EXCEPT ![p] = Append(sent[p], frame)]
    BY <1>1 DEF Publish
  <2>4. sealer' = [sealer EXCEPT ![p] = sealer[p] + 1]
    BY <1>1 DEF Publish, Committed
  <2>5. flow' \in [Port -> BOOLEAN]
    BY <1>1, FlowBoolean DEF Publish, ChannelInv, ChannelTypeOK
  <2> HIDE DEF frame
  <2>6. ChannelTypeOK'
    <3>1. ring' \in [Port -> Seq(Frame)] /\ sent' \in [Port -> Seq(Frame)]
      BY <2>2, <2>3 DEF ChannelInv, ChannelTypeOK
    <3>2. sealer' \in [Port -> 0 .. Exhausted]
      BY <2>1, <2>4 DEF ChannelInv, ChannelTypeOK
    <3> QED
      BY <2>5, <3>1, <3>2 DEF ChannelInv, ChannelTypeOK, SendFrame
  <2>7. Spent'
    <3> SUFFICES ASSUME NEW q \in Port PROVE Len(sent'[q]) = sealer'[q]
      BY DEF Spent
    <3>1. Len(Append(sent[p], frame)) = Len(sent[p]) + 1
      BY <2>2 DEF ChannelInv, ChannelTypeOK
    <3> QED
      BY <2>1, <2>3, <2>4, <3>1 DEF ChannelInv, ChannelTypeOK, Spent
  <2>8. CountersAreSpentOnce'
    BY <2>1, <2>2, <2>3 DEF ChannelInv, ChannelTypeOK, CountersAreSpentOnce, frame
  <2>9. Numbered'
    BY <2>1, <2>2, <2>3 DEF ChannelInv, ChannelTypeOK, Numbered, frame
  <2> QED
    BY <2>6, <2>7, <2>8, <2>9 DEF ChannelInv, SendFrame
<1>2. CASE Refuse(p, kind, result)
  <2>1. flow' \in [Port -> BOOLEAN]
    BY <1>2, FlowBoolean DEF Refuse, ChannelInv, ChannelTypeOK
  <2> QED
    BY <1>2, <2>1 DEF Refuse, SendFrame, ChannelInv, ChannelTypeOK, CountersAreSpentOnce,
                      Spent, Numbered
<1>3. CASE Reject(p, result)
  BY <1>3 DEF Reject, SendFrame, ChannelInv, ChannelTypeOK, CountersAreSpentOnce,
              Spent, Numbered
<1> QED
  BY <1>1, <1>2, <1>3 DEF SendFrame

\* The end of a channel leaves the counters alone.
LEMMA EndKeeps ==
  ASSUME ChannelInv, NEW p \in Port, NEW result, EndChannel(p, result)
  PROVE  ChannelInv' /\ opener' = opener
<1> DEFINE record == [NoFrame EXCEPT !.kind = "end"]
<1>1. record \in Frame /\ record.kind = "end" /\ record.id = 0
  BY PortsAssumption DEF NoFrame, Frame, FrameKinds
<1>2. UNCHANGED <<flow, remoteClosed, sealer, opener, sent>>
  BY DEF EndChannel, protectionVars
<1>3. CASE ring' = [ring EXCEPT ![p] = Append(@, record)] /\ localClosed' = [localClosed EXCEPT ![p] = TRUE]
  <2>1. ChannelTypeOK'
    BY <1>1, <1>2, <1>3 DEF ChannelInv, ChannelTypeOK
  <2>2. Numbered'
    BY <1>1, <1>3 DEF ChannelInv, ChannelTypeOK, Numbered
  <2> QED
    BY <1>2, <2>1, <2>2 DEF ChannelInv, CountersAreSpentOnce, Spent
<1>4. CASE UNCHANGED <<ring, localClosed>>
  BY <1>2, <1>4 DEF ChannelInv, ChannelTypeOK, CountersAreSpentOnce, Spent, Numbered
<1> QED
  BY <1>3, <1>4 DEF EndChannel

\* A poll that yields a frame yields the one the opener has counted up to, and
\* any other poll leaves the opener alone.
LEMMA PollKeeps ==
  ASSUME ChannelInv, NEW p \in Port, NEW frame, NEW result,
         PollChannel(p, frame, result)
  PROVE  /\ ChannelInv' /\ frame.id \in 0 .. Exhausted
         /\ result \in {"data", "close"} =>
              /\ frame \in OpenedFrame /\ frame.kind = result /\ frame.id = opener[p] + 1
              /\ opener' = [opener EXCEPT ![p] = @ + 1]
         /\ result \notin {"data", "close"} => opener' = opener
         /\ result = "end" => frame.id = 0
<1> USE PortsAssumption
<1>1. CASE TakeFrame(p, frame, result)
  <2> DEFINE q == Other(p)
  <2>0. q \in Port
    BY DEF Other, Port
  <2>1. ring[q] # <<>> /\ frame = Head(ring[q]) /\ ring' = [ring EXCEPT ![q] = Tail(@)]
    BY <1>1 DEF TakeFrame
  <2>2. /\ frame \in Frame /\ Tail(ring[q]) \in Seq(Frame)
        /\ frame.id = IF frame.kind = "end" THEN 0 ELSE frame.counter + 1
        /\ \A i \in DOMAIN Tail(ring[q]) :
              Tail(ring[q])[i].id = IF Tail(ring[q])[i].kind = "end" THEN 0
                                    ELSE Tail(ring[q])[i].counter + 1
    BY <2>0, <2>1, HeadOfRing
  <2>3. UNCHANGED <<flow, localClosed, sealer, sent>>
    BY <1>1 DEF TakeFrame, PollChannel
  <2>4. /\ result \in {"data", "close"} =>
              /\ frame.kind = result /\ frame.counter = opener[p] /\ opener[p] # Exhausted
              /\ opener' = [opener EXCEPT ![p] = @ + 1]
        /\ result \notin {"data", "close"} => opener' = opener
        /\ result = "end" => frame.kind = "end"
    <3>1. CASE frame.kind # "end" /\ Opens(p, frame) /\ result = frame.kind
               /\ opener' = [opener EXCEPT ![p] = frame.counter + 1]
      BY <2>2, <3>1 DEF Opens, Frame, FrameKinds
    <3> QED
      BY <1>1, <3>1 DEF TakeFrame
  <2>5. ChannelTypeOK'
    <3>1. ring' \in [Port -> Seq(Frame)]
      BY <2>0, <2>1, <2>2 DEF ChannelInv, ChannelTypeOK
    <3>2. remoteClosed' \in [Port -> BOOLEAN]
      <4>1. (remoteClosed[p] \/ frame.kind = "end") \in BOOLEAN
        BY Zenon
      <4> QED
        BY <1>1, <4>1 DEF TakeFrame, ChannelInv, ChannelTypeOK
    <3>3. opener' \in [Port -> 0 .. Exhausted]
      <4>1. opener \in [Port -> 0 .. Exhausted]
        BY DEF ChannelInv, ChannelTypeOK
      <4>2. CASE result \in {"data", "close"}
        <5>1. opener[p] + 1 \in 0 .. Exhausted
          BY <2>4, <4>1, <4>2
        <5> QED
          BY <2>4, <4>1, <4>2, <5>1
      <4>3. CASE result \notin {"data", "close"}
        BY <2>4, <4>1, <4>3
      <4> QED
        BY <4>2, <4>3
    <3> QED
      BY <2>3, <3>1, <3>2, <3>3 DEF ChannelInv, ChannelTypeOK
  <2>6. Numbered'
    BY <2>0, <2>1, <2>2 DEF ChannelInv, ChannelTypeOK, Numbered
  <2> QED
    BY <2>2, <2>3, <2>4, <2>5, <2>6 DEF ChannelInv, CountersAreSpentOnce, Spent, Frame,
                                     OpenedFrame
<1>2. CASE ObserveFlow(p, frame, result)
  <2>1. frame = NoFrame /\ UNCHANGED <<ring, remoteClosed, opener, localClosed, sealer, sent>>
    BY <1>2 DEF ObserveFlow, PollChannel
  <2>2. frame.id \in 0 .. Exhausted /\ result \in {"writable", "none"}
    BY <1>2, <2>1 DEF ObserveFlow, NoFrame
  <2>3. flow' \in [Port -> BOOLEAN]
    BY <1>2, FlowBoolean DEF ObserveFlow, ChannelInv, ChannelTypeOK
  <2> QED
    BY <2>1, <2>2, <2>3 DEF ChannelInv, ChannelTypeOK, CountersAreSpentOnce, Spent, Numbered
<1> QED
  BY <1>1, <1>2 DEF PollChannel

Delivery == DeliveredInOrder /\ OneTerminalEvent /\ Counted /\ TerminalStates

\* A step that neither takes nor hands on a frame, reopens no port and does not
\* take back a native close keeps what was delivered in order.
LEMMA QuietStep ==
  ASSUME PortInv, UNCHANGED <<got, pendingInbound, opener>>,
         Over("renderer")' = Over("renderer"),
         state["native"] = "closed" => state'["native"] = "closed"
  PROVE  Delivery'
BY DEF Delivery, PortInv, DeliveredInOrder, OneTerminalEvent, Counted, TerminalStates, Over

\* A port appends an event to those it has handed on.
LEMMA AppendEvent ==
  ASSUME PortInv, NEW p \in Port, NEW event \in Event,
         got' = [got EXCEPT ![p] = Append(@, event)]
  PROVE  /\ got' \in [Port -> Seq(Event)]
         /\ \A q \in Port : q # p => got'[q] = got[q]
         /\ Len(got[p]) \in Nat /\ DOMAIN got[p] = 1 .. Len(got[p])
         /\ Len(got'[p]) = Len(got[p]) + 1 /\ DOMAIN got'[p] = 1 .. Len(got[p]) + 1
         /\ got'[p][Len(got[p]) + 1] = event
         /\ \A i \in 1 .. Len(got[p]) : got'[p][i] = got[p][i]
BY DEF PortInv, PortTypeOK

\* The renderer hands on the next message, or its one terminal event.
LEMMA RendererHands ==
  ASSUME PortInv, ~Over("renderer"), NEW event \in Event,
         got' = [got EXCEPT !["renderer"] = Append(@, event)],
         UNCHANGED pendingInbound,
         opener'["native"] = opener["native"], state'["native"] = state["native"],
         \/ /\ event.kind = "message" /\ event.id = opener["renderer"] + 1
            /\ opener'["renderer"] = opener["renderer"] + 1
         \/ /\ event.kind \in Terminal /\ event.id \in {0, opener["renderer"] + 1}
            /\ Over("renderer")'
  PROVE  Delivery'
<1> DEFINE n == Len(got["renderer"])
<1>0. "renderer" \in Port /\ "native" \in Port
  BY DEF Port
<1>1. /\ got'["native"] = got["native"]
      /\ n \in Nat /\ DOMAIN got["renderer"] = 1 .. n
      /\ Len(got'["renderer"]) = n + 1 /\ DOMAIN got'["renderer"] = 1 .. n + 1
      /\ got'["renderer"][n + 1] = event
      /\ \A i \in 1 .. n : got'["renderer"][i] = got["renderer"][i]
  BY <1>0, AppendEvent
<1>2. opener["renderer"] = n
  BY DEF PortInv, Counted
<1>3. \A i \in 1 .. n : got["renderer"][i].kind \notin Terminal
  BY <1>1 DEF PortInv, TerminalStates
<1>4. event.id = n + 1 \/ (event.id = 0 /\ event.kind \in Terminal)
  BY <1>2
<1>5. event.kind \in Terminal => Over("renderer")'
  BY DEF Terminal
<1> HIDE DEF n
<1>6. DeliveredInOrder'
  <2>1. \A i \in 1 .. n + 1 :
          got'["renderer"][i].id = i
            \/ (got'["renderer"][i].id = 0 /\ got'["renderer"][i].kind \in Terminal)
    <3> TAKE i \in 1 .. n + 1
    <3>1. CASE i = n + 1
      BY <1>1, <1>4, <3>1
    <3>2. CASE i \in 1 .. n
      BY <1>0, <1>1, <3>2 DEF PortInv, DeliveredInOrder
    <3> QED
      BY <1>1, <3>1, <3>2
  <2> QED
    BY <1>1, <2>1 DEF PortInv, DeliveredInOrder, Port
<1>7. OneTerminalEvent'
  BY <1>1, <1>3 DEF PortInv, OneTerminalEvent, Port
<1>8. Counted'
  BY <1>1, <1>2, n = Len(got["renderer"]) DEF PortInv, Counted, Terminal
<1>9. TerminalStates'
  BY <1>1, <1>3, <1>5 DEF PortInv, TerminalStates
<1> QED
  BY <1>6, <1>7, <1>8, <1>9 DEF Delivery

\* The native port hands on the frame that is next, from those it has set aside
\* or, when there are none, from the channel.
LEMMA NativeHands ==
  ASSUME PortInv, state["native"] = "open", NEW event \in Event,
         got' = [got EXCEPT !["native"] = Append(@, event)],
         opener'["renderer"] = opener["renderer"], state'["renderer"] = state["renderer"],
         event.kind \in Terminal => state'["native"] = "closed",
         \/ /\ pendingInbound = <<>> /\ UNCHANGED pendingInbound
            /\ event.id = opener["native"] + 1
            /\ opener'["native"] = opener["native"] + 1
         \/ /\ pendingInbound # <<>> /\ pendingInbound' = Tail(pendingInbound)
            /\ event.id = Head(pendingInbound).id
            /\ opener'["native"] = opener["native"]
  PROVE  Delivery'
<1> USE PortsAssumption
<1> DEFINE n == Len(got["native"])
<1>0. "renderer" \in Port /\ "native" \in Port
  BY DEF Port
<1>1. /\ got'["renderer"] = got["renderer"]
      /\ n \in Nat /\ DOMAIN got["native"] = 1 .. n
      /\ Len(got'["native"]) = n + 1 /\ DOMAIN got'["native"] = 1 .. n + 1
      /\ got'["native"][n + 1] = event
      /\ \A i \in 1 .. n : got'["native"][i] = got["native"][i]
  BY <1>0, AppendEvent
<1>2. opener["native"] = n + Len(pendingInbound)
  BY DEF PortInv, Counted
<1>3. \A i \in 1 .. n : got["native"][i].kind \notin Terminal
  BY <1>1 DEF PortInv, TerminalStates
<1> HIDE DEF n
<1>4. pendingInbound \in Seq(OpenedFrame)
  BY DEF PortInv, PortTypeOK
<1>5. \A i \in DOMAIN pendingInbound : pendingInbound[i].id = n + i
  BY DEF PortInv, DeliveredInOrder, n
<1>6. /\ event.id = n + 1
      /\ opener'["native"] = n + 1 + Len(pendingInbound')
      /\ \A i \in DOMAIN pendingInbound' : pendingInbound'[i].id = n + 1 + i
  <2>1. CASE pendingInbound = <<>> /\ UNCHANGED pendingInbound
    BY <1>1, <1>2, <2>1
  <2>2. CASE pendingInbound # <<>> /\ pendingInbound' = Tail(pendingInbound)
    <3> DEFINE k == Len(pendingInbound)
    <3>1. /\ k \in Nat \ {0} /\ DOMAIN pendingInbound = 1 .. k
          /\ Len(pendingInbound') = k - 1 /\ DOMAIN pendingInbound' = 1 .. k - 1
          /\ Head(pendingInbound) = pendingInbound[1]
          /\ \A i \in 1 .. k - 1 : pendingInbound'[i] = pendingInbound[i + 1]
      BY <1>4, <2>2
    <3>2. /\ event.id = Head(pendingInbound).id
          /\ opener'["native"] = opener["native"] /\ opener["native"] = n + k
      BY <1>2, <2>2
    <3> HIDE DEF k
    <3>3. event.id = n + 1
      <4>1. 1 \in DOMAIN pendingInbound
        BY <3>1
      <4>2. pendingInbound[1].id = n + 1
        BY <1>5, <4>1, Zenon
      <4> QED
        BY <3>1, <3>2, <4>2, Zenon
    <3>4. opener'["native"] = n + 1 + Len(pendingInbound')
      BY <1>1, <3>1, <3>2
    <3>5. \A i \in 1 .. k - 1 : pendingInbound'[i].id = n + 1 + i
      <4> TAKE i \in 1 .. k - 1
      <4>1. pendingInbound'[i] = pendingInbound[i + 1] /\ i + 1 \in DOMAIN pendingInbound
        BY <3>1
      <4>2. pendingInbound'[i].id = n + (i + 1)
        BY <1>5, <4>1, Zenon
      <4> QED
        BY <1>1, <3>1, <4>2
    <3> QED
      BY <3>1, <3>3, <3>4, <3>5
  <2> QED
    BY <2>1, <2>2
<1>7. DeliveredInOrder'
  <2>1. \A i \in 1 .. n + 1 :
          got'["native"][i].id = i
            \/ (got'["native"][i].id = 0 /\ got'["native"][i].kind \in Terminal)
    <3> TAKE i \in 1 .. n + 1
    <3>1. CASE i = n + 1
      BY <1>1, <1>6, <3>1
    <3>2. CASE i \in 1 .. n
      BY <1>0, <1>1, <3>2 DEF PortInv, DeliveredInOrder
    <3> QED
      BY <1>1, <3>1, <3>2
  <2> QED
    BY <1>1, <1>6, <2>1 DEF PortInv, DeliveredInOrder, Port
<1>8. OneTerminalEvent'
  BY <1>1, <1>3 DEF PortInv, OneTerminalEvent, Port
<1>9. Counted'
  BY <1>1, <1>6 DEF PortInv, Counted, Over
<1>10. TerminalStates'
  BY <1>1, <1>3 DEF PortInv, TerminalStates, Over
<1> QED
  BY <1>7, <1>8, <1>9, <1>10 DEF Delivery

\* The native port sets a frame aside behind those it already has.
LEMMA FrameSetAside ==
  ASSUME PortInv, NEW frame \in OpenedFrame, frame.id = opener["native"] + 1,
         pendingInbound' = Append(pendingInbound, frame),
         UNCHANGED got, UNCHANGED state,
         opener' = [opener EXCEPT !["native"] = @ + 1],
         opener \in [Port -> 0 .. Exhausted]
  PROVE  Delivery'
<1> USE PortsAssumption
<1> DEFINE k == Len(pendingInbound)
           n == Len(got["native"])
<1>1. /\ k \in Nat /\ Len(pendingInbound') = k + 1 /\ DOMAIN pendingInbound' = 1 .. k + 1
      /\ DOMAIN pendingInbound = 1 .. k
      /\ pendingInbound'[k + 1] = frame
      /\ \A i \in 1 .. k : pendingInbound'[i] = pendingInbound[i]
  BY DEF PortInv, PortTypeOK
<1>2. /\ opener'["native"] = opener["native"] + 1 /\ opener'["renderer"] = opener["renderer"]
      /\ opener["native"] = n + k /\ n \in Nat /\ Len(got'["native"]) = n
  BY DEF Port, PortInv, PortTypeOK, Counted
<1>3. \A i \in 1 .. k : pendingInbound[i].id = n + i
  BY <1>1 DEF PortInv, DeliveredInOrder
<1> HIDE DEF k, n
<1>4. DeliveredInOrder'
  <2>1. \A i \in 1 .. k + 1 : pendingInbound'[i].id = n + i
    <3> TAKE i \in 1 .. k + 1
    <3>1. CASE i = k + 1
      BY <1>1, <1>2, <3>1
    <3>2. CASE i \in 1 .. k
      BY <1>1, <1>3, <3>2
    <3> QED
      BY <1>1, <3>1, <3>2
  <2> QED
    BY <1>1, <1>2, <2>1 DEF PortInv, DeliveredInOrder
<1>5. Counted'
  <2>1. opener'["native"] = Len(got'["native"]) + Len(pendingInbound')
    BY <1>1, <1>2
  <2>2. ~Over("renderer")' => opener'["renderer"] = Len(got'["renderer"])
    BY <1>2 DEF PortInv, Counted, Over
  <2> QED
    BY <2>1, <2>2 DEF Counted
<1> QED
  BY <1>4, <1>5 DEF Delivery, PortInv, OneTerminalEvent, TerminalStates, Over

\* A close whose release failed is reported as that failure.
LEMMA CloseFailed ==
  ASSUME PortInv, pc["native"] = "resetting", state["native"] = "closed",
         got' = [got EXCEPT !["native"] = InError(@)],
         UNCHANGED <<pendingInbound, opener, state>>
  PROVE  Delivery' /\ got' \in [Port -> Seq(Event)]
<1> DEFINE n == Len(got["native"])
           last == [kind |-> "error", id |-> got["native"][n].id]
<1>1. got["native"] \in Seq(Event) /\ got["renderer"] \in Seq(Event) /\ got["native"] # <<>>
  BY DEF PortInv, PortTypeOK, Port, Calls
<1>2. n \in Nat \ {0} /\ DOMAIN got["native"] = 1 .. n /\ got["native"][n] \in Event
  BY <1>1
<1>3. last \in Event /\ last.kind = "error" /\ last.id = got["native"][n].id
  BY <1>2 DEF Event
<1>4. got'["native"] = [got["native"] EXCEPT ![n] = last] /\ got'["renderer"] = got["renderer"]
  BY DEF PortInv, PortTypeOK, Port, InError
<1> HIDE DEF last
<1>5. /\ got'["native"] \in Seq(Event) /\ Len(got'["native"]) = n
      /\ DOMAIN got'["native"] = 1 .. n
      /\ \A i \in 1 .. n : got'["native"][i] = IF i = n THEN last ELSE got["native"][i]
  <2> DEFINE after == [got["native"] EXCEPT ![n] = last]
  <2>1. after \in Seq(Event) /\ Len(after) = n
    BY <1>1, <1>2, <1>3
  <2>2. DOMAIN after = 1 .. n /\ \A i \in 1 .. n : after[i] = IF i = n THEN last ELSE got["native"][i]
    BY <1>2
  <2> QED
    BY <1>4, <2>1, <2>2
<1> HIDE DEF n
<1>6. got' \in [Port -> Seq(Event)]
  BY <1>1, <1>4, <1>5 DEF PortInv, PortTypeOK, Port
<1>7. DeliveredInOrder'
  <2>1. \A i \in 1 .. n : got'["native"][i].id = got["native"][i].id
    BY <1>3, <1>5
  <2>2. \A i \in 1 .. n : got["native"][i].kind \in Terminal => got'["native"][i].kind \in Terminal
    BY <1>3, <1>5 DEF Terminal
  <2> QED
    BY <1>2, <1>4, <1>5, <2>1, <2>2, n = Len(got["native"]) DEF PortInv, DeliveredInOrder, Port
<1>8. OneTerminalEvent'
  BY <1>2, <1>4, <1>5, n = Len(got["native"]) DEF PortInv, OneTerminalEvent, Port
<1>9. Counted' /\ TerminalStates'
  BY <1>4, <1>5, n = Len(got["native"]) DEF PortInv, Counted, TerminalStates, Over
<1> QED
  BY <1>6, <1>7, <1>8, <1>9 DEF Delivery

\* Faults and the renderer's mark are flags.
LEMMA FaultBoolean ==
  ASSUME PortInv, NEW p \in Port, NEW result, Fault(p, result)
  PROVE  faulted' \in [Port -> BOOLEAN]
<1>1. (faulted[p] \/ result = "failed") \in BOOLEAN
  BY Zenon
<1> QED
  BY <1>1 DEF PortInv, PortTypeOK, Fault

LEMMA MarkedBoolean ==
  ASSUME PortInv, NEW result PROVE Marked(result) \in BOOLEAN
<1>1. (Used("renderer")' >= High) \in BOOLEAN
  OBVIOUS
<1>2. backpressured \in BOOLEAN
  BY DEF PortInv, PortTypeOK
<1> QED
  BY <1>1, <1>2, Zenon DEF Marked

\* The ports start with nothing sent and nothing received.
LEMMA PortsInit == Init => PortsInv
<1> SUFFICES ASSUME Init PROVE PortsInv
  OBVIOUS
<1> USE PortsAssumption DEF Init
<1>1. ChannelInv
  BY DEF ChannelInv, ChannelTypeOK, CountersAreSpentOnce, Spent, Numbered
<1>2. PortTypeOK
  <2>1. state \in [Port -> {"open", "closing", "closed", "failed"}] /\ pc \in [Port -> Steps]
    BY DEF Steps
  <2>2. pendingInbound \in Seq(OpenedFrame) /\ got \in [Port -> Seq(Event)]
    OBVIOUS
  <2>3. /\ backpressured \in BOOLEAN /\ transportClosed \in BOOLEAN /\ inboundEnded \in BOOLEAN
        /\ faulted \in [Port -> BOOLEAN]
    OBVIOUS
  <2> QED
    BY <2>1, <2>2, <2>3 DEF PortTypeOK
<1>3. DeliveredInOrder /\ OneTerminalEvent /\ Counted /\ TerminalStates /\ Calls
  BY DEF DeliveredInOrder, OneTerminalEvent, Counted, TerminalStates, Calls, Port
<1> QED
  BY <1>1, <1>2, <1>3 DEF PortsInv, PortInv

\* The renderer's calls.
LEMMA RendererKeeps ==
  ASSUME PortsInv, Renderer PROVE PortsInv'
<1> USE PortsAssumption
<1>0. ChannelInv /\ PortInv /\ "renderer" \in Port /\ "native" \in Port
  BY DEF PortsInv, Port
<1>1. CASE RendererSend
  <2>1. PICK result \in Results : SendFrame("renderer", "data", result)
           /\ backpressured' = Marked(result) /\ Fault("renderer", result)
    BY <1>1 DEF RendererSend
  <2>2. ChannelInv' /\ opener' = opener
    BY <1>0, <2>1, SendKeeps
  <2>3. UNCHANGED <<pendingInbound, inboundEnded, transportClosed, state, pc, got>>
    BY <1>1 DEF RendererSend, nativeVars
  <2>4. Delivery' /\ Calls'
    BY <1>0, <2>2, <2>3, QuietStep DEF PortInv, Calls, Over
  <2>5. PortTypeOK'
    BY <1>0, <2>1, <2>3, FaultBoolean, MarkedBoolean DEF PortInv, PortTypeOK
  <2> QED
    BY <2>2, <2>4, <2>5 DEF PortsInv, PortInv, Delivery
<1>2. CASE RendererClose
  <2>1. PICK result \in Results : SendFrame("renderer", "close", result)
           /\ Fault("renderer", result)
           /\ IF result = "sent"
              THEN /\ At("renderer", "ending")
                   /\ state' = [state EXCEPT !["renderer"] = "closing"] /\ UNCHANGED got
              ELSE Finish("error", NoFrame) /\ UNCHANGED pc
    BY <1>2 DEF RendererClose
  <2>2. ChannelInv' /\ opener' = opener
    BY <1>0, <2>1, SendKeeps
  <2>3. /\ UNCHANGED <<pendingInbound, inboundEnded, transportClosed, backpressured>>
        /\ pc["renderer"] = "idle" /\ state["renderer"] = "open"
    BY <1>2 DEF RendererClose, nativeVars, rendererVars
  <2>4. faulted' \in [Port -> BOOLEAN]
    BY <1>0, <2>1, FaultBoolean
  <2>5. CASE result = "sent"
    <3>1. /\ pc' = [pc EXCEPT !["renderer"] = "ending"]
          /\ state' = [state EXCEPT !["renderer"] = "closing"] /\ UNCHANGED got
      BY <2>1, <2>5 DEF At
    <3>2. PortTypeOK'
      BY <1>0, <2>3, <2>4, <3>1 DEF PortInv, PortTypeOK, Steps
    <3>3. Delivery'
      BY <1>0, <2>2, <2>3, <3>1, QuietStep DEF PortInv, PortTypeOK, Over
    <3>4. Calls'
      BY <1>0, <2>3, <3>1 DEF PortInv, PortTypeOK, Calls
    <3> QED
      BY <2>2, <3>2, <3>3, <3>4 DEF PortsInv, PortInv, Delivery
  <2>6. CASE result # "sent"
    <3> DEFINE event == [kind |-> "error", id |-> 0]
    <3>1. /\ UNCHANGED pc
          /\ state' = [state EXCEPT !["renderer"] = "failed"]
          /\ got' = [got EXCEPT !["renderer"] = Append(@, event)]
      BY <2>1, <2>6 DEF Finish, Hand, NoFrame
    <3>2. event \in Event
      BY DEF Event
    <3>3. state'["native"] = state["native"] /\ Over("renderer")' /\ ~Over("renderer")
      BY <1>0, <2>3, <3>1 DEF PortInv, PortTypeOK, Over
    <3>4. Delivery'
      BY <1>0, <2>2, <2>3, <3>1, <3>2, <3>3, RendererHands DEF Terminal
    <3>5. got' \in [Port -> Seq(Event)] /\ got'["native"] = got["native"]
      BY <1>0, <3>1, <3>2, AppendEvent
    <3>6. PortTypeOK'
      BY <1>0, <2>3, <2>4, <3>1, <3>5 DEF PortInv, PortTypeOK
    <3>7. Calls'
      BY <1>0, <2>3, <3>1, <3>3, <3>5 DEF PortInv, Calls
    <3> QED
      BY <2>2, <3>4, <3>6, <3>7 DEF PortsInv, PortInv, Delivery
  <2> QED
    BY <2>5, <2>6
<1>3. CASE RendererEnd
  <2>1. PICK result \in Results : EndChannel("renderer", result)
           /\ Fault("renderer", result)
           /\ IF result = "sent"
              THEN transportClosed' = TRUE /\ UNCHANGED <<state, got>>
              ELSE Finish("error", NoFrame) /\ UNCHANGED transportClosed
    BY <1>3 DEF RendererEnd
  <2>2. ChannelInv' /\ opener' = opener
    BY <1>0, <2>1, EndKeeps
  <2>3. /\ UNCHANGED <<pendingInbound, inboundEnded, backpressured>>
        /\ pc' = [pc EXCEPT !["renderer"] = "idle"]
        /\ state["renderer"] = "closing"
    BY <1>0, <1>3 DEF RendererEnd, nativeVars, At, PortInv, Calls
  <2>4. faulted' \in [Port -> BOOLEAN] /\ transportClosed' \in BOOLEAN
    BY <1>0, <2>1, FaultBoolean DEF PortInv, PortTypeOK
  <2>5. CASE result = "sent"
    <3>1. UNCHANGED <<state, got>>
      BY <2>1, <2>5
    <3>2. PortTypeOK'
      BY <1>0, <2>3, <2>4, <3>1 DEF PortInv, PortTypeOK, Steps
    <3>3. Delivery'
      BY <1>0, <2>2, <2>3, <3>1, QuietStep DEF Over
    <3>4. Calls'
      BY <1>0, <2>3, <3>1 DEF PortInv, PortTypeOK, Calls
    <3> QED
      BY <2>2, <3>2, <3>3, <3>4 DEF PortsInv, PortInv, Delivery
  <2>6. CASE result # "sent"
    <3> DEFINE event == [kind |-> "error", id |-> 0]
    <3>1. /\ state' = [state EXCEPT !["renderer"] = "failed"]
          /\ got' = [got EXCEPT !["renderer"] = Append(@, event)]
      BY <2>1, <2>6 DEF Finish, Hand, NoFrame
    <3>2. event \in Event
      BY DEF Event
    <3>3. state'["native"] = state["native"] /\ Over("renderer")' /\ ~Over("renderer")
      BY <1>0, <2>3, <3>1 DEF PortInv, PortTypeOK, Over
    <3>4. Delivery'
      BY <1>0, <2>2, <2>3, <3>1, <3>2, <3>3, RendererHands DEF Terminal
    <3>5. got' \in [Port -> Seq(Event)] /\ got'["native"] = got["native"]
      BY <1>0, <3>1, <3>2, AppendEvent
    <3>6. PortTypeOK'
      BY <1>0, <2>3, <2>4, <3>1, <3>5 DEF PortInv, PortTypeOK, Steps
    <3>7. Calls'
      BY <1>0, <2>3, <3>3, <3>5 DEF PortInv, PortTypeOK, Calls
    <3> QED
      BY <2>2, <3>4, <3>6, <3>7 DEF PortsInv, PortInv, Delivery
  <2> QED
    BY <2>5, <2>6
<1>4. CASE RendererDispatch
  <2>1. UNCHANGED <<ring, flow, localClosed, remoteClosed, sealer, opener, sent>>
    BY <1>4 DEF RendererDispatch, channelVars, protectionVars
  <2>2. /\ UNCHANGED <<pendingInbound, inboundEnded, backpressured, transportClosed, state, got, faulted>>
        /\ pc' = [pc EXCEPT !["renderer"] = "dispatching"]
        /\ state["renderer"] \in {"open", "closing"}
    BY <1>4 DEF RendererDispatch, nativeVars, rendererVars, At, Polled
  <2>3. ChannelInv'
    BY <1>0, <2>1 DEF ChannelInv, ChannelTypeOK, CountersAreSpentOnce, Spent, Numbered
  <2>4. PortTypeOK' /\ Calls'
    BY <1>0, <2>2 DEF PortInv, PortTypeOK, Calls, Steps
  <2>5. Delivery'
    BY <1>0, <2>1, <2>2, QuietStep DEF Over
  <2> QED
    BY <2>3, <2>4, <2>5 DEF PortsInv, PortInv, Delivery
<1>5. CASE RendererTurn
  <2>1. PICK frame \in Arriving("renderer"), result \in Results :
          /\ PollChannel("renderer", frame, result)
          /\ \/ /\ result = "data" /\ Hand("renderer", "message", frame)
                /\ UNCHANGED <<state, rendererVars>>
             \/ /\ result = "writable" /\ backpressured' = FALSE
                /\ UNCHANGED <<state, got, transportClosed>>
             \/ /\ result \in Endings /\ Finish("closed", frame)
                /\ transportClosed' = TRUE /\ UNCHANGED backpressured
             \/ /\ result = "failed" /\ Finish("error", NoFrame)
                /\ UNCHANGED rendererVars
             \/ /\ result \notin Endings \cup {"data", "writable", "failed"}
                /\ UNCHANGED <<state, got, rendererVars>>
          /\ At("renderer", IF result \in {"data", "writable"} THEN "dispatching" ELSE "idle")
          /\ Fault("renderer", result)
    BY <1>5 DEF RendererTurn
  <2>2. /\ ChannelInv' /\ frame.id \in 0 .. Exhausted
        /\ result \in {"data", "close"} =>
             frame.id = opener["renderer"] + 1 /\ opener' = [opener EXCEPT !["renderer"] = @ + 1]
        /\ result \notin {"data", "close"} => opener' = opener
        /\ result = "end" => frame.id = 0
    BY <1>0, <2>1, PollKeeps
  <2>3. /\ UNCHANGED <<pendingInbound, inboundEnded>> /\ faulted' \in [Port -> BOOLEAN]
        /\ state["renderer"] \in {"open", "closing"} /\ ~Over("renderer")
    BY <1>0, <1>5, <2>1, FaultBoolean DEF RendererTurn, nativeVars, PortInv, Calls, Over
  <2>4. pc' = [pc EXCEPT !["renderer"] = IF result \in {"data", "writable"} THEN "dispatching" ELSE "idle"]
    BY <2>1 DEF At
  <2>5. opener'["native"] = opener["native"]
        /\ (result \in {"data", "close"} => opener'["renderer"] = opener["renderer"] + 1)
    BY <1>0, <2>2 DEF ChannelInv, ChannelTypeOK, Port
  <2>6. CASE result = "data"
    <3> DEFINE event == [kind |-> "message", id |-> frame.id]
    <3>1. /\ UNCHANGED <<state, backpressured, transportClosed>>
          /\ got' = [got EXCEPT !["renderer"] = Append(@, event)]
      BY <2>1, <2>6 DEF Hand, rendererVars, Endings
    <3>2. event \in Event
      BY <2>2 DEF Event
    <3>3. Delivery'
      BY <1>0, <2>2, <2>3, <2>5, <2>6, <3>1, <3>2, RendererHands
    <3>4. got' \in [Port -> Seq(Event)] /\ got'["native"] = got["native"]
      BY <1>0, <3>1, <3>2, AppendEvent
    <3>5. PortTypeOK' /\ Calls'
      BY <1>0, <2>3, <2>4, <2>6, <3>1, <3>4 DEF PortInv, PortTypeOK, Calls, Steps
    <3> QED
      BY <2>2, <3>3, <3>5 DEF PortsInv, PortInv, Delivery
  <2>7. CASE result \in {"writable", "refused", "sent", "none"}
    <3>1. UNCHANGED <<state, got, transportClosed>> /\ backpressured' \in BOOLEAN
      BY <1>0, <2>1, <2>7 DEF Endings, rendererVars, PortInv, PortTypeOK
    <3>2. Delivery'
      BY <1>0, <2>2, <2>3, <2>7, <3>1, QuietStep DEF Over
    <3>3. PortTypeOK' /\ Calls'
      BY <1>0, <2>3, <2>4, <3>1 DEF PortInv, PortTypeOK, Calls, Steps
    <3> QED
      BY <2>2, <3>2, <3>3 DEF PortsInv, PortInv, Delivery
  <2>8. CASE result \in {"close", "end", "failed"}
    <3> DEFINE event == IF result = "failed" THEN [kind |-> "error", id |-> 0]
                        ELSE [kind |-> "closed", id |-> frame.id]
    <3>1. /\ backpressured' = backpressured /\ transportClosed' \in BOOLEAN
          /\ state' = [state EXCEPT !["renderer"] = IF result = "failed" THEN "failed" ELSE "closed"]
          /\ got' = [got EXCEPT !["renderer"] = Append(@, event)]
      BY <1>0, <2>1, <2>8 DEF Finish, Hand, NoFrame, Endings, rendererVars, PortInv, PortTypeOK
    <3>2. event \in Event /\ event.kind \in Terminal /\ event.id \in {0, opener["renderer"] + 1}
      BY <2>2, <2>8 DEF Event, Terminal
    <3> HIDE DEF event
    <3>3. state'["native"] = state["native"] /\ Over("renderer")'
      BY <1>0, <3>1 DEF PortInv, PortTypeOK, Over
    <3>4. Delivery'
      BY <1>0, <2>2, <2>3, <2>5, <3>1, <3>2, <3>3, RendererHands
    <3>5. got' \in [Port -> Seq(Event)] /\ got'["native"] = got["native"]
      BY <1>0, <3>1, <3>2, AppendEvent
    <3>6. PortTypeOK' /\ Calls'
      BY <1>0, <2>3, <2>4, <2>8, <3>1, <3>3, <3>5 DEF PortInv, PortTypeOK, Calls, Steps
    <3> QED
      BY <2>2, <3>4, <3>6 DEF PortsInv, PortInv, Delivery
  <2> QED
    BY <2>6, <2>7, <2>8 DEF Results
<1> QED
  BY <1>1, <1>2, <1>3, <1>4, <1>5 DEF Renderer

\* A failure ends the native port, and only an open one.
LEMMA FailsKeeps ==
  ASSUME PortInv, state["native"] = "open", NEW result, Fails(result)
  PROVE  /\ state' \in [Port -> {"open", "closing", "closed", "failed"}]
         /\ state'["renderer"] = state["renderer"] /\ state'["native"] # "closed"
         /\ (result # "failed" => state' = state)
BY DEF Fails, PortInv, PortTypeOK, Port

\* The native port takes a message or the renderer's close.
LEMMA TakesKeeps ==
  ASSUME ChannelInv, ChannelInv', PortInv, state["native"] = "open",
         NEW frame \in OpenedFrame, NEW result \in {"data", "close"}, NativeTakes(frame, result),
         opener'["renderer"] = opener["renderer"],
         \/ /\ pendingInbound = <<>> /\ UNCHANGED pendingInbound
            /\ frame.id = opener["native"] + 1
            /\ opener'["native"] = opener["native"] + 1
         \/ /\ pendingInbound # <<>> /\ pendingInbound' = Tail(pendingInbound)
            /\ frame.id = Head(pendingInbound).id
            /\ opener'["native"] = opener["native"],
         UNCHANGED <<backpressured, transportClosed>>,
         inboundEnded' \in BOOLEAN, faulted' \in [Port -> BOOLEAN]
  PROVE  PortInv'
<1> DEFINE event == [kind |-> IF result = "close" THEN "closed" ELSE "message", id |-> frame.id]
<1>0. "renderer" \in Port /\ "native" \in Port
  BY DEF Port
<1>1. /\ got' = [got EXCEPT !["native"] = Append(@, event)]
      /\ state' = [state EXCEPT !["native"] = IF result = "close" THEN "closed" ELSE @]
      /\ pc' = [pc EXCEPT !["native"] = IF result = "close" THEN "ending" ELSE "idle"]
  BY DEF NativeTakes, Hand, At
<1>2. event \in Event /\ event.id = frame.id /\ (event.kind \in Terminal <=> result = "close")
  BY PortsAssumption DEF Event, Frame, OpenedFrame, Terminal
<1> HIDE DEF event
<1>3. /\ state'["renderer"] = state["renderer"]
      /\ (event.kind \in Terminal => state'["native"] = "closed")
  BY <1>0, <1>1, <1>2 DEF PortInv, PortTypeOK
<1>4. Delivery'
  BY <1>1, <1>2, <1>3, NativeHands
<1>5. /\ got' \in [Port -> Seq(Event)] /\ Len(got["native"]) \in Nat
      /\ Len(got'["native"]) = Len(got["native"]) + 1
      /\ got'["native"][Len(got["native"]) + 1] = event
  BY <1>0, <1>1, <1>2, AppendEvent
<1>6. pendingInbound' \in Seq(OpenedFrame)
  <2>1. pendingInbound \in Seq(OpenedFrame)
    BY DEF PortInv, PortTypeOK
  <2>2. pendingInbound' = pendingInbound \/ (pendingInbound # <<>> /\ pendingInbound' = Tail(pendingInbound))
    OBVIOUS
  <2> QED
    BY <2>1, <2>2
<1>7. PortTypeOK'
  BY <1>1, <1>5, <1>6 DEF PortInv, PortTypeOK, Steps
<1>8. Calls'
  <2>1. CASE result = "close"
    <3>1. got'["native"] # <<>> /\ got'["native"][Len(got'["native"])] = event
      BY <1>5
    <3> QED
      BY <1>0, <1>1, <1>2, <2>1, <3>1 DEF PortInv, PortTypeOK, Calls
  <2>2. CASE result # "close"
    BY <1>0, <1>1, <2>2 DEF PortInv, PortTypeOK, Calls
  <2> QED
    BY <2>1, <2>2
<1> QED
  BY <1>4, <1>7, <1>8 DEF PortInv, Delivery

\* The native port's calls.
LEMMA NativeKeeps ==
  ASSUME PortsInv, Native PROVE PortsInv'
<1> USE PortsAssumption
<1>0. ChannelInv /\ PortInv /\ "renderer" \in Port /\ "native" \in Port
  BY DEF PortsInv, Port
<1>1. CASE NativeSend
  <2>1. PICK result \in Results : SendFrame("native", "data", result)
           /\ Fails(result)
           /\ At("native", IF result = "refused" THEN "yielding" ELSE "idle")
           /\ Fault("native", result)
    BY <1>1 DEF NativeSend
  <2>2. ChannelInv' /\ opener' = opener
    BY <1>0, <2>1, SendKeeps
  <2>3. /\ UNCHANGED <<pendingInbound, inboundEnded, backpressured, transportClosed, got>>
        /\ state["native"] = "open" /\ faulted' \in [Port -> BOOLEAN]
    BY <1>0, <1>1, <2>1, FaultBoolean DEF NativeSend, nativeVars, rendererVars
  <2>4. /\ state' \in [Port -> {"open", "closing", "closed", "failed"}]
        /\ state'["renderer"] = state["renderer"] /\ state'["native"] # "closed"
        /\ (result # "failed" => state' = state)
    BY <1>0, <2>1, <2>3, FailsKeeps
  <2>5. pc' = [pc EXCEPT !["native"] = IF result = "refused" THEN "yielding" ELSE "idle"]
    BY <2>1 DEF At
  <2>6. PortTypeOK' /\ Calls'
    BY <1>0, <2>3, <2>4, <2>5 DEF PortInv, PortTypeOK, Calls, Steps
  <2>7. Delivery'
    BY <1>0, <2>2, <2>3, <2>4, QuietStep DEF Over
  <2> QED
    BY <2>2, <2>6, <2>7 DEF PortsInv, PortInv, Delivery
<1>2. CASE NativeYield
  <2>1. PICK frame \in Arriving("native"), result \in Results :
          /\ PollChannel("native", frame, result)
          /\ pendingInbound' = SetAside(frame, result)
          /\ inboundEnded' = (inboundEnded \/ result = "end")
          /\ IF pc["native"] = "yielding" THEN Fails(result) ELSE UNCHANGED state
          /\ Fault("native", result)
    BY <1>2 DEF NativeYield
  <2>2. /\ ChannelInv'
        /\ result \in {"data", "close"} =>
             /\ frame \in OpenedFrame /\ frame.id = opener["native"] + 1
             /\ opener' = [opener EXCEPT !["native"] = @ + 1]
        /\ result \notin {"data", "close"} => opener' = opener
    BY <1>0, <2>1, PollKeeps
  <2>3. /\ UNCHANGED <<backpressured, transportClosed, got>>
        /\ pc' = [pc EXCEPT !["native"] = "idle"]
        /\ state["native"] = "open" /\ faulted' \in [Port -> BOOLEAN]
    BY <1>0, <1>2, <2>1, FaultBoolean DEF NativeYield, rendererVars, At, PortInv, Calls
  <2>4. /\ state' \in [Port -> {"open", "closing", "closed", "failed"}]
        /\ state'["renderer"] = state["renderer"] /\ state'["native"] # "closed"
        /\ (result # "failed" => state' = state)
    BY <1>0, <2>1, <2>3, FailsKeeps DEF PortInv, PortTypeOK
  <2>5. inboundEnded' \in BOOLEAN
    BY <2>1, Zenon
  <2>6. CASE result \in {"data", "close"}
    <3>1. pendingInbound' = Append(pendingInbound, frame)
      BY <2>1, <2>6 DEF SetAside
    <3>2. Delivery'
      BY <1>0, <2>2, <2>3, <2>4, <2>6, <3>1, FrameSetAside DEF ChannelInv, ChannelTypeOK
    <3>3. pendingInbound' \in Seq(OpenedFrame)
      BY <1>0, <2>2, <2>6, <3>1 DEF PortInv, PortTypeOK
    <3>4. PortTypeOK' /\ Calls'
      BY <1>0, <2>3, <2>4, <2>5, <3>3 DEF PortInv, PortTypeOK, Calls, Steps
    <3> QED
      BY <2>2, <3>2, <3>4 DEF PortsInv, PortInv, Delivery
  <2>7. CASE result \notin {"data", "close"}
    <3>1. UNCHANGED <<pendingInbound, opener>>
      BY <2>1, <2>2, <2>7 DEF SetAside
    <3>2. Delivery'
      BY <1>0, <2>3, <2>4, <3>1, QuietStep DEF Over
    <3>3. PortTypeOK' /\ Calls'
      BY <1>0, <2>3, <2>4, <2>5, <3>1 DEF PortInv, PortTypeOK, Calls, Steps
    <3> QED
      BY <2>2, <3>2, <3>3 DEF PortsInv, PortInv, Delivery
  <2> QED
    BY <2>6, <2>7
<1>3. CASE ReceiveSetAside
  <2> DEFINE frame == Head(pendingInbound)
  <2>1. /\ UNCHANGED <<ring, flow, localClosed, remoteClosed, sealer, opener, sent>>
        /\ UNCHANGED <<backpressured, transportClosed, inboundEnded, faulted>>
        /\ state["native"] = "open" /\ pendingInbound # <<>>
        /\ pendingInbound' = Tail(pendingInbound) /\ NativeTakes(frame, frame.kind)
    BY <1>3 DEF ReceiveSetAside, channelVars, protectionVars, rendererVars
  <2>2. frame \in OpenedFrame
    BY <1>0, <2>1 DEF PortInv, PortTypeOK
  <2>3. ChannelInv'
    BY <1>0, <2>1 DEF ChannelInv, ChannelTypeOK, CountersAreSpentOnce, Spent, Numbered
  <2>4. frame.kind \in {"data", "close"}
    BY <2>2 DEF OpenedFrame, Frame, FrameKinds
  <2>5. inboundEnded' \in BOOLEAN /\ faulted' \in [Port -> BOOLEAN]
    BY <1>0, <2>1 DEF PortInv, PortTypeOK
  <2> QED
    BY <1>0, <2>1, <2>2, <2>3, <2>4, <2>5, TakesKeeps DEF PortsInv
<1>4. CASE ReceivePolled
  <2>1. PICK frame \in Arriving("native"), result \in Results :
          /\ PollChannel("native", frame, result)
          /\ inboundEnded' = (result = "end")
          /\ IF result \in {"data", "close"}
             THEN NativeTakes(frame, result)
             ELSE Fails(result) /\ UNCHANGED <<got, pc>>
          /\ Fault("native", result)
    BY <1>4 DEF ReceivePolled
  <2>2. /\ ChannelInv'
        /\ result \in {"data", "close"} =>
             /\ frame \in OpenedFrame /\ frame.id = opener["native"] + 1
             /\ opener' = [opener EXCEPT !["native"] = @ + 1]
        /\ result \notin {"data", "close"} => opener' = opener
    BY <1>0, <2>1, PollKeeps
  <2>3. /\ UNCHANGED <<backpressured, transportClosed, pendingInbound>>
        /\ state["native"] = "open" /\ faulted' \in [Port -> BOOLEAN]
        /\ pc["native"] = "idle" /\ pendingInbound = <<>>
    BY <1>0, <1>4, <2>1, FaultBoolean DEF ReceivePolled, rendererVars
  <2>4. inboundEnded' \in BOOLEAN
    BY <2>1, Zenon
  <2>5. CASE result \in {"data", "close"}
    <3>1. opener'["renderer"] = opener["renderer"] /\ opener'["native"] = opener["native"] + 1
      BY <1>0, <2>2, <2>5 DEF ChannelInv, ChannelTypeOK
    <3>2. NativeTakes(frame, result)
      BY <2>1, <2>5
    <3> QED
      BY <1>0, <2>2, <2>3, <2>4, <2>5, <3>1, <3>2, TakesKeeps DEF PortsInv
  <2>6. CASE result \notin {"data", "close"}
    <3>1. /\ state' \in [Port -> {"open", "closing", "closed", "failed"}]
          /\ state'["renderer"] = state["renderer"] /\ state'["native"] # "closed"
          /\ UNCHANGED <<got, pc>>
      BY <1>0, <2>1, <2>3, <2>6, FailsKeeps
    <3>2. Delivery'
      BY <1>0, <2>2, <2>3, <2>6, <3>1, QuietStep DEF Over
    <3>3. PortTypeOK' /\ Calls'
      BY <1>0, <2>3, <2>4, <3>1 DEF PortInv, PortTypeOK, Calls
    <3> QED
      BY <2>2, <3>2, <3>3 DEF PortsInv, PortInv, Delivery
  <2> QED
    BY <2>5, <2>6
<1>5. CASE NativeClose
  <2>1. /\ UNCHANGED <<pendingInbound, inboundEnded, backpressured, transportClosed, state, got>>
        /\ state["native"] # "closed"
    BY <1>5 DEF NativeClose, nativeVars, rendererVars
  <2>2. CASE state["native"] = "open"
    <3>1. PICK result \in Results : SendFrame("native", "close", result)
            /\ At("native", IF result = "sent" THEN "ending"
                            ELSE IF result = "refused" THEN "yielding in close" ELSE "idle")
            /\ Fault("native", result)
      BY <1>5, <2>2 DEF NativeClose
    <3>2. ChannelInv' /\ opener' = opener
      BY <1>0, <3>1, SendKeeps
    <3>3. faulted' \in [Port -> BOOLEAN]
      BY <1>0, <3>1, FaultBoolean
    <3>4. pc' = [pc EXCEPT !["native"] = IF result = "sent" THEN "ending"
                   ELSE IF result = "refused" THEN "yielding in close" ELSE "idle"]
      BY <3>1 DEF At
    <3>5. PortTypeOK' /\ Calls'
      BY <1>0, <2>1, <2>2, <3>3, <3>4 DEF PortInv, PortTypeOK, Calls, Steps
    <3>6. Delivery'
      BY <1>0, <2>1, <3>2, QuietStep DEF Over
    <3> QED
      BY <3>2, <3>5, <3>6 DEF PortsInv, PortInv, Delivery
  <2>3. CASE state["native"] # "open"
    <3>1. /\ UNCHANGED <<ring, flow, localClosed, remoteClosed, sealer, opener, sent, faulted>>
          /\ pc' = [pc EXCEPT !["native"] = "ending"]
      BY <1>5, <2>3 DEF NativeClose, channelVars, protectionVars, At
    <3>2. ChannelInv'
      BY <1>0, <3>1 DEF ChannelInv, ChannelTypeOK, CountersAreSpentOnce, Spent, Numbered
    <3>3. PortTypeOK' /\ Calls'
      BY <1>0, <2>1, <3>1 DEF PortInv, PortTypeOK, Calls, Steps
    <3>4. Delivery'
      BY <1>0, <2>1, <3>1, QuietStep DEF Over
    <3> QED
      BY <3>2, <3>3, <3>4 DEF PortsInv, PortInv, Delivery
  <2> QED
    BY <2>2, <2>3
<1>6. CASE NativeEnd
  <2>1. PICK result \in Results :
          /\ EndChannel("native", result)
          /\ IF result = "sent"
             THEN /\ state' = [state EXCEPT !["native"] = "closed"]
                  /\ At("native", "idle")
                  /\ UNCHANGED <<got, faulted>>
             ELSE /\ At("native", IF pc["native"] = "ending" THEN "resetting" ELSE "idle")
                  /\ faulted' = [faulted EXCEPT !["native"] = @ \/ pc["native"] = "resetting"]
                  /\ got' = IF pc["native"] = "resetting" /\ state["native"] = "closed"
                            THEN [got EXCEPT !["native"] = InError(@)]
                            ELSE got
                  /\ UNCHANGED state
    BY <1>6 DEF NativeEnd
  <2>2. ChannelInv' /\ opener' = opener
    BY <1>0, <2>1, EndKeeps
  <2>3. /\ UNCHANGED <<pendingInbound, inboundEnded, backpressured, transportClosed>>
        /\ pc["native"] \in {"ending", "resetting"}
    BY <1>6 DEF NativeEnd, nativeVars, rendererVars
  <2>4. CASE result = "sent"
    <3>1. /\ state' = [state EXCEPT !["native"] = "closed"]
          /\ pc' = [pc EXCEPT !["native"] = "idle"] /\ UNCHANGED <<got, faulted>>
      BY <2>1, <2>4 DEF At
    <3>2. PortTypeOK' /\ Calls'
      BY <1>0, <2>3, <3>1 DEF PortInv, PortTypeOK, Calls, Steps
    <3>3. Delivery'
      BY <1>0, <2>2, <2>3, <3>1, QuietStep DEF Over, PortInv, PortTypeOK
    <3> QED
      BY <2>2, <3>2, <3>3 DEF PortsInv, PortInv, Delivery
  <2>5. CASE result # "sent"
    <3>1. /\ pc' = [pc EXCEPT !["native"] = IF pc["native"] = "ending" THEN "resetting" ELSE "idle"]
          /\ UNCHANGED state
      BY <2>1, <2>5 DEF At
    <3>2. faulted' \in [Port -> BOOLEAN]
      <4>1. (faulted["native"] \/ pc["native"] = "resetting") \in BOOLEAN
        BY Zenon
      <4> QED
        BY <1>0, <2>1, <2>5, <4>1 DEF PortInv, PortTypeOK
    <3>3. CASE pc["native"] = "resetting" /\ state["native"] = "closed"
      <4>1. got' = [got EXCEPT !["native"] = InError(@)]
        BY <2>1, <2>5, <3>3
      <4>2. Delivery' /\ got' \in [Port -> Seq(Event)]
        BY <1>0, <2>2, <2>3, <3>1, <3>3, <4>1, CloseFailed
      <4>3. PortTypeOK' /\ Calls'
        BY <1>0, <2>3, <3>1, <3>2, <3>3, <4>2 DEF PortInv, PortTypeOK, Calls, Steps
      <4> QED
        BY <2>2, <4>2, <4>3 DEF PortsInv, PortInv, Delivery
    <3>4. CASE ~(pc["native"] = "resetting" /\ state["native"] = "closed")
      <4>1. got' = got
        BY <2>1, <2>5, <3>4
      <4>2. Delivery'
        BY <1>0, <2>2, <2>3, <3>1, <4>1, QuietStep DEF Over
      <4>3. PortTypeOK' /\ Calls'
        BY <1>0, <2>3, <3>1, <3>2, <3>4, <4>1 DEF PortInv, PortTypeOK, Calls, Steps
      <4> QED
        BY <2>2, <4>2, <4>3 DEF PortsInv, PortInv, Delivery
    <3> QED
      BY <3>3, <3>4
  <2> QED
    BY <2>4, <2>5
<1> QED
  BY <1>1, <1>2, <1>3, <1>4, <1>5, <1>6 DEF Native, NativeReceive

\* The invariant holds.
LEMMA PortsInvariant == Spec => []PortsInv
<1>1. PortsInv /\ [Next]_vars => PortsInv'
  <2> SUFFICES ASSUME PortsInv, [Next]_vars PROVE PortsInv'
    OBVIOUS
  <2>1. CASE Next
    BY <2>1, RendererKeeps, NativeKeeps DEF Next
  <2>2. CASE UNCHANGED vars
    <3>1. ChannelInv'
      BY <2>2 DEF PortsInv, ChannelInv, ChannelTypeOK, CountersAreSpentOnce, Spent, Numbered,
                  vars, channelVars, protectionVars
    <3>2. UNCHANGED <<got, pendingInbound, opener, state>>
      BY <2>2 DEF vars, nativeVars, protectionVars
    <3>3. PortTypeOK' /\ Calls'
      BY <2>2 DEF PortsInv, PortInv, PortTypeOK, Calls, vars, nativeVars, rendererVars
    <3>4. Delivery'
      BY <3>2, QuietStep DEF PortsInv, Over
    <3> QED
      BY <3>1, <3>3, <3>4 DEF PortsInv, PortInv, Delivery
  <2> QED
    BY <2>1, <2>2
<1> QED
  BY <1>1, PortsInit, PTL DEF Spec

\* Every variable of the two ports stays in its type.
THEOREM PortsTypeOK == Spec => []TypeOK
<1>1. PortsInv => TypeOK
  BY DEF PortsInv, ChannelInv, PortInv, TypeOK
<1> QED
  BY <1>1, PortsInvariant, PTL

\* No counter of the frame protection is used twice and none is skipped,
\* whichever sends are refused and whichever notifications fail.
THEOREM PortsSpendOnce == Spec => []CountersAreSpentOnce
<1>1. PortsInv => CountersAreSpentOnce
  BY DEF PortsInv, ChannelInv
<1> QED
  BY <1>1, PortsInvariant, PTL

\* Each port hands on the frames of the other in order, each once and none after
\* a lost one.
THEOREM PortsDeliverInOrder == Spec => []DeliveredInOrder
<1>1. PortsInv => DeliveredInOrder
  BY DEF PortsInv, PortInv
<1> QED
  BY <1>1, PortsInvariant, PTL

\* A port hands on one terminal event at most, and nothing after it.
THEOREM PortsEndOnce == Spec => []OneTerminalEvent
<1>1. PortsInv => OneTerminalEvent
  BY DEF PortsInv, PortInv
<1> QED
  BY <1>1, PortsInvariant, PTL
=============================================================================
