---------------------------- MODULE MemoryProofs ----------------------------
(***************************************************************************)
(* The memory that moves between the endpoints.  Shared regions:           *)
(* references to a memory entry balance, and an open endpoint maps its own *)
(* region, for any number of clients, generations and surface numbers.     *)
(*   The chunk pool implements the payload queue, whatever the number of   *)
(* slabs and the payloads.  A slab is in one place at a time: free, ready, *)
(* on loan or received.  So no write of the producer reaches a slab whose  *)
(* payload is promised to the consumer, and no operation finds a slot      *)
(* without its buffer; and as no slab gets lost, the places add up.        *)
(***************************************************************************)
EXTENDS SharedMemory, ChunkPool, SequenceTheorems, TLAPS

\* The broker and the host's mapping have a reference each.
Holders(g) == (IF worker[g] = "serving" THEN 1 ELSE 0) + (IF HostMaps(g) THEN 1 ELSE 0)

\* What the clients hold, without the types the providers' numbers have.
ClientsInv ==
  /\ client \in [Clients -> ClientType]
  /\ \A c \in Clients :
       /\ client[c].held = 1 => client[c].phase = "answered"
       /\ client[c].phase = "open" => client[c].region = client[c].told

\* A broker is started with its region and a region is made once, so a region
\* that is not made yet has no holder; an entry with a broker is a Mach entry.
HostInv ==
  /\ provider \in Providers
  /\ owner \in [Generations -> {"none", "made", "ready", "closing", "dropped"}]
  /\ worker \in [Generations -> {"none", "serving", "ended"}]
  /\ rights \in [Generations -> Int]
  /\ published \subseteq Generations
  /\ \A g \in Generations :
       /\ owner[g] = "none" => worker[g] = "none"
       /\ IsMach => rights[g] = Holders(g)

MemoryInv == ClientsInv /\ HostInv

\* What a client may be.
Sound(record) ==
  /\ record \in ClientType
  /\ record.held = 1 => record.phase = "answered"
  /\ record.phase = "open" => record.region = record.told

-----------------------------------------------------------------------------
LEMMA MemoryStart == Init => MemoryInv
<1> SUFFICES ASSUME Init PROVE MemoryInv
  OBVIOUS
<1>1. [phase |-> "idle", told |-> 0, region |-> 0, held |-> 0] \in ClientType
  BY MaxGenerationAssumption DEF ClientType, Phases
<1>2. ClientsInv
  BY <1>1 DEF Init, ClientsInv
<1>3. HostInv
  BY DEF Init, HostInv, Holders, HostMaps, Providers
<1>4. QED
  BY <1>2, <1>3 DEF MemoryInv

\* A client that is not open is sound when it has just got a right or none.
LEMMA NotOpen ==
  ASSUME MemoryInv, NEW c \in Clients, NEW phase \in Phases \ {"open"}, NEW held \in 0 .. 1,
         held = 1 => phase = "answered"
  PROVE  Sound([client[c] EXCEPT !.phase = phase, !.held = held])
<1> DEFINE moved == [client[c] EXCEPT !.phase = phase]
           record == [moved EXCEPT !.held = held]
<1>1. [client[c] EXCEPT !.phase = phase, !.held = held] = record
  OBVIOUS
<1>2. moved \in ClientType /\ moved.phase = phase
  BY DEF MemoryInv, ClientsInv, ClientType
<1> HIDE DEF moved
<1>3. record \in ClientType /\ record.phase = phase /\ record.held = held
  BY <1>2 DEF ClientType
<1>4. Sound(record)
  BY <1>3 DEF Sound
<1>5. QED
  BY <1>1, <1>4

\* A client that is not open is sound when it has no right.
LEMMA WithoutRight ==
  ASSUME MemoryInv, NEW c \in Clients, NEW phase \in Phases \ {"open"}
  PROVE  Sound([client[c] EXCEPT !.phase = phase, !.held = 0])
<1> DEFINE moved == [client[c] EXCEPT !.phase = phase]
           record == [moved EXCEPT !.held = 0]
<1>1. [client[c] EXCEPT !.phase = phase, !.held = 0] = record
  OBVIOUS
<1>2. moved \in ClientType /\ moved.phase = phase
  BY DEF MemoryInv, ClientsInv, ClientType
<1> HIDE DEF moved
<1>3. record \in ClientType /\ record.phase = phase /\ record.held = 0
  BY <1>2 DEF ClientType
<1>4. Sound(record)
  BY <1>3 DEF Sound
<1>5. QED
  BY <1>1, <1>4

\* A step of one client, or of the host for it.
LEMMA OneClient ==
  ASSUME MemoryInv, NEW c \in Clients, NEW record, Sound(record),
         client' = [client EXCEPT ![c] = record]
  PROVE  ClientsInv'
  BY DEF MemoryInv, ClientsInv, Sound

LEMMA EveryClientIsSound ==
  ASSUME MemoryInv, NEW c \in Clients
  PROVE  /\ Sound(client[c])
         /\ client[c] = [phase |-> client[c].phase, told |-> client[c].told,
                         region |-> client[c].region, held |-> client[c].held]
         /\ client[c].phase \in Phases /\ client[c].held \in 0 .. 1
         /\ client[c].told \in 0 .. MaxGeneration /\ client[c].region \in 0 .. MaxGeneration
  BY DEF MemoryInv, ClientsInv, Sound, ClientType

\* The host's steps move references between the broker, the mapping and none.
LEMMA HostKeeps ==
  ASSUME MemoryInv, NEW g \in Generations, HostStep(g)
  PROVE  HostInv'
<1> USE DEF MemoryInv, HostInv, Holders, HostMaps, IsMach
<1>1. CASE CreateSurface(g)
  BY <1>1 DEF CreateSurface, Due
<1>2. CASE CreateServed(g)
  BY <1>2 DEF CreateServed, Due, Retained
<1>3. CASE CreateTransferable(g)
  BY <1>3 DEF CreateTransferable, Due
<1>4. CASE CreateFails(g)
  BY <1>4 DEF CreateFails, Due
<1>5. CASE Initialize(g)
  BY <1>5 DEF Initialize
<1>6. CASE DropService(g)
  BY <1>6 DEF DropService
<1>7. CASE Serve(g)
  BY <1>7 DEF Serve
<1>8. CASE WorkerEnds(g)
  BY <1>8 DEF WorkerEnds
<1>9. CASE DropMapping(g)
  BY <1>9 DEF DropMapping
<1>10. QED
  BY <1>1, <1>2, <1>3, <1>4, <1>5, <1>6, <1>7, <1>8, <1>9 DEF HostStep

\* The host answers clients that ask, and changes nothing else of them.
LEMMA HostAnswers ==
  ASSUME MemoryInv, NEW g \in Generations, HostStep(g)
  PROVE  ClientsInv'
<1> USE DEF MemoryInv, ClientsInv, ClientType, Phases
<1>1. CASE DropService(g)
  <2>1. client' = Refused(requests[g])
    BY <1>1 DEF DropService
  <2>2. \A c \in Clients :
          \/ client'[c] = client[c]
          \/ client'[c] = [client[c] EXCEPT !.phase = "answered"]
    BY <2>1 DEF Refused
  <2>3. client' \in [Clients -> ClientType]
    BY <2>1 DEF Refused
  <2>4. QED
    BY <2>2, <2>3
<1>2. CASE Serve(g)
  <2> DEFINE c == Head(requests[g])
             record == [client[c] EXCEPT !.phase = "answered",
                                         !.held = IF rights[g] > 0 THEN 1 ELSE 0]
  <2>1. CASE c \in Clients /\ client[c].phase = "asked"
    <3>1. (IF rights[g] > 0 THEN 1 ELSE 0) \in 0 .. 1 /\ "answered" \in Phases \ {"open"}
      BY DEF Phases
    <3>2. Sound(record)
      BY <2>1, <3>1, NotOpen
    <3>3. client' = [client EXCEPT ![c] = record]
      BY <1>2, <2>1 DEF Serve
    <3>4. QED
      BY <2>1, <3>2, <3>3, OneClient
  <2>2. CASE ~(c \in Clients /\ client[c].phase = "asked")
    BY <1>2, <2>2 DEF Serve
  <2>3. QED
    BY <2>1, <2>2
<1>3. CASE client' = client
  BY <1>3
<1>4. QED
  BY <1>1, <1>2, <1>3
  DEF HostStep, CreateSurface, CreateServed, CreateTransferable, CreateFails, Initialize,
      WorkerEnds, DropMapping

\* A client's right is there from its answer to its attempt to map it.
LEMMA ClientsKeep ==
  ASSUME MemoryInv, NEW c \in Clients, ClientStep(c)
  PROVE  ClientsInv'
<1> USE DEF Sound, ClientType, Phases
<1>1. ASSUME NEW g \in Generations, Ask(c, g) PROVE ClientsInv'
  <2>1. g \in 0 .. MaxGeneration
    BY <1>1 DEF Generations
  <2>2. PICK record :
          /\ record \in {[client[c] EXCEPT !.phase = "asked", !.told = g, !.region = g],
                        [client[c] EXCEPT !.phase = "failed"]}
          /\ client' = [client EXCEPT ![c] = record]
    BY <1>1 DEF Ask
  <2>3. client[c].held # 1
    BY <1>1, EveryClientIsSound DEF Ask
  <2>4. Sound(record)
    BY <2>1, <2>2, <2>3, EveryClientIsSound
  <2>5. QED
    BY <2>2, <2>4, OneClient
<1>2. ASSUME NEW g \in Generations, Lookup(c, g) PROVE ClientsInv'
  <2>1. client[c].held # 1
    BY <1>2, EveryClientIsSound DEF Lookup
  <2>2. CASE client' = [client EXCEPT ![c].phase = "failed"]
    <3>1. Sound([client[c] EXCEPT !.phase = "failed"])
      BY <2>1, EveryClientIsSound
    <3>2. QED
      BY <2>2, <3>1, OneClient
  <2>3. ASSUME NEW found \in Generations,
               client' = [client EXCEPT ![c] = [@ EXCEPT !.phase = "mapped", !.told = g,
                                                          !.region = found]]
        PROVE  ClientsInv'
    <3>1. g \in 0 .. MaxGeneration /\ found \in 0 .. MaxGeneration
      BY <2>3 DEF Generations
    <3>2. Sound([client[c] EXCEPT !.phase = "mapped", !.told = g, !.region = found])
      BY <2>1, <3>1, EveryClientIsSound
    <3>3. QED
      BY <2>3, <3>2, OneClient
  <2>4. QED
    BY <1>2, <2>2, <2>3 DEF Lookup, Found
<1>3. ASSUME NEW g \in Generations, Transfer(c, g) PROVE ClientsInv'
  <2>1. PICK moved \in 0 .. 1 :
          client' = [client EXCEPT ![c] = [@ EXCEPT !.phase = "answered", !.told = g,
                                                    !.region = g, !.held = moved]]
    BY <1>3 DEF Transfer
  <2>2. g \in 0 .. MaxGeneration
    BY DEF Generations
  <2>3. Sound([client[c] EXCEPT !.phase = "answered", !.told = g, !.region = g, !.held = moved])
    BY <2>2, EveryClientIsSound
  <2>4. QED
    BY <2>1, <2>3, OneClient
<1>4. CASE MapEntry(c)
  <2>1. PICK ok \in BOOLEAN :
          client' = [client EXCEPT ![c] = [@ EXCEPT !.phase = IF ok THEN "mapped" ELSE "failed",
                                                    !.held = 0]]
    BY <1>4 DEF MapEntry, HeldAfterMap
  <2>2. Sound([client[c] EXCEPT !.phase = IF ok THEN "mapped" ELSE "failed", !.held = 0])
    <3>1. "mapped" \in Phases \ {"open"} /\ "failed" \in Phases \ {"open"}
      BY DEF Phases
    <3> HIDE DEF Sound, ClientType, Phases
    <3>2. ASSUME NEW phase \in Phases \ {"open"}
          PROVE  Sound([client[c] EXCEPT !.phase = phase, !.held = 0])
      BY WithoutRight
    <3>3. QED
      BY <3>1, <3>2, Zenon
  <2>3. QED
    BY <2>1, <2>2, OneClient
<1>5. CASE Validate(c)
  <2> DEFINE phase == IF Validated(client[c].region, client[c].told) THEN "open" ELSE "failed"
  <2>1. client[c].held # 1
    BY <1>5, EveryClientIsSound DEF Validate
  <2>2. Sound([client[c] EXCEPT !.phase = phase])
    BY <2>1, EveryClientIsSound DEF Validated
  <2>3. QED
    BY <1>5, <2>2, OneClient DEF Validate
<1>6. CASE Release(c)
  <2>1. Sound([client[c] EXCEPT !.phase = "gone", !.held = 0])
    <3>1. "gone" \in Phases \ {"open"}
      BY DEF Phases
    <3> HIDE DEF Sound, ClientType, Phases
    <3>2. ASSUME NEW phase \in Phases \ {"open"}
          PROVE  Sound([client[c] EXCEPT !.phase = phase, !.held = 0])
      BY WithoutRight
    <3>3. QED
      BY <3>1, <3>2, Zenon
  <2>2. QED
    BY <1>6, <2>1, OneClient DEF Release
<1>7. QED
  BY <1>1, <1>2, <1>3, <1>4, <1>5, <1>6 DEF ClientStep

LEMMA ClientsTakeNothing ==
  ASSUME MemoryInv, NEW c \in Clients, ClientStep(c)
  PROVE  HostInv'
<1>1. UNCHANGED <<provider, owner, worker, rights, published>>
  BY DEF ClientStep, Ask, Lookup, Transfer, MapEntry, Validate, Release
<1>2. QED
  BY <1>1 DEF MemoryInv, HostInv, Holders, HostMaps, IsMach

LEMMA MemoryStep == MemoryInv /\ [Next]_vars => MemoryInv'
<1> SUFFICES ASSUME MemoryInv, [Next]_vars PROVE MemoryInv'
  OBVIOUS
<1>1. CASE UNCHANGED vars
  BY <1>1 DEF vars, MemoryInv, ClientsInv, HostInv, Holders, HostMaps, IsMach
<1>2. CASE Next
  BY <1>2, HostKeeps, HostAnswers, ClientsKeep, ClientsTakeNothing DEF Next, MemoryInv
<1>3. QED
  BY <1>1, <1>2

LEMMA MemoryInvariant == Spec => []MemoryInv
  BY MemoryStart, MemoryStep, PTL DEF Spec

\* Whatever drops, joins, failed mappings and refused requests interleave, the
\* host has a reference for its broker and one for its mapping and no other, and
\* a client none once its attach has returned.
THEOREM MemoryRightsBalance == Spec => []RightsBalance
<1>1. MemoryInv => RightsBalance
  BY DEF MemoryInv, ClientsInv, HostInv, Holders, RightsBalance
<1>2. QED
  BY <1>1, MemoryInvariant, PTL

\* An endpoint that opens maps the region of its own generation, however surface
\* numbers are given again (validate_mapping).
THEOREM MemoryOpensItsRegion == Spec => []OpenMapsItsRegion
<1>1. MemoryInv => OpenMapsItsRegion
  BY DEF MemoryInv, ClientsInv, OpenMapsItsRegion
<1>2. QED
  BY <1>1, MemoryInvariant, PTL

-----------------------------------------------------------------------------
\* The chunk pool.

Distinct(s) == \A i, j \in DOMAIN s : s[i] = s[j] => i = j

\* Slab x waits in none of the places of sequence s.
Outside(s, x) == \A i \in DOMAIN s : s[i] # x

\* A slab is in one place at a time.
OnePlace ==
  /\ Distinct(free) /\ Distinct(ready)
  /\ \A i \in DOMAIN ready : Outside(free, ready[i])
  /\ Outside(free, loan) /\ Outside(free, receipt)
  /\ Outside(ready, loan) /\ Outside(ready, receipt)
  /\ loan = receipt => loan = None

\* The buffer of a slab is in its slot unless an application has it.
SlotsFilled == present = Slab \ {loan, receipt}

\* Every slab is somewhere, and the counters count those taken.
PlacesAddUp ==
  /\ loaned = (IF loan = None THEN 0 ELSE 1)
  /\ received = (IF receipt = None THEN 0 ELSE 1)
  /\ Len(free) + Len(ready) + loaned + received = SlabCount

PoolInv ==
  /\ PoolTypeOK
  /\ ~failed
  /\ OnePlace
  /\ SlotsFilled
  /\ PlacesAddUp

LEMMA Slabs ==
  /\ SlabCount \in Nat /\ SlabCount > 0
  /\ None \notin Slab
BY SlabAssumption DEF Slab, None

\* What a sequence of slabs is after one was taken from its front.
LEMMA TakenFront ==
  ASSUME NEW s \in Seq(Slab), s # <<>>
  PROVE  /\ Head(s) \in Slab /\ Tail(s) \in Seq(Slab) /\ Len(Tail(s)) = Len(s) - 1
         /\ 1 \in DOMAIN s /\ s[1] = Head(s)
         /\ \A i \in DOMAIN Tail(s) : i + 1 \in DOMAIN s /\ Tail(s)[i] = s[i + 1]
         /\ Distinct(s) => Distinct(Tail(s)) /\ Outside(Tail(s), Head(s))
         /\ \A x : Outside(s, x) => Outside(Tail(s), x) /\ Head(s) # x
<1>1. /\ Head(s) \in Slab /\ Tail(s) \in Seq(Slab) /\ Len(Tail(s)) = Len(s) - 1
      /\ 1 \in DOMAIN s /\ s[1] = Head(s)
      /\ \A i \in DOMAIN Tail(s) : i \in Nat /\ i + 1 \in DOMAIN s /\ i + 1 # 1
                                   /\ Tail(s)[i] = s[i + 1]
  OBVIOUS
<1>2. Distinct(s) => Distinct(Tail(s)) /\ Outside(Tail(s), Head(s))
  BY <1>1 DEF Distinct, Outside
<1>3. \A x : Outside(s, x) => Outside(Tail(s), x) /\ Head(s) # x
  BY <1>1 DEF Outside
<1> QED BY <1>1, <1>2, <1>3

\* ... and after one was put at its end.
LEMMA PutBack ==
  ASSUME NEW s \in Seq(Slab), NEW slab \in Slab
  PROVE  /\ Append(s, slab) \in Seq(Slab) /\ Len(Append(s, slab)) = Len(s) + 1
         /\ \A i \in DOMAIN Append(s, slab) :
              \/ i \in DOMAIN s /\ Append(s, slab)[i] = s[i]
              \/ i = Len(s) + 1 /\ i \notin DOMAIN s /\ Append(s, slab)[i] = slab
         /\ Distinct(s) /\ Outside(s, slab) => Distinct(Append(s, slab))
         /\ \A x : Outside(s, x) /\ x # slab => Outside(Append(s, slab), x)
<1>1. /\ Append(s, slab) \in Seq(Slab) /\ Len(Append(s, slab)) = Len(s) + 1
      /\ \A i \in DOMAIN Append(s, slab) :
           \/ i \in DOMAIN s /\ Append(s, slab)[i] = s[i]
           \/ i = Len(s) + 1 /\ i \notin DOMAIN s /\ Append(s, slab)[i] = slab
  OBVIOUS
<1>2. Distinct(s) /\ Outside(s, slab) => Distinct(Append(s, slab))
  BY <1>1 DEF Distinct, Outside
<1>3. \A x : Outside(s, x) /\ x # slab => Outside(Append(s, slab), x)
  BY <1>1 DEF Outside
<1> QED BY <1>1, <1>2, <1>3

LEMMA PoolInitially == PoolInit => PoolInv
<1> SUFFICES ASSUME PoolInit PROVE PoolInv
  OBVIOUS
<1> USE Slabs
<1>1. /\ free \in Seq(Slab) /\ Len(free) = SlabCount /\ DOMAIN free = 1 .. SlabCount
      /\ \A i \in DOMAIN free : free[i] = i - 1
  BY DEF PoolInit, Slab
<1>2. PoolTypeOK
  <2>1. ready \in Seq(Slab) /\ present \subseteq Slab /\ content \in [Slab -> Payloads]
    BY DEF PoolInit
  <2>2. /\ loaned \in 0 .. 1 /\ received \in 0 .. 1 /\ failed \in BOOLEAN
        /\ loan = None /\ receipt = None
    <3>1. loaned = 0 /\ received = 0 /\ failed = FALSE /\ loan = None /\ receipt = None
      BY DEF PoolInit
    <3>2. loaned \in 0 .. 1 /\ received \in 0 .. 1
      BY <3>1
    <3>3. failed \in BOOLEAN
      BY <3>1
    <3> QED BY <3>1, <3>2, <3>3
  <2> QED BY <1>1, <2>1, <2>2 DEF PoolTypeOK
<1>3. OnePlace
  BY <1>1 DEF PoolInit, OnePlace, Distinct, Outside, Slab, None
<1>4. SlotsFilled
  BY DEF PoolInit, SlotsFilled
<1>5. PlacesAddUp
  BY <1>1 DEF PoolInit, PlacesAddUp
<1> QED BY <1>2, <1>3, <1>4, <1>5 DEF PoolInv, PoolInit

-----------------------------------------------------------------------------
(* One lemma per operation.                                                *)

LEMMA LoanStep == ASSUME PoolInv, Loan PROVE PoolInv'
<1> USE Slabs
<1>1. /\ PoolTypeOK /\ OnePlace /\ SlotsFilled /\ PlacesAddUp
      /\ free \in Seq(Slab) /\ ready \in Seq(Slab) /\ free # <<>> /\ loan = None
  BY DEF PoolInv, PoolTypeOK, Loan
<1>2. /\ Head(free) \in Slab /\ Head(free) # receipt /\ 1 \in DOMAIN free
      /\ free[1] = Head(free)
  BY <1>1, TakenFront DEF OnePlace
<1>3. Head(free) \in present
  BY <1>1, <1>2 DEF SlotsFilled, None
<1>4. /\ free' = Tail(free) /\ loan' = Head(free) /\ present' = present \ {Head(free)}
      /\ failed' = FALSE /\ loaned' = loaned + 1
      /\ UNCHANGED <<ready, received, receipt, content>>
  BY <1>3 DEF Loan
<1>5. OnePlace'
  <2>1. /\ Distinct(Tail(free)) /\ Outside(Tail(free), Head(free))
        /\ Outside(Tail(free), receipt)
    BY <1>1, TakenFront DEF OnePlace
  <2>2. \A i \in DOMAIN ready : Outside(Tail(free), ready[i]) /\ Head(free) # ready[i]
    BY <1>1, TakenFront DEF OnePlace
  <2> QED BY <1>1, <1>2, <1>4, <2>1, <2>2 DEF OnePlace, Outside
<1>6. SlotsFilled'
  BY <1>1, <1>2, <1>4 DEF SlotsFilled
<1>7. PlacesAddUp' /\ loaned' = 1
  <2>1. Len(Tail(free)) = Len(free) - 1 /\ Len(free) \in Nat /\ Len(ready) \in Nat
    BY <1>1, TakenFront
  <2> QED BY <1>1, <1>2, <1>4, <2>1 DEF PlacesAddUp, PoolTypeOK
<1>8. PoolTypeOK'
  <2>1. Tail(free) \in Seq(Slab) /\ present' \subseteq Slab /\ loaned' \in 0 .. 1
    BY <1>1, <1>4, <1>7, TakenFront DEF PoolTypeOK
  <2> QED BY <1>1, <1>2, <1>4, <2>1 DEF PoolTypeOK
<1> QED BY <1>4, <1>5, <1>6, <1>7, <1>8 DEF PoolInv

LEMMA FillStep == ASSUME PoolInv, Fill PROVE PoolInv'
<1>1. /\ \E payload \in Payloads : content' = [content EXCEPT ![loan] = payload]
      /\ UNCHANGED <<free, ready, present, loaned, received, loan, receipt, failed>>
  BY DEF Fill
<1>2. PoolTypeOK'
  BY <1>1 DEF PoolInv, PoolTypeOK
<1> QED BY <1>1, <1>2 DEF PoolInv, OnePlace, SlotsFilled, PlacesAddUp

LEMMA CommitStep == ASSUME PoolInv, Commit PROVE PoolInv'
<1> USE Slabs
<1>1. /\ PoolTypeOK /\ OnePlace /\ SlotsFilled /\ PlacesAddUp
      /\ free \in Seq(Slab) /\ ready \in Seq(Slab) /\ loan \in Slab /\ loan # None
  BY DEF PoolInv, PoolTypeOK, Commit
<1>2. /\ ready' = Append(ready, loan) /\ loan' = None /\ loaned' = loaned - 1
      /\ present' = present \cup {loan}
      /\ UNCHANGED <<free, received, receipt, content, failed>>
  BY DEF Commit, ReadyAfterCommit, LoanedAfterCommit
<1>3. OnePlace'
  <2>1. Distinct(Append(ready, loan)) /\ Outside(Append(ready, loan), receipt)
    BY <1>1, PutBack DEF OnePlace
  <2>2. Outside(Append(ready, loan), None) /\ Outside(free, None)
    BY <1>1, PutBack, ElementOfSeq DEF Outside
  <2>3. \A i \in DOMAIN Append(ready, loan) : Outside(free, Append(ready, loan)[i])
    BY <1>1, PutBack DEF OnePlace
  <2> QED BY <1>1, <1>2, <2>1, <2>2, <2>3 DEF OnePlace
<1>4. SlotsFilled'
  BY <1>1, <1>2 DEF SlotsFilled, OnePlace
<1>5. PlacesAddUp' /\ loaned' = 0
  <2>1. Len(Append(ready, loan)) = Len(ready) + 1 /\ Len(free) \in Nat /\ Len(ready) \in Nat
    BY <1>1, PutBack
  <2>2. /\ loaned = 1 /\ received \in 0 .. 1
        /\ Len(free) + Len(ready) + loaned + received = SlabCount
    BY <1>1 DEF PlacesAddUp, PoolTypeOK
  <2>3. loaned' = 0 /\ Len(free') + Len(ready') + loaned' + received' = SlabCount
    BY <1>2, <2>1, <2>2
  <2> QED BY <1>1, <1>2, <2>3 DEF PlacesAddUp
<1>6. PoolTypeOK'
  BY <1>1, <1>2, <1>5, PutBack DEF PoolTypeOK
<1> QED BY <1>2, <1>3, <1>4, <1>5, <1>6 DEF PoolInv

LEMMA DropLoanStep == ASSUME PoolInv, DropLoan PROVE PoolInv'
<1> USE Slabs
<1>1. /\ PoolTypeOK /\ OnePlace /\ SlotsFilled /\ PlacesAddUp
      /\ free \in Seq(Slab) /\ ready \in Seq(Slab) /\ loan \in Slab /\ loan # None
  BY DEF PoolInv, PoolTypeOK, DropLoan
<1>2. /\ free' = Append(free, loan) /\ loan' = None /\ loaned' = loaned - 1
      /\ present' = present \cup {loan}
      /\ UNCHANGED <<ready, received, receipt, content, failed>>
  BY DEF DropLoan, FreeAfterDrop
<1>3. OnePlace'
  <2>1. Distinct(Append(free, loan)) /\ Outside(Append(free, loan), receipt)
    BY <1>1, PutBack DEF OnePlace
  <2>2. Outside(Append(free, loan), None) /\ Outside(ready, None)
    BY <1>1, PutBack, ElementOfSeq DEF Outside
  <2>3. \A i \in DOMAIN ready : Outside(Append(free, loan), ready[i])
    BY <1>1, PutBack DEF OnePlace, Outside
  <2> QED BY <1>1, <1>2, <2>1, <2>2, <2>3 DEF OnePlace
<1>4. SlotsFilled'
  BY <1>1, <1>2 DEF SlotsFilled, OnePlace
<1>5. PlacesAddUp' /\ loaned' = 0
  <2>1. Len(Append(free, loan)) = Len(free) + 1 /\ Len(free) \in Nat /\ Len(ready) \in Nat
    BY <1>1, PutBack
  <2>2. /\ loaned = 1 /\ received \in 0 .. 1
        /\ Len(free) + Len(ready) + loaned + received = SlabCount
    BY <1>1 DEF PlacesAddUp, PoolTypeOK
  <2>3. loaned' = 0 /\ Len(free') + Len(ready') + loaned' + received' = SlabCount
    BY <1>2, <2>1, <2>2
  <2> QED BY <1>1, <1>2, <2>3 DEF PlacesAddUp
<1>6. PoolTypeOK'
  BY <1>1, <1>2, <1>5, PutBack DEF PoolTypeOK
<1> QED BY <1>2, <1>3, <1>4, <1>5, <1>6 DEF PoolInv

LEMMA ReceiveStep == ASSUME PoolInv, Receive PROVE PoolInv'
<1> USE Slabs
<1>1. /\ PoolTypeOK /\ OnePlace /\ SlotsFilled /\ PlacesAddUp
      /\ free \in Seq(Slab) /\ ready \in Seq(Slab) /\ ready # <<>> /\ receipt = None
  BY DEF PoolInv, PoolTypeOK, Receive
<1>2. /\ Head(ready) \in Slab /\ Head(ready) # loan /\ 1 \in DOMAIN ready
      /\ ready[1] = Head(ready)
  BY <1>1, TakenFront DEF OnePlace
<1>3. Head(ready) \in present
  BY <1>1, <1>2 DEF SlotsFilled, None
<1>4. /\ ready' = Tail(ready) /\ receipt' = Head(ready)
      /\ present' = present \ {Head(ready)}
      /\ failed' = FALSE /\ received' = received + 1
      /\ UNCHANGED <<free, loaned, loan, content>>
  BY <1>3 DEF Receive, FreeAfterReceive
<1>5. OnePlace'
  <2>1. /\ Distinct(Tail(ready)) /\ Outside(Tail(ready), Head(ready))
        /\ Outside(Tail(ready), loan)
    BY <1>1, TakenFront DEF OnePlace
  <2>2. /\ Outside(free, Head(ready))
        /\ \A i \in DOMAIN Tail(ready) : Outside(free, Tail(ready)[i])
    BY <1>1, <1>2, TakenFront DEF OnePlace
  <2> QED BY <1>1, <1>2, <1>4, <2>1, <2>2 DEF OnePlace
<1>6. SlotsFilled'
  BY <1>1, <1>2, <1>4 DEF SlotsFilled
<1>7. PlacesAddUp' /\ received' = 1
  <2>1. Len(Tail(ready)) = Len(ready) - 1 /\ Len(free) \in Nat /\ Len(ready) \in Nat
    BY <1>1, TakenFront
  <2> QED BY <1>1, <1>2, <1>4, <2>1 DEF PlacesAddUp, PoolTypeOK
<1>8. PoolTypeOK'
  <2>1. Tail(ready) \in Seq(Slab) /\ present' \subseteq Slab /\ received' \in 0 .. 1
    BY <1>1, <1>4, <1>7, TakenFront DEF PoolTypeOK
  <2> QED BY <1>1, <1>2, <1>4, <2>1 DEF PoolTypeOK
<1> QED BY <1>4, <1>5, <1>6, <1>7, <1>8 DEF PoolInv

LEMMA ReleaseStep == ASSUME PoolInv, ReleaseChunk PROVE PoolInv'
<1> USE Slabs
<1>1. /\ PoolTypeOK /\ OnePlace /\ SlotsFilled /\ PlacesAddUp
      /\ free \in Seq(Slab) /\ ready \in Seq(Slab) /\ receipt \in Slab /\ receipt # None
  BY DEF PoolInv, PoolTypeOK, ReleaseChunk
<1>2. /\ free' = Append(free, receipt) /\ receipt' = None /\ received' = received - 1
      /\ present' = present \cup {receipt}
      /\ UNCHANGED <<ready, loaned, loan, content, failed>>
  BY DEF ReleaseChunk
<1>3. OnePlace'
  <2>1. Distinct(Append(free, receipt)) /\ Outside(Append(free, receipt), loan)
    BY <1>1, PutBack DEF OnePlace
  <2>2. Outside(Append(free, receipt), None) /\ Outside(ready, None)
    BY <1>1, PutBack, ElementOfSeq DEF Outside
  <2>3. \A i \in DOMAIN ready : Outside(Append(free, receipt), ready[i])
    BY <1>1, PutBack DEF OnePlace, Outside
  <2> QED BY <1>1, <1>2, <2>1, <2>2, <2>3 DEF OnePlace
<1>4. SlotsFilled'
  BY <1>1, <1>2 DEF SlotsFilled, OnePlace
<1>5. PlacesAddUp' /\ received' = 0
  <2>1. Len(Append(free, receipt)) = Len(free) + 1 /\ Len(free) \in Nat /\ Len(ready) \in Nat
    BY <1>1, PutBack
  <2>2. /\ received = 1 /\ loaned \in 0 .. 1
        /\ Len(free) + Len(ready) + loaned + received = SlabCount
    BY <1>1 DEF PlacesAddUp, PoolTypeOK
  <2>3. received' = 0 /\ Len(free') + Len(ready') + loaned' + received' = SlabCount
    BY <1>2, <2>1, <2>2
  <2> QED BY <1>1, <1>2, <2>3 DEF PlacesAddUp
<1>6. PoolTypeOK'
  BY <1>1, <1>2, <1>5, PutBack DEF PoolTypeOK
<1> QED BY <1>2, <1>3, <1>4, <1>5, <1>6 DEF PoolInv

LEMMA PoolStep == PoolInv /\ [PoolNext]_poolVars => PoolInv'
<1> SUFFICES ASSUME PoolInv, [PoolNext]_poolVars PROVE PoolInv'
  OBVIOUS
<1>1. CASE UNCHANGED poolVars
  BY <1>1 DEF poolVars, PoolInv, PoolTypeOK, OnePlace, SlotsFilled, PlacesAddUp
<1>2. CASE PoolNext
  BY <1>2, LoanStep, FillStep, CommitStep, DropLoanStep, ReceiveStep, ReleaseStep DEF PoolNext
<1> QED BY <1>1, <1>2

\* A slab is in one place at a time, every slab is somewhere, and no operation of
\* the pool finds a slot without its buffer.
THEOREM PoolInvariance == PoolSpec => []PoolInv
BY PoolInitially, PoolStep, PTL DEF PoolSpec

(***************************************************************************)
(* The refinement.  Queue shows the payload of every ready slab, and that  *)
(* of the slab the consumer has.                                           *)
(***************************************************************************)

\* The payloads that a sequence of slabs holds.
Payload(s, c) == [i \in DOMAIN s |-> c[s[i]]]

Lent(r, c) == IF r = None THEN <<>> ELSE <<c[r]>>

LEMMA PayloadType ==
  ASSUME NEW s \in Seq(Slab), NEW c \in [Slab -> Payloads]
  PROVE  /\ Payload(s, c) \in Seq(Payloads) /\ Len(Payload(s, c)) = Len(s)
         /\ DOMAIN Payload(s, c) = DOMAIN s
         /\ \A i \in DOMAIN s : Payload(s, c)[i] = c[s[i]] /\ c[s[i]] \in Payloads
<1>1. /\ DOMAIN s = 1 .. Len(s) /\ Len(s) \in Nat
      /\ \A i \in DOMAIN s : c[s[i]] \in Payloads
  BY LenProperties, ElementOfSeq
<1>2. /\ DOMAIN Payload(s, c) = DOMAIN s
      /\ \A i \in DOMAIN s : Payload(s, c)[i] = c[s[i]]
  BY DEF Payload
<1>3. Payload(s, c) \in [1 .. Len(s) -> Payloads]
  BY <1>1 DEF Payload
<1>4. Payload(s, c) \in Seq(Payloads) /\ Len(Payload(s, c)) = Len(s)
  BY <1>1, <1>3
<1> QED BY <1>1, <1>2, <1>4

\* A write into a slab that is not among them leaves the payloads alone.
LEMMA PayloadUntouched ==
  ASSUME NEW s \in Seq(Slab), NEW c \in [Slab -> Payloads],
         NEW slab, NEW payload, Outside(s, slab)
  PROVE  Payload(s, [c EXCEPT ![slab] = payload]) = Payload(s, c)
<1>1. \A i \in DOMAIN s : [c EXCEPT ![slab] = payload][s[i]] = c[s[i]]
  BY ElementOfSeq, LenProperties DEF Outside
<1> QED BY <1>1 DEF Payload

LEMMA PayloadAppended ==
  ASSUME NEW s \in Seq(Slab), NEW c \in [Slab -> Payloads], NEW slab \in Slab
  PROVE  Payload(Append(s, slab), c) = Append(Payload(s, c), c[slab])
<1>1. /\ Append(s, slab) \in Seq(Slab) /\ Len(Append(s, slab)) = Len(s) + 1
      /\ c[slab] \in Payloads
  BY AppendProperties
<1>2. /\ Payload(Append(s, slab), c) \in Seq(Payloads)
      /\ Len(Payload(Append(s, slab), c)) = Len(s) + 1
  BY <1>1, PayloadType
<1>3. /\ Append(Payload(s, c), c[slab]) \in Seq(Payloads)
      /\ Len(Append(Payload(s, c), c[slab])) = Len(s) + 1
  BY <1>1, PayloadType, AppendProperties
<1>4. ASSUME NEW i \in 1 .. Len(s) + 1
      PROVE  Payload(Append(s, slab), c)[i] = Append(Payload(s, c), c[slab])[i]
  <2>1. Len(s) \in Nat /\ DOMAIN s = 1 .. Len(s) /\ DOMAIN Append(s, slab) = 1 .. Len(s) + 1
    BY <1>1, LenProperties
  <2>2. Payload(Append(s, slab), c)[i] = c[Append(s, slab)[i]]
    BY <1>1, <2>1, PayloadType
  <2>3. CASE i = Len(s) + 1
    BY <1>1, <2>2, <2>3, PayloadType, AppendProperties
  <2>4. CASE i # Len(s) + 1
    <3>1. i \in 1 .. Len(s)
      BY <2>1, <2>4
    <3>2. Append(s, slab)[i] = s[i]
      BY <3>1, AppendProperties
    <3>3. Append(Payload(s, c), c[slab])[i] = Payload(s, c)[i]
      BY <1>1, <3>1, PayloadType, AppendProperties
    <3>4. Payload(s, c)[i] = c[s[i]]
      BY <2>1, <3>1, PayloadType
    <3> QED BY <2>2, <3>2, <3>3, <3>4
  <2> QED BY <2>3, <2>4
<1> QED BY <1>2, <1>3, <1>4, SeqEqual

LEMMA PayloadTaken ==
  ASSUME NEW s \in Seq(Slab), NEW c \in [Slab -> Payloads], s # <<>>
  PROVE  /\ Payload(s, c) # <<>> /\ Head(Payload(s, c)) = c[Head(s)]
         /\ Payload(Tail(s), c) = Tail(Payload(s, c))
<1>1. /\ Payload(s, c) \in Seq(Payloads) /\ Len(Payload(s, c)) = Len(s)
      /\ Tail(s) \in Seq(Slab) /\ Len(Tail(s)) = Len(s) - 1
      /\ Len(s) \in Nat /\ Len(s) > 0 /\ DOMAIN s = 1 .. Len(s)
      /\ DOMAIN Tail(s) = 1 .. Len(s) - 1
  BY PayloadType, HeadTailProperties, LenProperties, EmptySeq
<1>2. Payload(s, c) # <<>>
  BY <1>1, EmptySeq
<1>3. Head(Payload(s, c)) = c[Head(s)]
  BY <1>1, <1>2, PayloadType
<1>4. /\ Tail(Payload(s, c)) \in Seq(Payloads) /\ Len(Tail(Payload(s, c))) = Len(s) - 1
      /\ Payload(Tail(s), c) \in Seq(Payloads) /\ Len(Payload(Tail(s), c)) = Len(s) - 1
  BY <1>1, <1>2, PayloadType, HeadTailProperties
<1>5. ASSUME NEW i \in 1 .. Len(s) - 1
      PROVE  Payload(Tail(s), c)[i] = Tail(Payload(s, c))[i]
  <2>1. i \in DOMAIN Tail(s) /\ i + 1 \in DOMAIN s
    BY <1>1
  <2>2. Payload(Tail(s), c)[i] = c[Tail(s)[i]] /\ Tail(s)[i] = s[i + 1]
    BY <1>1, <2>1, PayloadType, HeadTailProperties
  <2>3. Tail(Payload(s, c))[i] = Payload(s, c)[i + 1]
    BY <1>1, <1>2, <1>4, HeadTailProperties
  <2>4. Payload(s, c)[i + 1] = c[s[i + 1]]
    BY <2>1, PayloadType
  <2> QED BY <2>2, <2>3, <2>4
<1> QED BY <1>2, <1>3, <1>4, <1>5, SeqEqual

-----------------------------------------------------------------------------
(* Step simulation.                                                        *)

LEMMA QueueView ==
  /\ [i \in DOMAIN ready |-> content[ready[i]]] = Payload(ready, content)
  /\ (IF receipt = None THEN <<>> ELSE <<content[receipt]>>) = Lent(receipt, content)
BY DEF Payload, Lent

LEMMA QueueInitially == PoolInit => Queue!Init
<1> SUFFICES ASSUME PoolInit PROVE Queue!Init
  OBVIOUS
<1>1. ready = <<>> /\ receipt = None
  BY DEF PoolInit
<1>2. [i \in DOMAIN ready |-> content[ready[i]]] = <<>>
  BY <1>1
<1> QED BY <1>1, <1>2 DEF Queue!Init

\* Committing appends the payload of the loan, and there is a slab for it.
LEMMA CommitRefines == ASSUME PoolInv, Commit PROVE Queue!Commit
<1> DEFINE q == Payload(ready, content)
           l == Lent(receipt, content)
<1>1. /\ PoolTypeOK /\ PlacesAddUp /\ ready \in Seq(Slab) /\ content \in [Slab -> Payloads]
      /\ loan \in Slab /\ loan # None /\ free \in Seq(Slab)
  BY Slabs DEF PoolInv, PoolTypeOK, Commit
<1>2. /\ ready' = Append(ready, loan)
      /\ UNCHANGED <<receipt, content, received>>
  BY DEF Commit, ReadyAfterCommit
<1>3. q' = Append(q, content[loan])
  BY <1>1, <1>2, PayloadAppended
<1>4. /\ q \in Seq(Payloads) /\ Len(q) = Len(ready) /\ content[loan] \in Payloads
      /\ Len(q) \in Nat
  BY <1>1, PayloadType, LenProperties
<1>5. /\ Len(q') = Len(q) + 1 /\ q'[Len(q')] = content[loan]
  BY <1>3, <1>4, AppendProperties
<1>6. Len(l) = received /\ l' = l
  BY <1>1, <1>2 DEF Lent, PlacesAddUp
<1>7. Len(q) + 1 + received <= SlabCount
  <2>1. loaned = 1 /\ Len(free) \in Nat /\ Len(ready) \in Nat /\ received \in Nat
    BY <1>1, LenProperties DEF PlacesAddUp, PoolTypeOK
  <2> QED BY <1>1, <1>4, <2>1, Slabs DEF PlacesAddUp
<1>8. /\ Len(q') = Len(q) + 1
      /\ q' = Append(q, q'[Len(q')])
      /\ Len(q') + Len(l') <= SlabCount
      /\ l' = l
  BY <1>3, <1>4, <1>5, <1>6, <1>7
<1> QED BY <1>8, QueueView DEF Queue!Commit, Payload, Lent

\* Receiving takes the oldest payload and lends it.
LEMMA ReceiveRefines == ASSUME PoolInv, Receive PROVE Queue!Take
<1> DEFINE q == Payload(ready, content)
           l == Lent(receipt, content)
<1>1. /\ PoolTypeOK /\ OnePlace /\ SlotsFilled /\ ready \in Seq(Slab) /\ ready # <<>>
      /\ content \in [Slab -> Payloads] /\ receipt = None
  BY DEF PoolInv, PoolTypeOK, Receive
<1>2. Head(ready) \in Slab /\ Head(ready) # loan
  BY <1>1, TakenFront DEF OnePlace
<1>3. Head(ready) \in present
  BY <1>1, <1>2, Slabs DEF SlotsFilled
<1>4. ready' = Tail(ready) /\ receipt' = Head(ready) /\ content' = content
  BY <1>3 DEF Receive
<1>5. /\ q # <<>> /\ Head(q) = content[Head(ready)] /\ q' = Tail(q)
  BY <1>1, <1>4, PayloadTaken
<1>6. l = <<>> /\ l' = <<content[Head(ready)]>>
  BY <1>1, <1>2, <1>4, Slabs DEF Lent
<1>7. l = <<>> /\ q # <<>> /\ l' = <<Head(q)>> /\ q' = Tail(q)
  BY <1>5, <1>6
<1> QED BY <1>7 DEF Queue!Take, Payload, Lent

LEMMA ReleaseRefines == ASSUME PoolInv, ReleaseChunk PROVE Queue!GiveBack
<1> DEFINE q == Payload(ready, content)
           l == Lent(receipt, content)
<1>1. /\ receipt # None /\ receipt' = None /\ UNCHANGED <<ready, content>>
  BY DEF ReleaseChunk
<1>2. l # <<>> /\ l' = <<>> /\ q' = q
  BY <1>1 DEF Lent
<1> QED BY <1>2 DEF Queue!GiveBack, Payload, Lent

\* The producer writes only into the slab of its own loan.
LEMMA FillRefines ==
  ASSUME PoolInv, Fill
  PROVE  /\ Payload(ready, content)' = Payload(ready, content)
         /\ Lent(receipt, content)' = Lent(receipt, content)
<1>1. /\ ready \in Seq(Slab) /\ content \in [Slab -> Payloads] /\ Outside(ready, loan)
      /\ receipt # None => receipt \in Slab /\ receipt # loan
  BY Slabs DEF PoolInv, PoolTypeOK, OnePlace, Fill
<1>2. PICK payload : content' = [content EXCEPT ![loan] = payload]
  BY DEF Fill
<1>3. UNCHANGED <<ready, receipt>>
  BY DEF Fill
<1>4. Payload(ready, content') = Payload(ready, content)
  BY <1>1, <1>2, PayloadUntouched
<1>5. receipt # None => content'[receipt] = content[receipt]
  BY <1>1, <1>2
<1> QED BY <1>3, <1>4, <1>5 DEF Lent

LEMMA QueueStep == PoolInv /\ [PoolNext]_poolVars => [Queue!Next]_(Queue!vars)
<1> SUFFICES ASSUME PoolInv, [PoolNext]_poolVars PROVE [Queue!Next]_(Queue!vars)
  OBVIOUS
<1>1. CASE UNCHANGED poolVars
  BY <1>1 DEF poolVars, Queue!vars
<1>2. CASE Loan \/ DropLoan
  BY <1>2 DEF Loan, DropLoan, Queue!vars
<1>3. CASE Fill
  BY <1>3, FillRefines DEF Queue!vars, Payload, Lent
<1>4. CASE Commit
  BY <1>4, CommitRefines DEF Queue!Next
<1>5. CASE Receive
  BY <1>5, ReceiveRefines DEF Queue!Next
<1>6. CASE ReleaseChunk
  BY <1>6, ReleaseRefines DEF Queue!Next
<1> QED BY <1>1, <1>2, <1>3, <1>4, <1>5, <1>6 DEF PoolNext

\* The pool is a first-in first-out queue of payloads: what was committed comes out
\* in that order and unchanged, although the producer goes on writing into slabs
\* outside of the mutex, and there are never more payloads than slabs.
THEOREM PoolImplementsQueue == PoolSpec => ImplementsQueue
<1>1. PoolInit => Queue!Init
  BY QueueInitially
<1>2. PoolInv /\ [PoolNext]_poolVars => [Queue!Next]_(Queue!vars)
  BY QueueStep
<1> QED BY <1>1, <1>2, PoolInvariance, PTL DEF PoolSpec, ImplementsQueue, Queue!Spec
=============================================================================
