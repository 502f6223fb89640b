---------------------------- MODULE SharedMemory ----------------------------
(***************************************************************************)
(* The memory of a session's generations, created by the host, attached by *)
(* client processes and dropped while they may still be at it, under three *)
(* providers: an IOSurface found by its global number                      *)
(* (nwipc-memory-iosurface), a Mach memory entry served by a broker thread *)
(* of the host, and a Mach memory entry handed over in a native transfer   *)
(* (nwipc-memory-mach).                                                    *)
(*                                                                         *)
(* One region per generation.  The host's send-right references to an      *)
(* entry are counted as the code raises and lowers them.  The kernel may   *)
(* give the number of a surface that is gone to a new one.                 *)
(***************************************************************************)
EXTENDS Integers, Sequences, SequencesExt, FiniteSets

CONSTANTS
    Clients,        \* processes that attach
    MaxGeneration,  \* bound: generations the host prepares
    Numbers         \* global surface numbers, few, so that they are reused

ASSUME MaxGenerationAssumption == MaxGeneration \in Nat \ {0}

VARIABLES
    provider,       \* which provider the processes use
    owner,          \* the host's mapping of each generation's region
    published,      \* generations whose header is written and descriptor out
    number,         \* the global number of each generation's surface
    control,        \* the broker's control port
    worker,         \* the broker thread
    requests,       \* requests queued on the control port
    rights,         \* host references to the memory entry
    client          \* each client: what it was told, what it does and holds

vars == <<provider, owner, published, number, control, worker, requests, rights, client>>

Generations == 1 .. MaxGeneration
Providers == {"IoSurface", "MachMemory", "MachTransfer"}
IsMach == provider # "IoSurface"
Phases == {"idle", "asked", "answered", "mapped", "open", "failed", "gone"}

\* "told" is the generation a client expects, "region" the one whose region
\* it is asking for or maps, "held" the entry rights in its task.
ClientType == [phase : Phases, told : 0 .. MaxGeneration, region : 0 .. MaxGeneration,
               held : 0 .. 1]

TypeOK ==
    /\ provider \in Providers
    /\ owner \in [Generations -> {"none", "made", "ready", "closing", "dropped"}]
    /\ published \subseteq Generations
    /\ number \in [Generations -> Numbers \cup {0}]
    /\ control \in [Generations -> {"none", "open", "dead"}]
    /\ worker \in [Generations -> {"none", "serving", "ended"}]
    /\ requests \in [Generations -> Seq(Clients)]
    /\ rights \in [Generations -> Int]
    /\ client \in [Clients -> ClientType]

Init ==
    /\ provider \in Providers
    /\ owner = [g \in Generations |-> "none"]
    /\ published = {}
    /\ number = [g \in Generations |-> 0]
    /\ control = [g \in Generations |-> "none"]
    /\ worker = [g \in Generations |-> "none"]
    /\ requests = [g \in Generations |-> <<>>]
    /\ rights = [g \in Generations |-> 0]
    /\ client = [c \in Clients |-> [phase |-> "idle", told |-> 0, region |-> 0, held |-> 0]]

-----------------------------------------------------------------------------
(* What is mapped, and whose.                                              *)

HostMaps(g) == owner[g] \in {"made", "ready", "closing"}
ClientMaps(c, g) == client[c].region = g /\ client[c].phase \in {"mapped", "open"}

\* A surface lives while it is mapped anywhere, and is found by its number.
Found(n) == {g \in Generations :
                number[g] = n /\ (HostMaps(g) \/ \E c \in Clients : ClientMaps(c, g))}

\* A plausible slip: the mapping and the broker share one reference.
RetainedShared == 1

\* References to an entry that is served: mach_make_memory_entry_64 gives one,
\* which the broker takes, and copy_send_right another for the mapping.
Retained == 2

-----------------------------------------------------------------------------
(* The host.                                                               *)

\* Generations are prepared in order.
Due(g) == owner[g] = "none" /\ \A h \in 1 .. g - 1 : owner[h] # "none"

\* A surface under a number that no living surface has.
CreateSurface(g) ==
    /\ provider = "IoSurface" /\ Due(g)
    /\ owner' = [owner EXCEPT ![g] = "made"]
    /\ \E n \in Numbers : Found(n) = {} /\ number' = [number EXCEPT ![g] = n]
    /\ UNCHANGED <<provider, published, control, worker, requests, rights, client>>

\* An entry with a broker, under a service name of its own.
CreateServed(g) ==
    /\ provider = "MachMemory" /\ Due(g)
    /\ owner' = [owner EXCEPT ![g] = "made"]
    /\ rights' = [rights EXCEPT ![g] = Retained]
    /\ control' = [control EXCEPT ![g] = "open"]
    /\ worker' = [worker EXCEPT ![g] = "serving"]
    /\ UNCHANGED <<provider, published, number, requests, client>>

\* create_transfer: an entry for the mapping alone.
CreateTransferable(g) ==
    /\ provider = "MachTransfer" /\ Due(g)
    /\ owner' = [owner EXCEPT ![g] = "made"]
    /\ rights' = [rights EXCEPT ![g] = 1]
    /\ UNCHANGED <<provider, published, number, control, worker, requests, client>>

\* It fails part way: what it had made is released again.
CreateFails(g) ==
    /\ Due(g)
    /\ owner' = [owner EXCEPT ![g] = "dropped"]
    /\ UNCHANGED <<provider, published, number, control, worker, requests, rights, client>>

\* initialize_region writes the header; then the descriptor goes out.
Initialize(g) ==
    /\ owner[g] = "made"
    /\ owner' = [owner EXCEPT ![g] = "ready"]
    /\ published' = published \cup {g}
    /\ UNCHANGED <<provider, number, control, worker, requests, rights, client>>

\* A plausible slip: nobody answers the requests that were waiting.
RefusedNobody(waiting) == client

\* A request that dies with its control port is answered by the kernel.
Refused(waiting) ==
    [c \in Clients |->
        IF Contains(waiting, c) /\ client[c].phase = "asked"
        THEN [client[c] EXCEPT !.phase = "answered"] ELSE client[c]]

\* Mapping::drop: first the service, whose control port is destroyed.
DropService(g) ==
    /\ owner[g] \in {"made", "ready"}
    /\ owner' = [owner EXCEPT ![g] = "closing"]
    /\ control' = [control EXCEPT ![g] = IF @ = "open" THEN "dead" ELSE @]
    /\ client' = Refused(requests[g])
    /\ requests' = [requests EXCEPT ![g] = <<>>]
    /\ UNCHANGED <<provider, published, number, worker, rights>>

\* serve: a copy of the entry for whoever asks.
Serve(g) ==
    /\ worker[g] = "serving" /\ requests[g] # <<>>
    /\ requests' = [requests EXCEPT ![g] = Tail(@)]
    /\ LET c == Head(requests[g])
       IN client' = IF client[c].phase = "asked"
                    THEN [client EXCEPT ![c] = [@ EXCEPT !.phase = "answered",
                                                         !.held = IF rights[g] > 0 THEN 1 ELSE 0]]
                    ELSE client
    /\ UNCHANGED <<provider, owner, published, number, control, worker, rights>>

\* Its port is gone: serve releases its reference.
WorkerEnds(g) ==
    /\ worker[g] = "serving" /\ control[g] = "dead"
    /\ worker' = [worker EXCEPT ![g] = "ended"]
    /\ rights' = [rights EXCEPT ![g] = @ - 1]
    /\ UNCHANGED <<provider, owner, published, number, control, requests, client>>

\* Mapping::drop goes on when the worker has been joined.
DropMapping(g) ==
    /\ owner[g] = "closing" /\ worker[g] # "serving"
    /\ owner' = [owner EXCEPT ![g] = "dropped"]
    /\ rights' = [rights EXCEPT ![g] = IF IsMach THEN @ - 1 ELSE @]
    /\ UNCHANGED <<provider, published, number, control, worker, requests, client>>

-----------------------------------------------------------------------------
(* The clients.                                                            *)

\* attach: the descriptor is of the generation the client was told of; a
\* surface is looked up, a broker asked and its answer awaited.
Ask(c, g) ==
    /\ client[c].phase = "idle" /\ g \in published
    /\ provider = "MachMemory"
    /\ IF control[g] = "open"
       THEN /\ requests' = [requests EXCEPT ![g] = Append(@, c)]
            /\ client' = [client EXCEPT ![c] = [@ EXCEPT !.phase = "asked", !.told = g,
                                                         !.region = g]]
       ELSE /\ client' = [client EXCEPT ![c].phase = "failed"]
            /\ UNCHANGED requests
    /\ UNCHANGED <<provider, owner, published, number, control, worker, rights>>

\* The surface that has the number now, if there is one and it is long enough.
Lookup(c, g) ==
    /\ client[c].phase = "idle" /\ g \in published
    /\ provider = "IoSurface" /\ number[g] # 0
    /\ \/ \E found \in Found(number[g]) :
            client' = [client EXCEPT ![c] = [@ EXCEPT !.phase = "mapped", !.told = g,
                                                      !.region = found]]
       \/ /\ Found(number[g]) = {}
          /\ client' = [client EXCEPT ![c].phase = "failed"]
    /\ UNCHANGED <<provider, owner, published, number, control, worker, requests, rights>>

\* duplicate_memory_entry_right, and the transfer that moves the duplicate to
\* the client or loses it.
Transfer(c, g) ==
    /\ client[c].phase = "idle" /\ owner[g] = "ready"
    /\ provider = "MachTransfer" /\ rights[g] > 0
    /\ \E moved \in 0 .. 1 :
          client' = [client EXCEPT ![c] = [@ EXCEPT !.phase = "answered", !.told = g,
                                                    !.region = g, !.held = moved]]
    /\ UNCHANGED <<provider, owner, published, number, control, worker, requests, rights>>

\* attach, attach_entry: the right goes whether or not mach_vm_map succeeds.
HeldAfterMap(held, ok) == 0

\* request_entry's answer carries a right that is mapped, or none.
MapEntry(c) ==
    /\ client[c].phase = "answered"
    /\ \E ok \in BOOLEAN :
          /\ ok => client[c].held = 1
          /\ client' = [client EXCEPT ![c] =
                            [@ EXCEPT !.phase = IF ok THEN "mapped" ELSE "failed",
                                      !.held = HeldAfterMap(client[c].held, ok)]]
    /\ UNCHANGED <<provider, owner, published, number, control, worker, requests, rights>>

\* A plausible slip: any region that decodes will do.
ValidatedAny(g, told) == g \in published

\* validate_mapping: the header is there and of the expected generation.
Validated(g, told) == g \in published /\ g = told

Validate(c) ==
    /\ client[c].phase = "mapped"
    /\ client' = [client EXCEPT ![c].phase =
                    IF Validated(client[c].region, client[c].told) THEN "open" ELSE "failed"]
    /\ UNCHANGED <<provider, owner, published, number, control, worker, requests, rights>>

\* The endpoint closes, or its process ends with all it holds.
Release(c) ==
    /\ client[c].phase \notin {"idle", "gone"}
    /\ client' = [client EXCEPT ![c] = [@ EXCEPT !.phase = "gone", !.held = 0]]
    /\ UNCHANGED <<provider, owner, published, number, control, worker, requests, rights>>

-----------------------------------------------------------------------------
HostStep(g) ==
    \/ CreateSurface(g) \/ CreateServed(g) \/ CreateTransferable(g) \/ CreateFails(g) \/ Initialize(g)
    \/ DropService(g) \/ Serve(g) \/ WorkerEnds(g) \/ DropMapping(g)

ClientStep(c) ==
    \/ \E g \in Generations : Ask(c, g) \/ Lookup(c, g) \/ Transfer(c, g)
    \/ MapEntry(c) \/ Validate(c) \/ Release(c)

Next == (\E g \in Generations : HostStep(g)) \/ (\E c \in Clients : ClientStep(c))

\* The broker serves until its port is gone and then ends; a drop joins it.
Fairness ==
    \A g \in Generations : WF_vars(Serve(g)) /\ WF_vars(WorkerEnds(g)) /\ WF_vars(DropMapping(g))

Spec == Init /\ [][Next]_vars /\ Fairness

-----------------------------------------------------------------------------
(* Properties.                                                             *)

\* Every reference to an entry has one holder that will release it, through
\* drops, joins, failed mappings and refused requests: the broker and the
\* host's mapping each have theirs, and a client has none once its attach has
\* returned (create, Service::drop, serve, attach_entry).
RightsBalance ==
    /\ IsMach => \A g \in Generations :
          rights[g] = (IF worker[g] = "serving" THEN 1 ELSE 0) + (IF HostMaps(g) THEN 1 ELSE 0)
    /\ \A c \in Clients : client[c].held = 1 => client[c].phase = "answered"

\* An endpoint that opens maps the region of its own generation, although the
\* number in its descriptor may meanwhile belong to another surface, and maybe
\* one that the host has not written yet (IOSurfaceLookup, validate_mapping).
OpenMapsItsRegion ==
    \A c \in Clients : client[c].phase = "open" => client[c].region = client[c].told

\* A client that asks a broker, without a timeout, gets an answer even when
\* the host drops the region at that moment (request_entry, Service::drop).
EntryRequestsEnd ==
    \A c \in Clients : (client[c].phase = "asked") ~> (client[c].phase # "asked")
=============================================================================
