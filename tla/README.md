# nwipc: a verification development

nwipc connects a WKWebView renderer and a native peer process through shared
memory on macOS. This directory holds TLA+ models of it, the TLC runs that check
them on small instances, and TLAPS proofs of what matters most for every value
of the constants. `PROJECT.json` lists the components, the runs, a mutant for
every property, the source lines behind every definition, the hazards and the
theorems.

## 1. The system

| Part (crates) | State | Operations | Talks to |
|---|---|---|---|
| Ring (`data-plane/nwipc-atomic`, `-ring-core`, `-ring-writer`, `-ring-reader`) | two shared wrapping cursors, a byte area, sequence and message counters | `prepare`/`commit`, `send`, `send_fragments`; `peek`/`consume`, `receive` | the other process, only through the shared area |
| Channel (`-channel-core`, `-flow-control`, `-fragment`) | two opposite rings, watermark flag, partial message, closed flags | `send`, `close`, `reset`, `receive`, `refresh_flow` | its rings |
| Transport (`-channel-transport`, `signal/*`) | hints in flight, poll intervals | `send`, `poll`, `wait_timeout`, `cancel` | channel, notification providers |
| Chunk pool (`-chunk-pool`) | slots, free and ready queues, counters behind a mutex | `loan`, `commit`, `receive`, `release`, drops | producer and consumer threads |
| Frame protection (`-crypto`) | send and receive counters, keys of a generation | `prepare`/`commit`, `open` | mapped port |
| Mapped port (`platform/macos/nwipc-macos-transport`) | pending inbound, closed flag | prepare, attach, `send`, `receive_frame`, `close` | transport, frame protection |
| Ports (`peer/*`, `renderer/*`) | port state, backpressure flag, wakers | handshake, `try_send`, `try_receive`, `close`, dispatch | mapped port, application |
| Lifecycle (`domain/nwipc-state`, `runtime/*`, `facade/nwipc`) | registry of sessions, generation numbers, resources, endpoint statuses, observations | `create_session`, `route`, `replace`, `close` | providers, endpoint callbacks, host |
| Bootstrap and protocol (`bootstrap/*`, `protocol/*`, `domain/*`) | descriptors, negotiated limits | encode, decode, validate, negotiate | ports, runtime |
| Mach (`signal/nwipc-signal-mach`, `platform/macos/nwipc-mach-*`) | port rights, queues, deadlines | request, notify, arm; publish, consume, replay | kernel, processes that may exit |
| Memory providers (`memory/*`) | mappings, references, surface numbers, entries | create, serve, attach, drop | kernel, processes |
| Renderer page (`renderer/nwipc-renderer-jsc`, `packages/*`) | documents, bindings, ports of a script, queued events | install, connect, post, tick, reload, teardown | JavaScript, ports |
| Bundle and host (`platform/macos/nwipc-macos-bundle`, `-host`, `adapters/*`) | lifecycle state, window tables | load, document events, unload; attach, navigate, close | WebKit, facade |
| Observability, test kits, tools | counters | | facade |

What is hard: the processes share nothing but memory and port rights, so every
load and store interleaves; a call uses cursors it loaded earlier; a batch must
appear whole or not at all even when its process dies; notifications are hints
that may be lost, coalesced or fail after the fact; a task must never sleep on
progress it has not seen; a right must be handed on exactly once although
workers time out, consumers replay and processes exit; ring tails, cursor wraps
and counter wraps are off-by-one country; scripts call back and throw in the
middle of a tick; lifecycle calls arrive late, under handles already replaced,
while releasing or preparing resources fails.

What makes each part correct: a ring is a first-in first-out queue of whole
batches; a channel is a pair of queues of whole messages ended once; a refused
sender can go on eventually; a chunk belongs to one owner; a nonce is used once
and frames open in the order they were sealed; two endpoints that are open mean
the same regions and agree on limits; references balance; a generation's number
is used once and its resources are released once, exactly when it stops being
live, and what is observed of it is true; a script hears everything, in order,
once, and is told the end.

## 2. Modules

| Module | Models |
|---|---|
| `RingCore` | cursor arithmetic, wrap planning, the bound checks of the shared-memory handles |
| `Ring`, `RingProperties` | one directional ring between two processes, and what it guarantees |
| `RecordQueue` | the abstract bounded queue of whole batches that `Ring` implements |
| `FlowControl`, `Fragment` | watermark hysteresis; fragment sizes, capacity rules, reassembly |
| `Channel`, `ChannelProperties` | two endpoints with transport over two rings, and what they guarantee |
| `MessageLink` | the abstract pair of message queues that `Channel` implements |
| `ChunkPool`, `PayloadQueue` | the chunk pool and the abstract queue it implements |
| `SessionState`, `Runtime`, `Lease` | the transition table, the registry with everything a call sets off, and the abstract leases it implements |
| `HostRegistry` | the host registry under the window tables of the wry and tauri adapters |
| `Facade` | the facade and an embedder's choice of it: composes `Runtime` and `HostRegistry` |
| `Ports`, `PortsProperties` | the renderer's and the native peer's port over the mapped transports, and what they guarantee |
| `FrameProtection` | seal, commit and open over a link that loses, repeats and reorders, across generations and parties |
| `Bootstrap` | the envelope and its binary and property-list forms |
| `Region` | the layout of a region, its validation, the preparation of a generation |
| `Negotiation` | HELLO/ACK: versions, capabilities, limits |
| `Establish` | both endpoints of one generation becoming open: composes `Bootstrap`, `Region`, `Negotiation` |
| `Wakeup`, `AsyncPeer` | coalescer, Darwin notification, hybrid wait and driver; the asynchronous port over them |
| `MachSignal` | the Mach signal port: broker, rights, hints, no-senders notification |
| `MachTransfer`, `MachRendezvous` | the one-shot move of rights; the rendezvous worker and its consumers |
| `SharedMemory` | the IOSurface provider and the two Mach providers |
| `Documents` | bundle shim, JavaScriptCore binding, `RendererCore` and the client package |
| `Bundle` | the bundle lifecycle with its panics |
| `MCRing`, `MCChannel`, `MCPorts`, `MCDocuments` | values and compositions for TLC |
| `RingProofs`, `EndpointProofs`, `MemoryProofs`, `FacadeProofs`, `PortsProofs`, `DocumentsProofs`, `AsyncPeerProofs`, `MacosProofs` | theorems about `Ring`; `Fragment`, `Establish` and `Channel`; `SharedMemory` and `ChunkPool`; `Runtime` and `Facade`; `Ports` and `FrameProtection`; `Documents`; `AsyncPeer`; `MachSignal`, `MachRendezvous` and `Bundle` |

**Ring.** The unit is the eight-byte cell: every record length, cursor and
capacity the code lets through is a multiple of eight, the record prefix is three
cells. A cell carries the record it belongs to and its place in it, so an
overwritten, stale or half-copied record is visible in the state. `BeginSend` is
the snapshot that `send_fragments` and `prepare` take; `PlanRecord` one turn of
the planning loop; `StoreRecord` one `ProducerMemory::write`, which loads the
consumer cursor again; `Publish` the release store with the counters that follow
it; `MeasureBuffered` the second cursor load of `PendingWrite::commit`;
`DropPending` and `CrashProducer` what may happen instead. `bytes` is what the
producer has written and `seen` what the other process can observe: stores become
visible at any time (`Propagate`), and by the publication at the latest. `Peek`
and `Consume` are the two halves of `RingReader::receive`. `inflight` is history.

**Channel.** A ring is taken as the queue that the `ring` run shows it to be,
with the cells and the wrap tails its records take. A call is broken where it
touches shared state: `SendPlanned` (snapshot and planning), `Publish`,
`NotifyPeer`; `Take*` (one turn of the receive loop, which frees the cells before
anything looks at the record), `Answer`/`AnswerFails` (the notification of the
producer, and the event lost when it fails), `PollEmpty` (the flow observed, the
writable edge reported), `Wake`.

**Ports.** The two ports of a generation differ: `RendererCore` is polled by its
thread until nothing comes, `NativePort` receives one event a call, and a refused
native send polls once itself and sets aside what it takes. One call of a channel
(`SendFrame`, `PollChannel`, `EndChannel`) is one step, `Channel` breaks those up;
a port's call is broken between them (`RendererClose`/`RendererEnd`,
`NativeClose`/`NativeYield`/`NativeEnd`), since the other process runs in between.
`Committed` and `Opens` are the counters of the frame protection: a frame is
sealed, published, and its counter committed before the notification's failure is
looked at. Occupancy counts cells without wrap tails; documents and the
handshake are modules of their own. `sent`, `got` and `faulted` are history.

**FrameProtection.** The same counters without the ports: a sealed frame is a
record of key, counter and content that only the holder of the key can make, and
the link may do to it what a broken or wrong channel could. A seal that is not
published leaves the counter where it was, which is where a nonce could be used
twice. The cipher and the key derivation are ideal: a frame opens exactly under
the key, the counter and the context it was sealed with.

**Establish.** The runtime prepares two regions and an envelope for each
endpoint; the native peer takes its from a pipe, once, and the renderer its from
a property list. Each endpoint then decodes, checks, attaches, and exchanges
HELLO and ACK over the rings (`Step`, one stage each). At most one thing goes
wrong in a behaviour (`Deviating`): a field lost, doubled, unreadable or unknown,
a cut end, an envelope of another session, generation or role, regions swapped,
stale or mapped short, an endpoint that expects something else. Processes may die
at any step. `mode` tells mapped generations from separate processes on a stream.
HELLO and ACK are frames like any other: the fragmenter refuses one that is larger
than the channel's limit (`Sendable`, `HelloRefused`), which a configuration that
`validate` accepts may well be.

**Wakeup and AsyncPeer.** A poll that finds nothing registers its waker, and
then looks again; `Mark`, `Post`, `Deliver` and `Rearm` are the coalescer and
the notification between the writers and the driver thread, which also wakes by
its interval. The readiness is Tokio's bridge, or an edge source that forgets
what happened before a registration. Wiring the coalescer, the notification and
the hybrid wait into one chain is the model's composition: each layer is as its
crate has it, and no driver of the repository joins the three.

**MachSignal, MachTransfer, MachRendezvous.** A port is its receive right, its
send rights by process, and a bounded queue. Each kernel call is a step: a worker
or a client may be stopped between any two of them, its process may exit, which
drops its rights, and a signal's send times out when the queue is full. The sends
of a rendezvous consumer have no time-out: they wait for `Room` on the service
port, for ever when the worker has ended and the host is not dropped.

**SharedMemory.** One module for three providers that differ in how a region is
named (a surface number, which the system uses again; a memory entry) and in who
answers for it (nobody; the broker; the host's worker). References are counted
as the code counts them, mappings as the system does.

**Runtime, Facade, HostRegistry.** The registry is behind `&mut self`: a call is
one action, including the cleanup, the replacement and the drop of the replaced
session it sets off. Failing releases (`InvalidateFails`, `CloseFails`), failing
preparations and exhausted numbers are separate outcomes. Handles are any pair of
a session and a generation, so late and foreign ones are included. The facade
adds what its callers observe of each generation, kept for a bounded number of
them, and the one-shot bootstrap. The host registry counts generations on by
itself; it closes a session before it looks for the next number, so at the last
one (`Exhausted`) the session stays closed and its window cannot be removed.

**Documents, Bundle.** A tick of the binding's timer polls a port, queues events
and hands them out one at a time (`HandOut`); a handler may send, close, connect
or throw, so a tick is broken at every callback. `Bundle` is the lifecycle
around it, with a panic possible in every callback that user code runs in.

**ChunkPool.** Each operation holds the mutex once and is one step; filling and
reading a slab are steps outside of it.

## 3. Runs

| Run | Checks | Bounds, and why they are enough |
|---|---|---|
| `ring` | no failed bound check of the writer, reported amount never too low, refinement of `RecordQueue`, everything committed is consumed | capacity 8 with batches 3, 5 and 3+4: tails of 1 and 2 cells (implicit) and of 3 (a padding record) all occur; cursors wrap after three laps, sequences after 3 and ids after 2, more than are ever in flight |
| `channel` | refinement of `MessageLink`, no refusal by an empty ring, delivery with all hints lost, the end of watermark backpressure | one message of one record and one of two, capacity 14 so that both wrap tails occur; a sender that ends or dies, a receiver whose notifications may fail |
| `chunk_pool` | refinement of `PayloadQueue`, an exhausted pool recovers | three slabs: one with each side and one waiting; the only run that checks deadlock |
| `ports` | a counter is spent exactly by a publication, a nonce is used once, frames open and arrive once and in order or a call of the receiver has failed, a completed close is seen by the other side, a reported backpressure ends | both notifications may fail, three frames each way so that the counters run out, and room for two frames and less than an end record more, so that sends, close frames and end records are all refused; for `FrameProtection` three parties, two of which share a generation, and two frames each |
| `runtime` | resources released once and held exactly while live, observations true and the latest kept, one window per session, close final, refinement of `Lease` | two sessions, four generations, one more than is needed for a replacement after a failed preparation; two observations retained, so that they are pruned; both numberings run out, and so does the host registry's own |
| `establish` | an envelope decodes to what was meant or is refused, endpoints that are open agree, an attached region is large enough for every frame of its limit to fit an empty ring, an unhindered establishment completes, or ends with the initiator where a HELLO does not fit the limit | inline sizes to 9 and messages to 20 bytes cover every residue of the cell size, one to many fragments; one deviation at a time. Sizes are scaled down with the limits: 12 bytes for a HELLO, 7 for an ACK and 2 for the protection of a frame (96, 56 and 24 in the code), so that limits below, at and above a HELLO all occur |
| `async` | no task sleeps on progress nobody will tell it of; operations return | two writers so that marks coalesce and collide, three changes |
| `mach_signal` | the cancellation is reported only after the last sender is gone; it is reported unless swallowed | three clients, so that one can leave while another clones and a third asks; a queue of 2 that fills |
| `mach_rendezvous` | no right of an endpoint is left with nobody when all is over, but for the control endpoint that a failed publish leaks; every wait ends but an orphaned one, and one for room on a port nobody serves | two consumers, either of which may replay or corrupt, and a queue of one message (five by default in the kernel), which one of them can fill for the other |
| `memory` | references balance, an open endpoint maps its own region, requests for an entry end | two clients, three generations and two surface numbers, so that a number is used again |
| `documents` | events are heard once and in order, a binding belongs to the document that is loaded, an end is heard | a document with two connections, two messages and two posts on one of them, a reload; capacity 3 so that a send is refused |

`MCPorts` and `MCDocuments` each compose two modules by a constant choice made in
the initial state (a port with its channel, or frames over any link; a page, or
the bundle's entry points), so that one run fires both.

The run `documents_writable` expects a violation: a disagreement between the code
and what it says of itself, described in the next section.

Deadlock is checked for the chunk pool only. Elsewhere the system may stop: a
crashed producer and a drained ring, a closed channel, closed ports, a dropped
runtime, processes that have all exited.

**Fairness**, and why the code justifies it:

* `Ring`: the owner of a reader keeps calling `receive`, as every driver of a
  transport does; nothing is assumed of the writer.
* `Channel`: a call that has begun goes on, and a driver returns to `poll` however
  often its application sends (strong fairness, since each send disables polling
  for a moment). That a hint arrives is never assumed: the bounded wait stands in.
* `ChunkPool`: both threads finish with what they hold, and the consumer keeps
  receiving.
* `Ports`: a call goes on, the renderer's thread keeps dispatching and the native
  application keeps receiving however often it sends, and it closes a port that
  has failed. The last is the application's duty, not the code's: without it
  nobody would tell the renderer.
* `AsyncPeer`: a task that is awake is run, the driver wakes at the latest by its
  interval, and a writer that has begun to publish goes on to mark and post.
* `MachSignal`, `MachRendezvous`, `SharedMemory`: broker, worker and clients go on
  from one call of the kernel to the next; every wait has the time-out the code
  gives it, and only those: the sends and the capability receive of a rendezvous
  have none.
* `Establish`: the runtime writes the pipe, and each endpoint goes on to its next
  stage.
* `Documents`: the timer fires (strongly fair, since a script can keep the engine
  busy), a tick goes on to hand out what it has queued, and the peer drains.
* `Runtime`, `Facade`, `FrameProtection`, `Bundle`: none, nothing is promised there.

## 4. Where the code and its documents disagree

The modules keep a definition for most of these, in a form that does not hold,
with a comment that says why; what does hold stands beside it. The first has a run.

* **`writable()` may never settle** (run `documents_writable`): it waits for a
  writable event while the last send left anything buffered, but `RendererCore`
  forwards that event only after a send it reported as backpressured.
* **Ring capacities** (`StoresOnlyFreeCells`): a capacity that does not divide
  2^32 is accepted (nwipc-atomic:164), and the physical offset then jumps when a
  cursor wraps (:179): accepted stores overwrite unconsumed records. Capacities
  that are powers of two are not affected; the proofs assume `Aligned`.
* **Largest messages without fragmentation**: the capacity rule
  (nwipc-channel-core:72) forgets the wrap tail, so an empty ring may refuse a
  largest message for good, with an error documented as retryable
  (nwipc-error:85). `EmptyRingAccepts` and `EmptyRingFits` are about
  configurations with fragmentation.
* **Writable edges of a channel**: a send refused for room while the watermark flag
  is clear (nwipc-channel-core:143) is never followed by a writable edge, where
  docs/implementation-plan/03-data-plane.md:116 promises one. No property covers
  it: `BackpressureClears` is about the flag.
* **`poll` drops an event**: nwipc-channel-transport:291 has consumed the event
  when its notification of the producer fails (docs/implementation-plan/03-data-plane.md:129).
  `MessageLink` has a loss for it.
* **A native close on a full ring** (`CloseIsReported`): a port that meets the
  renderer's close frame is `Closed` (nwipc-peer-core:336) before its end record
  fits, and nothing tries again; the renderer stays `Closing`
  (nwipc-renderer-core:155). `NativeCloseIsSeen` is about a close that completed.
* **Observations of pending sessions** (`PendingIsOwned`): a replacement that cannot
  be prepared leaves the released generation pending, and a connection reported
  after a close makes it pending again (facade 565-590, 627-639, 691-705), where
  nwipc-diagnostics:78 says pending resources are still owned.
* **Asynchronous close** (`CloseReturns`): nwipc-peer-async:116 waits for
  readiness without trying again after registering; an edge source that has
  forgotten the edge leaves it pending. `OperationsReturn` leaves that case out.
* **No-senders** (`LastSenderIsSeen`): the broker's coalescing loop
  (nwipc-signal-mach:766) can swallow the notification, and it can be asked for
  after the last sender is gone.
* **Rendezvous** (`ConsumeReturns`, `FailedPublishReleases`,
  `EachRightReleasedOnce`): a consumer that has the control right waits without
  bound when the worker's transfer then fails or its process ends; one that sends
  its request or its acknowledgement (nwipc-mach-rendezvous:673, :709) waits without
  bound while the service port's queue is full, which replayed descriptors bring
  about once the worker has ended, until the host is dropped; a publish that fails
  leaks the control endpoint, and the registered service too when the sandbox token
  is not UTF-8 (:499); and a worker that ends early destroys its control port before
  it releases the send right of the same name.
* **Configurations too small for a HELLO** (`ValidConfigurationOpens`):
  `validate` (nwipc-macos-transport:70) accepts any message limit above zero, but a
  HELLO has 96 bytes, and the fragmenter refuses it when the limit is below 95
  (nwipc-fragment:62): the renderer's attachment fails and the peer waits.
  `UnhinderedOpens` tells the two kinds of configuration apart.
* **A host out of numbers**: nwipc-macos-host:174-181 closes a session before it
  fails to find its next generation; every later event of its window is refused.
* **Attaching** (`AttachReturns`): waiting for HELLO or ACK has no bound of its
  own where the documentation speaks of a bounded time-out.

## 5. Proofs

Every safety invariant, action property and refinement that a passing run checks is also
a theorem, for every value of the constants that the named assumptions of the
modules admit (`NumberingAssumption`, `ChannelAssumption`, `PortsAssumption`,
`EstablishAssumption` and so on: what the code's own checks let through). Two theorem groups
assume more, and section 4 says why they must: those about the ring assume
`Aligned`, that the capacity divides the cursor range; `ChannelEmptyRingAccepts`
assumes that fragmentation is on (`Inline < Largest`).

The argument has one form throughout: a strengthened invariant that holds at the
start (`...Initially`, `...Init`), one lemma for each action that it survives
(`...Step`), and the property as a consequence. What each invariant adds, and why
the property alone would not do:

* **`RingProofs`** (`Ring`). Facts about wrapping cursors come first:
  `AdvanceDistance`, `DistanceRebase`, `DistanceChain`, and, when `Aligned`,
  `OffsetAdvance`: physical offsets advance modulo the capacity.
  `WriterSafe` (no bound check of the writer fails) and `BufferedSafe` (the amount
  reported is never too low) are not inductive, since the writer plans against a
  snapshot while the consumer moves. `WriterInv` adds that the snapshot is between
  the consumer cursor and the plan (`SnapshotOrder`), that planned writes lie in
  the free space of the snapshot and do not cross the end (`PlannedInside`), and
  what the last outcome was measured from (`OutcomeCurrent`). A consumer that
  advances only enlarges the free space, which is `DistanceRebase`.
  `QueueInv` describes the contents: the writes in flight fill the ring from
  consumer to producer without a gap, each numbered as the reader expects, and
  each visible to the other process as it was stored (`InflightInv`); what a call
  plans continues from the producer and is stored as far as the call has come
  (`PlanInv`); it is a message or the beginning of one (`MessageInv`); and a
  receipt is for the first write in flight (`ReaderInv`). From it follow
  `ReaderSafe` (the reader never fails), `StoresSafe` (a store never touches an
  unconsumed cell) and the refinement `RingImplementsQueue`, in which `Publish`
  appends a batch, `Consume` of a data record takes it, and everything else
  stutters: a crash before the publication leaves nothing behind.
* **`EndpointProofs`** (`Fragment`, `Establish`, `Channel`).
  `CapacityRuleSuffices`: a batch crosses the end of a ring at most once, and then
  wastes less than its longest record, which is what `validate_capacity` adds.
  `EstablishInv` follows the handshake: what the runtime handed out decodes to what
  it meant or not at all, in both wire forms (`Sound`, by cases over the deviations
  of a field list); an endpoint past decoding knows what was meant (`Informed`); a
  HELLO on its way is the initiator's offer (`Offered`), an ACK is the acceptor's
  answer to it (`Answered`), and an open initiator has checked that ACK
  (`Opened`). It gives `DecodesAsMeant`, `AgreeOnSelection` and `EmptyRingFits`.
  `ChannelInv` says that the records on their way form a chain from the receiver's
  partial message to none (`WholeMessages`), that a batch about to be published is
  one message or one end (`Planned`), and that an event in hand is about to be
  returned (`Returning`). For `ChannelImplementsLink` the abstract queue is what
  reassembling those records would give: publishing a batch appends exactly one
  item, wherever its wrap tail falls; taking a record moves work from one side of
  the mapping to the other and stutters; `Answer` delivers and `AnswerFails` loses.
* **`MemoryProofs`** (`SharedMemory`, `ChunkPool`). `RightsBalance` and
  `OpenMapsItsRegion`: references of clients and of the host are counted apart
  (`ClientsInv`, `HostInv`), and what a client maps came from the entry of its own
  generation however surface numbers are used again. `PoolInv`: a slab is in one
  place (`OnePlace`), its buffer is in its slot unless an application has it
  (`SlotsFilled`), and the counters add up (`PlacesAddUp`), so that no operation
  of the pool can fail on a corrupt queue; hence `PoolImplementsQueue`.
* **`FacadeProofs`** (`Runtime`, `Facade`, `HostRegistry`). `RegistryInv` adds to
  `ReleasedOnce` and `HeldWhileLive` that unissued numbers are unused, that no two
  sessions share a generation, and that a session is cleaned exactly when it is not
  live. The step lemmas follow the shapes of a call: an entry is installed
  (`InstallStep`), ends (`EndStep`), progresses (`ProgressStep`) or goes with the
  runtime (`DropStep`). `CloseIsFinal` adds that a closed generation stays
  terminal. The facade's calls are calls of the registry or open both endpoints at
  once (`CallOfRegistry`), so the same results hold for them, with the refinement
  of `Lease` and `CloseIsFinal`. `FacadeInv` adds `Recorded`: an observation is of
  an issued generation, and until the facade is dropped only an active generation
  is recorded as live and only one that holds nothing as cleaned up; from it
  `SnapshotIsTrue`, and `OneWindowPerSession` from the host's tables.
  `LatestAreObserved` needs that numbers are issued in order (`IssuedInOrder`), so
  that keeping the newest of the issued can be done one issue at a time.
* **`PortsProofs`** (`FrameProtection`, `Ports`). A sealer's next counter is the
  number of frames it has published (`SealerInv`), an opener expects as many as it
  has opened (`OpenerInv`), and a key names its sealer: `NonceOnce` and
  `OpenedInOrder`, whatever the link does. `PortsInv` adds that the sealer has
  counted what was published (`Spent`), that a frame's number is the one its
  counter stands for (`Numbered`), that the opener has counted what came as far as
  the port (`Counted`), and the states a call under way may be in (`Calls`). The
  order of a ring is not needed: the opener refuses what is not next, which is why
  delivery stays in order after any failure.
* **`DocumentsProofs`** (`Documents`). Each connection is in one of three
  conditions (`PortInv`): nothing was ever given to it; it is live, and what was
  heard, then what is queued or being handed out, then what the transport holds is
  exactly what its peer gave; or it is done, and what is heard or waiting is a
  beginning of that and then one ending. A handler that throws, closes or connects
  moves a connection between these, and `HeardInOrder` follows.
* **`AsyncPeerProofs`** (`AsyncPeer`). `NeverAsleepOnProgress` is made inductive by
  `PendingIsCovered`: a change that the coalescer has marked and not yet posted has
  a writer about to post it, or a driver about to look.
* **`MacosProofs`** (`MachSignal`, `MachRendezvous`, `Bundle`). `SignalInv`: a
  serving broker holds a right of its own, and a no-senders notification that waits
  in the queue or has been told means that nobody has one, a right in a reply on
  its way included: `CancelledOnlyAfterLastSender`. `RendezvousInv` follows the
  control right and the bundle through the worker's stages, whoever exits:
  `NothingLeftBehind`, and that a replayed descriptor is taken once (`TakenOnce`).
  `BundleInv` adds the types to `BindingFollowsDocument`, each callback ending with
  a binding for the document or none, panics included.

Some models compute with folds and recursive functions over sequences
(`WithPadding`, `CellsIn`, `Reassembled`). What these give for every input is
proved by induction over the length, in the form of a set of numbers that holds 0
and every successor (`SetInduction`, from the library's fact that the strict
subset order on finite sets is well founded), once it is shown that the recursion
defines a function at all (`RecursionExists`).

**Only model-checked: liveness.** `CommittedIsReceived`, `DeliveredWithoutHints`,
`BackpressureClears`, `SlabReturns`, `NativeCloseIsSeen`, `RendererCloseIsSeen`,
`BackpressureEnds`, `UnhinderedOpens`, `OperationsReturn`,
`LastSenderIsSeenUnlessSwallowed`, `ConsumeReturnsUnlessStuck`,
`EntryRequestsEnd` and `EndingIsHeard` rest on fairness, and fairness on
`ENABLED`, which is out of the prover's reach.

## 6. Not modelled, and the plan

Left out: the cipher and the key derivation (ideal); what system calls do beyond
rights, queues and mappings; the WebKit function tables of `nwipc-macos-spi` and
the lookup of artifacts, which hold no protocol state; surface locking and the
byte accessors of regions; the conversion of JavaScript arguments; metrics,
redaction and the text of the last failure; `nwipc-appkit`, which only forwards;
the benchmark and fault-injection hooks; test kits and build tasks.

What would come next, most important first:

1. A theorem that puts the refinements together: `Channel` over the ring that
   `RecordQueue` describes, cell by cell, in the place of its queue of records.
2. The same for `MessageLink` in the place of the transports of `Ports` and
   `Documents`, so that delivery is stated from a
   script's `send` to a peer's `receive` in one theorem.
3. Channel control records other than close and reset, once something sends them.
