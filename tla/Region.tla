------------------------------- MODULE Region -------------------------------
(***************************************************************************)
(* The layout of a shared region (nwipc-layout), its validation on attach  *)
(* (nwipc-validation, nwipc-channel-transport), and the bundle of regions  *)
(* and channel limits that the host prepares for a generation              *)
(* (nwipc-macos-transport).  Sizes are in bytes.                           *)
(***************************************************************************)
EXTENDS Fragment

CONSTANTS
    HeaderSize,         \* REGION_HEADER_SIZE
    MaxRingCapacity,    \* MAX_RING_CAPACITY
    MaxInlineMessage,   \* MAX_INLINE_MESSAGE_SIZE
    FrameOverhead       \* bytes that frame protection adds

ASSUME HeaderSizeAssumption == HeaderSize \in Nat \ {0}
ASSUME FrameOverheadAssumption == FrameOverhead \in Nat

\* ChannelConfiguration::validate
ValidConfiguration(c) ==
    /\ c.capacity > 0
    /\ 0 < c.inline /\ c.inline <= c.message
    /\ c.low < c.high /\ c.high < c.capacity

\* RegionLayout::new, with the capacity it derives from the total length.
CapacityOf(total) == total - HeaderSize
LayoutAllowed(total, inline) ==
    /\ CapacityOf(total) \in CellBytes .. MaxRingCapacity
    /\ CapacityOf(total) % CellBytes = 0
    /\ inline <= MaxInlineMessage /\ inline <= CapacityOf(total)

\* RegionLayout::encode writes what decode reads; "mapped" is the length of
\* the mapping itself.
Layout(session, generation, owner, total, inline) ==
    [session |-> session, generation |-> generation, owner |-> owner, total |-> total,
     capacity |-> CapacityOf(total), inline |-> inline, mapped |-> total, sound |-> TRUE]

\* RegionLayout::decode: magic, version, byte order and the fixed offsets are
\* as expected, and the encoded capacity is the one derived.
LayoutDecodes(r) ==
    /\ r.sound
    /\ LayoutAllowed(r.total, r.inline)
    /\ r.capacity = CapacityOf(r.total)

\* Mutant: whose region it is goes unchecked.
RegionMatchesAnyOwner(r, session, generation, owner) ==
    /\ LayoutDecodes(r)
    /\ r.session = session /\ r.generation = generation
    /\ r.mapped = r.total

\* Validator::region_layout
RegionMatches(r, session, generation, owner) ==
    /\ LayoutDecodes(r)
    /\ r.session = session /\ r.owner = owner
    /\ r.generation = generation
    /\ r.mapped = r.total

\* PreparedMacosTransport::prepare: both regions of a generation, or none.
Prepares(c) ==
    ValidConfiguration(c) /\ LayoutAllowed(HeaderSize + c.capacity, c.inline)
Prepared(c, session, generation) ==
    [owner \in {"renderer", "peer"} |->
        Layout(session, generation, owner, HeaderSize + c.capacity, c.inline)]

\* negotiated: the limit of the channel is that of one frame, its tag byte and
\* protection included.
FrameLimit(c) == c.message + 1 + FrameOverhead

\* negotiated_channel_config, for the capabilities of a production endpoint,
\* which fragments.
InlineLimit(c) == IF c.inline <= FrameLimit(c) THEN c.inline ELSE FrameLimit(c)

\* attach_mapped_endpoint over the two regions as this endpoint sees them.
EndpointAttaches(c, outbound, inbound, session, generation, role, other) ==
    /\ ValidConfiguration(c)
    /\ RegionMatches(outbound, session, generation, role)
    /\ RegionMatches(inbound, session, generation, other)
    /\ outbound.capacity = inbound.capacity /\ outbound.inline = inbound.inline
    /\ CellBytes * RequiredCapacity(InlineLimit(c), FrameLimit(c)) <= outbound.capacity
=============================================================================
