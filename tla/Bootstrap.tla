----------------------------- MODULE Bootstrap -----------------------------
(***************************************************************************)
(* The bootstrap envelope of one endpoint (nwipc-bootstrap-schema) and its *)
(* two wire forms: the fields of the binary codec, written to the peer's   *)
(* inherited pipe (nwipc-bootstrap-codec, nwipc-peer-bootstrap), and the   *)
(* property list handed to the renderer (nwipc-renderer-bootstrap).        *)
(*                                                                         *)
(* A field keeps its kind, whether its bytes decode for that kind, and     *)
(* what they decode to; a kind no code knows stands for all the others.    *)
(***************************************************************************)
EXTENDS Integers, Sequences, FiniteSets, SequencesExt

CONSTANT SchemaVersion
ASSUME SchemaVersionAssumption == SchemaVersion \in Nat

Kinds == <<"session", "generation", "protocols", "role", "memory", "signal", "secret">>
KnownKinds == Range(Kinds)
MemoryProviders == {"ProcessTest", "IoSurface", "MachMemory"}
SignalProviders == {"ProcessTest", "DarwinNotify", "Poll", "Hybrid", "MachPort"}

\* ProtocolRange::new and contains
ProtocolRange(minimum, maximum) == [minimum |-> minimum, maximum |-> maximum]
RangeContains(range, version) == range.minimum <= version /\ version <= range.maximum

\* BootstrapEnvelope::validate
ValidEnvelope(e) ==
    /\ e.memory.provider \in MemoryProviders
    /\ e.signal.provider \in SignalProviders

\* BootstrapEnvelope::validate_for: "" when the envelope is the endpoint's own.
RefusalFor(e, role, x) ==
    IF ~ValidEnvelope(e) \/ e.role # role \/ e.session # x.session THEN "ProtocolViolation"
    ELSE IF e.generation # x.generation THEN "StaleGeneration"
    ELSE IF ~RangeContains(e.protocols, x.protocol) THEN "LayoutVersionMismatch"
    ELSE ""

Field(kind, value) == [kind |-> kind, required |-> TRUE, sound |-> TRUE, value |-> value]
UnknownField(required) == [Field("future", 0) EXCEPT !.required = required]

-----------------------------------------------------------------------------
(* The binary form.  "cut" says that the input ends inside its last field. *)

Encode(e) ==
    [schema |-> SchemaVersion, cut |-> FALSE,
     fields |-> [i \in DOMAIN Kinds |-> Field(Kinds[i], e[Kinds[i]])]]

\* Mutant: of two fields of a kind the later one wins.
FieldsDecodeTwice(fields) ==
    /\ \A i \in DOMAIN fields :
          IF fields[i].kind \in KnownKinds THEN fields[i].sound ELSE ~fields[i].required
    /\ \A k \in KnownKinds : \E i \in DOMAIN fields : fields[i].kind = k

\* decode's loop: a field of an unknown kind is skipped unless it is required,
\* one of a known kind is there once and decodes.
FieldsDecode(fields) ==
    /\ \A i \in DOMAIN fields :
          IF fields[i].kind \in KnownKinds THEN fields[i].sound ELSE ~fields[i].required
    /\ \A k \in KnownKinds : Cardinality({i \in DOMAIN fields : fields[i].kind = k}) = 1

\* What the fields carry, the last one of a kind.
Carried(fields) ==
    [k \in KnownKinds |->
        LET last == CHOOSE i \in DOMAIN fields :
                        /\ fields[i].kind = k
                        /\ \A j \in DOMAIN fields : fields[j].kind = k => j <= i
        IN fields[last].value]

Decodes(w) ==
    /\ w.schema = SchemaVersion /\ ~w.cut
    /\ FieldsDecode(w.fields) /\ ValidEnvelope(Carried(w.fields))

-----------------------------------------------------------------------------
(* The property list: one value per key, a nested dictionary per           *)
(* descriptor, and no key it does not know.                                *)

EncodePlist(e) ==
    [schema |-> SchemaVersion, entries |-> {Field(k, e[k]) : k \in KnownKinds}]

PlistDecodes(d) ==
    /\ d.schema = SchemaVersion
    /\ {f.kind : f \in d.entries} = KnownKinds
    /\ \A f \in d.entries : f.sound
    /\ ValidEnvelope([k \in KnownKinds |-> (CHOOSE f \in d.entries : f.kind = k).value])

PlistCarried(d) == [k \in KnownKinds |-> (CHOOSE f \in d.entries : f.kind = k).value]
=============================================================================
