------------------------------- MODULE WireFormat -------------------------------
(* Typed event data on the wire: the codec registry (synckit/codec/codec.go) and  *)
(* the encoder that uses it (transport/httptransport/wire_format.go), with a      *)
(* sender and a receiver whose registries change while events are on their way.   *)
EXTENDS Naturals, FiniteSets

CONSTANTS
  Kinds,      \* kinds of data, each with a codec of its own
  Editions,   \* the codecs an application may register for one kind
  MaxWires, MaxRegisters \* bounds

Sides == {"sender", "receiver"}
Keys == <<"kind", "codec_kind", "data_kind">>
None == "none"

VARIABLES
  registry,  \* registry[s][k]: the edition registered for kind k, or None
  fallback,  \* fallback[s]: whether side s falls back to JSON
  wires,     \* events on their way
  got,       \* what the receiver made of them: [data, as]
  sent, registers

wfVars == <<registry, fallback, wires, got, sent, registers>>

Init ==
  /\ registry = [s \in Sides |-> [k \in Kinds |-> None]]
  /\ fallback = [s \in Sides |-> TRUE]
  /\ wires = {} /\ got = {} /\ sent = 0 /\ registers = 0

NewCodecAwareEncoder(s) ==
  /\ registers = 0 /\ sent = 0
  /\ \E b \in BOOLEAN : fallback' = [fallback EXCEPT ![s] = b]
  /\ UNCHANGED <<registry, wires, got, sent, registers>>

\* Register replaces the codec of its kind.
Register(s, k, e) ==
  /\ registers < MaxRegisters
  /\ registers' = registers + 1
  /\ registry' = [registry EXCEPT ![s][k] = e]
  /\ UNCHANGED <<fallback, wires, got, sent>>

--------------------------------------------------------------------------------
(* Encoding. Data is the kind of value it is; bytes tell who wrote them.        *)

\* The first of the three keys that holds a string decides, even an empty one.
CodecKind(metadata) ==
  LET held == {i \in DOMAIN Keys : Keys[i] \in DOMAIN metadata}
  IN  IF held = {} THEN "" ELSE metadata[Keys[CHOOSE i \in held : \A j \in held : i <= j]]

Codec(s, kind) == IF kind \in Kinds THEN registry[s][kind] ELSE None
Json(data) == [by |-> "json", edition |-> None, data |-> data]
Failed == [kind |-> "failed"]
Wire(kind, bytes) == [kind |-> kind, bytes |-> bytes]

\* A codec refuses values of another kind.
\* Mutant of EncodeEvent: data_kind names the codec after JSON was used as well.
EncodeEventKeepsKind(data, metadata) ==
  LET kind == CodecKind(metadata)
      codec == Codec("sender", kind)
  IN  IF codec # None /\ data = kind THEN Wire(kind, [by |-> kind, edition |-> codec, data |-> data])
      ELSE IF fallback["sender"] THEN Wire(kind, Json(data)) ELSE Failed
EncodeEvent(data, metadata) ==
  LET kind == CodecKind(metadata)
      codec == Codec("sender", kind)
  IN  IF codec # None /\ data = kind THEN Wire(kind, [by |-> kind, edition |-> codec, data |-> data])
      ELSE IF fallback["sender"] THEN Wire("", Json(data)) ELSE Failed
ToWireEvent(data) == Wire("", Json(data))

\* A nil version is sent as "".
Send(wire, version) ==
  /\ sent < MaxWires /\ sent' = sent + 1
  /\ wires' = IF wire = Failed THEN wires ELSE wires \cup {[wire |-> wire, version |-> version]}
  /\ UNCHANGED <<registry, fallback, got, registers>>

EncodeEventWithVersion(data, metadata, version) == Send(EncodeEvent(data, metadata), version)
SendLegacy(data, version) == Send(ToWireEvent(data), version)

--------------------------------------------------------------------------------
(* Decoding. "typed" is the sender's value, "generic" what JSON makes of the     *)
(* bytes, and "misread" a value of the codec's type that nobody sent.            *)

\* A codec decodes its own bytes; of other bytes it makes an error or a wrong value.
Decoded(codec, wire) ==
  IF wire.bytes.by = wire.kind /\ wire.bytes.edition = codec THEN {"typed"} ELSE {"error", "misread"}

OrJson(outcome) ==
  IF outcome # "error" THEN outcome ELSE IF fallback["receiver"] THEN "generic" ELSE "error"

DecodeEvent(wire) ==
  LET codec == Codec("receiver", wire.kind)
  IN  IF wire.kind = "" THEN {"generic"}
      ELSE {OrJson(o) : o \in IF codec = None THEN {"error"} ELSE Decoded(codec, wire)}
FromWireEvent(wire) == {"generic"}

Receive(w, outcome) ==
  /\ wires' = wires \ {w}
  /\ got' = got \cup {[wire |-> w.wire, as |-> IF w.version = "" THEN "error" ELSE outcome,
                       codec |-> Codec("receiver", w.wire.kind)]}
  /\ UNCHANGED <<registry, fallback, sent, registers>>

DecodeEventWithVersion(w) == \E outcome \in DecodeEvent(w.wire) : Receive(w, outcome)
ReceiveLegacy(w) == \E outcome \in FromWireEvent(w.wire) : Receive(w, outcome)

--------------------------------------------------------------------------------
Metadata == UNION {[ks -> Kinds \cup {""}] : ks \in SUBSET {"kind", "data_kind"}}

Next ==
  \/ \E s \in Sides : NewCodecAwareEncoder(s)
  \/ \E s \in Sides, k \in Kinds, e \in Editions : Register(s, k, e)
  \/ \E data \in Kinds, version \in {"1", ""} :
       \/ \E metadata \in Metadata : EncodeEventWithVersion(data, metadata, version)
       \/ SendLegacy(data, version)
  \/ \E w \in wires : DecodeEventWithVersion(w) \/ ReceiveLegacy(w)

Spec == Init /\ [][Next]_wfVars

\* Whatever is registered when, on either side, data arrives as the value that was
\* sent or as generic JSON, and never as a value of a type its sender did not write:
\* the bytes of one codec only reach that codec, unless the receiver has another
\* edition of it (wire_format.go EncodeEvent, DecodeEvent).
DataIsNotMisread ==
  \A g \in got : g.as = "misread" => g.wire.bytes.by = g.wire.kind /\ g.codec # g.wire.bytes.edition
================================================================================
