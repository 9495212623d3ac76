----------------------------- MODULE WireFormat -----------------------------
(***************************************************************************)
(* The frames of a kernel's WebSocket: encode_v1_message and               *)
(* decode_message_frame, which takes a binary frame for one of protocol    *)
(* v1 and, when that fails, for one of the legacy protocol, and a text     *)
(* frame for the JSON document of a legacy message without buffers.        *)
(*                                                                         *)
(* A frame is a sequence of bytes, a message the sequence of its parts:    *)
(* channel, header, parent_header, metadata, content and buffers in v1,    *)
(* the JSON document and buffers in the legacy protocol.                   *)
(***************************************************************************)
EXTENDS Naturals, SequencesExt

CONSTANTS
    Objects,     \* bytes of JSON objects that occur as parts
    Buffers,     \* bytes of binary buffers
    MaxBuffers   \* bound on the buffers of a message

Byte == 0..255

ASSUME PartsAssumption ==
    /\ Objects \subseteq Seq(Byte)
    /\ Buffers \subseteq Seq(Byte)
    /\ MaxBuffers \in Nat

VARIABLES
    sent,      \* the message and the protocol it is sent in
    frame,     \* what the runner receives
    damage     \* what happened to the frame on its way

vars == <<sent, frame, damage>>

------------------------------------------------------------------------------
(* Numbers. *)

\* Mutant of LE64: only the lowest byte is used.
LE64OneByte(n) == <<n, 0, 0, 0, 0, 0, 0, 0>>

\* struct.pack("<Q") and ("!I") of the numbers that occur in frames.
LE64(n) ==
    <<n % 256, (n \div 256) % 256, (n \div 65536) % 256, (n \div 16777216) % 256,
      0, 0, 0, 0>>
BE32(n) ==
    <<(n \div 16777216) % 256, (n \div 65536) % 256, (n \div 256) % 256, n % 256>>

(***************************************************************************)
(* struct.unpack of the word at offset k.  Every number from 2^30 on reads *)
(* as 2^30: no frame is as long, and the numbers are only compared with    *)
(* each other and with numbers up to the length of the frame.              *)
(***************************************************************************)
Huge == 1073741824

ReadLE64(f, k) ==
    IF f[k + 4] >= 64 \/ \E i \in 5..8 : f[k + i] # 0 THEN Huge
    ELSE f[k + 1] + 256 * f[k + 2] + 65536 * f[k + 3] + 16777216 * f[k + 4]

ReadBE32(f, k) ==
    IF f[k + 1] >= 64 THEN Huge
    ELSE 16777216 * f[k + 1] + 65536 * f[k + 2] + 256 * f[k + 3] + f[k + 4]

------------------------------------------------------------------------------
(* Encoding. *)

\* Mutant of FirstOffset: the word that holds the count is forgotten.
FirstOffsetWithoutCount(width, n) == width * n

\* Where the parts begin: after the count and a table of n offsets.
FirstOffset(width, n) == width * (n + 1)

PartOffset(width, n, parts, i) ==
    FirstOffset(width, n) + Len(FlattenSeq(SubSeq(parts, 1, i - 1)))

\* encode_v1_message: one offset per part and one for the end.
EncodeV1(parts) ==
    LET n == Len(parts) + 1
    IN LE64(n)
       \o FlattenSeq([i \in 1..n |-> LE64(PartOffset(8, n, parts, i))])
       \o FlattenSeq(parts)

\* What a server of the legacy protocol sends: one offset per part.
EncodeLegacy(parts) ==
    LET n == Len(parts)
    IN BE32(n)
       \o FlattenSeq([i \in 1..n |-> BE32(PartOffset(4, n, parts, i))])
       \o FlattenSeq(parts)

------------------------------------------------------------------------------
(* Decoding. *)

Error == [protocol |-> "error", parts |-> <<>>]

\* bytes.decode, and _json_object among the objects that occur.
IsText(bytes) == \A i \in DOMAIN bytes : bytes[i] < 128
IsObject(bytes) == bytes \in Objects

\* The slice f[from:to] of Python.
Slice(f, from, to) == SubSeq(f, from + 1, IF to < Len(f) THEN to ELSE Len(f))

\* The largest count that both decoders take.
MaxCount == 1000

Offsets(f) == [i \in 1..ReadLE64(f, 0) |-> ReadLE64(f, 8 * i)]

\* Mutant of V1Table: the order of the offsets is not looked at.
V1TableUnordered(f) ==
    /\ Len(f) >= 56
    /\ ReadLE64(f, 0) \in 6..MaxCount
    /\ 8 * (ReadLE64(f, 0) + 1) <= Len(f)
    /\ LET offsets == Offsets(f)
       IN offsets[1] = 8 * (ReadLE64(f, 0) + 1) /\ Last(offsets) = Len(f)

\* Mutant of V1Table: the end of the last part is not looked at.
V1TableOpenEnd(f) ==
    /\ Len(f) >= 56
    /\ ReadLE64(f, 0) \in 6..MaxCount
    /\ 8 * (ReadLE64(f, 0) + 1) <= Len(f)
    /\ LET offsets == Offsets(f)
       IN /\ offsets[1] = 8 * (ReadLE64(f, 0) + 1)
          /\ \A i \in 1..(Len(offsets) - 1) : offsets[i] <= offsets[i + 1]

\* The checks of _decode_v1_message on the table of offsets.
V1Table(f) ==
    /\ Len(f) >= 56
    /\ ReadLE64(f, 0) \in 6..MaxCount
    /\ 8 * (ReadLE64(f, 0) + 1) <= Len(f)
    /\ LET offsets == Offsets(f)
       IN /\ offsets[1] = 8 * (ReadLE64(f, 0) + 1)
          /\ Last(offsets) = Len(f)
          /\ \A i \in 1..(Len(offsets) - 1) : offsets[i] <= offsets[i + 1]

V1Parts(f) ==
    LET offsets == Offsets(f)
    IN [i \in 1..(Len(offsets) - 1) |-> Slice(f, offsets[i], offsets[i + 1])]

\* A part that is no text or no JSON object also sends the frame on to the
\* legacy decoder.
IsV1(f) ==
    /\ V1Table(f)
    /\ IsText(V1Parts(f)[1])
    /\ \A i \in 2..5 : IsObject(V1Parts(f)[i])

\* The checks of _decode_legacy_binary_message; the order is not looked at.
LegacyTable(f) ==
    /\ Len(f) >= 8
    /\ ReadBE32(f, 0) \in 1..MaxCount
    /\ 4 * (ReadBE32(f, 0) + 1) <= Len(f)
    /\ ReadBE32(f, 4) = 4 * (ReadBE32(f, 0) + 1)

LegacyParts(f) ==
    LET n == ReadBE32(f, 0)
        boundary(i) == IF i <= n THEN ReadBE32(f, 4 * i) ELSE Len(f)
    IN [i \in 1..n |-> Slice(f, boundary(i), boundary(i + 1))]

\* decode_message_frame of bytes, and of a str.
DecodeBinary(f) ==
    IF IsV1(f) THEN [protocol |-> "v1", parts |-> V1Parts(f)]
    ELSE IF LegacyTable(f) /\ IsObject(LegacyParts(f)[1])
    THEN [protocol |-> "legacy", parts |-> LegacyParts(f)]
    ELSE Error

DecodeText(f) ==
    IF IsObject(f) THEN [protocol |-> "text", parts |-> <<f>>] ELSE Error

------------------------------------------------------------------------------
(* One frame on its way. *)

BufferLists == UNION {[1..n -> Buffers] : n \in 0..MaxBuffers}

V1Heads == {<<<<115>>, o[1], o[2], o[3], o[4]>> : o \in [1..4 -> Objects]}
LegacyHeads == {<<o>> : o \in Objects}

BinaryMessages ==
    UNION {{[protocol |-> "v1", parts |-> h \o b] : h \in V1Heads}
           \cup {[protocol |-> "legacy", parts |-> h \o b] : h \in LegacyHeads} :
               b \in BufferLists}

\* Legacy messages without buffers, which a server may send as text.
TextMessages == {[protocol |-> "text", parts |-> <<o>>] : o \in Objects}

Messages == BinaryMessages \cup TextMessages

Encode(m) ==
    CASE m.protocol = "v1"     -> EncodeV1(m.parts)
      [] m.protocol = "legacy" -> EncodeLegacy(m.parts)
      [] m.protocol = "text"   -> m.parts[1]

\* websockets tells a text frame from a binary one.
Decoded ==
    IF sent.protocol = "text" THEN DecodeText(frame) ELSE DecodeBinary(frame)

\* No message has more parts than the decoder takes, or a frame too long for
\* the numbers of this module.
ASSUME FramesAssumption ==
    /\ MaxBuffers + 6 <= MaxCount
    /\ \A m \in Messages : Len(Encode(m)) < Huge

Init ==
    /\ sent \in Messages
    /\ frame = Encode(sent)
    /\ damage = "none"

Cut ==
    /\ damage = "none"
    /\ \E n \in 0..(Len(frame) - 1) : frame' = SubSeq(frame, 1, n)
    /\ damage' = "cut"
    /\ UNCHANGED sent

Extended ==
    /\ damage = "none"
    /\ frame' = Append(frame, 0)
    /\ damage' = "extended"
    /\ UNCHANGED sent

\* One entry of the table of offsets of a v1 frame is another number.
OffsetChanged ==
    /\ damage = "none"
    /\ sent.protocol = "v1"
    /\ \E i \in 1..(Len(sent.parts) + 1), n \in 0..(Len(frame) + 1) :
          frame' = SubSeq(frame, 1, 8 * i) \o LE64(n)
                   \o SubSeq(frame, 8 * i + 9, Len(frame))
    /\ damage' = "offset"
    /\ UNCHANGED sent

Next == Cut \/ Extended \/ OffsetChanged

Spec == Init /\ [][Next]_vars

------------------------------------------------------------------------------
(* What must hold. *)

TypeOK ==
    /\ sent \in Messages
    /\ \A i \in DOMAIN frame : frame[i] \in Byte
    /\ damage \in {"none", "cut", "extended", "offset"}

(***************************************************************************)
(* A message is decoded from its frame as what it was, in the protocol it  *)
(* was sent in, although nothing in a binary frame names the protocol.     *)
(***************************************************************************)
DecodesWhatWasSent ==
    damage = "none" => Decoded = sent

(***************************************************************************)
(* A v1 frame that lost its end or got something behind it is refused, by  *)
(* the v1 decoder and by the legacy decoder it then goes to.               *)
(***************************************************************************)
DamagedIsRefused ==
    sent.protocol = "v1" /\ damage \in {"cut", "extended"} =>
        Decoded = Error

(***************************************************************************)
(* Whatever the table of offsets says, the parts of a v1 frame that is     *)
(* accepted are its body: nothing is skipped, read twice or read outside.  *)
(***************************************************************************)
PartsAreTheBody ==
    LET got == Decoded
    IN got.protocol = "v1" =>
          FlattenSeq(got.parts)
              = SubSeq(frame, 8 * (Len(got.parts) + 2) + 1, Len(frame))
==============================================================================
