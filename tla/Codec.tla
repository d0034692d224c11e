-------------------------------- MODULE Codec --------------------------------
(***************************************************************************)
(* The byte formats of a connection: the signed varint (varint.go), the    *)
(* frame (frame.go) and the plain and encrypted envelopes of a message     *)
(* (rmi.go, crypto.go).                                                    *)
(*                                                                         *)
(* A buffer is a sequence of cells.  The cells of the marker and of the    *)
(* length are bytes; an envelope's fields (type, counter, id) and its body *)
(* take a cell each, since an envelope is only read whole.  Group is the   *)
(* number of values of a varint group, 128 in the code: a cell from Group  *)
(* up has the continuation flag, a last cell from Group \div 2 up the sign.*)
(***************************************************************************)
EXTENDS Naturals, Integers, FiniteSetsExt, SequencesExt

CONSTANTS
    Group,      \* the values of one varint group (128)
    MaxFrame,   \* maxFrameLength
    Block       \* the cipher's block (16 bytes), in cells

ASSUME CodecAssumption ==
    /\ Group \in Nat /\ Group % 2 = 0 /\ Group > 2
    /\ Block \in Nat \ {0}
    /\ MaxFrame \in Nat
    /\ Block + 3 <= MaxFrame /\ MaxFrame < Group * Group * Group * Group

EncodeVarInt(value) ==
    LET groups[v \in 0 .. value] ==
          IF v >= Group THEN <<Group + (v % Group)>> \o groups[v \div Group]
          ELSE IF 2 * v >= Group THEN <<v + Group, 0>> ELSE <<v>>
    IN groups[value]

\* What the groups of a varint stand for, the lowest first.
GroupsValue(cells) ==
    LET from[i \in 1 .. Len(cells)] ==
          (cells[i] % Group) + (IF i = Len(cells) THEN 0 ELSE Group * from[i + 1])
    IN from[1]

\* The value at a position of buf, with the number of cells it took.
DecodeVarInt(buf, at) ==
    LET cells == at .. (IF at + 4 <= Len(buf) THEN at + 4 ELSE Len(buf))
        ends  == {i \in cells : buf[i] < Group}
    IN IF ends = {}
       THEN [is |-> IF at + 4 <= Len(buf) THEN "too long" ELSE "incomplete", value |-> 0, read |-> 0]
       ELSE LET last  == Min(ends)
                total == GroupsValue(SubSeq(buf, at, last))
            IN [is    |-> "ok",
                value |-> IF 2 * buf[last] >= Group THEN -total - 1 ELSE total,
                read  |-> last - at + 1]

-----------------------------------------------------------------------------
Reliable == <<19, 87>>      \* 0x5713, little endian
Unreliable == <<19, 88>>    \* 0x5813

EncodeFrame(marker, payload) == marker \o EncodeVarInt(Len(payload)) \o payload

\* What starts after the first offset cells of buf: a frame and where the next
\* one starts, a part of a frame, or what cannot be one.
FrontFrame(buf, offset) ==
    LET short  == Len(buf) - offset < 3
        known  == SubSeq(buf, offset + 1, offset + 2) \in {Reliable, Unreliable}
        length == DecodeVarInt(buf, offset + 3)
        sound  == known /\ length.is = "ok" /\ length.value \in 0 .. MaxFrame
        start  == offset + 2 + length.read
        next   == start + length.value
    IN IF short \/ (known /\ length.is = "incomplete") \/ (sound /\ Len(buf) < next)
       THEN [is |-> "part", payload |-> <<>>, next |-> offset]
       ELSE IF sound
       THEN [is |-> "frame", payload |-> SubSeq(buf, start + 1, next), next |-> next]
       ELSE [is |-> "malformed", payload |-> <<>>, next |-> offset]

\* ParseFrames: the payloads of the frames at the front of buf, what is left of
\* it, and whether that is malformed.
ParseFrames(buf) ==
    LET from[offset \in 0 .. Len(buf)] ==
          LET front == FrontFrame(buf, offset)
          IN IF front.is = "frame"
             THEN LET others == from[front.next]
                  IN [others EXCEPT !.frames = <<front.payload>> \o @]
             ELSE [frames    |-> <<>>,
                   remaining |-> SubSeq(buf, offset + 1, Len(buf)),
                   malformed |-> front.is = "malformed"]
    IN from[0]

-----------------------------------------------------------------------------
EnvelopePlain     == 1
EnvelopeEncrypted == 38
ContextApp        == 1

\* AESECBEncrypt fills the last block with zeros; the cipher itself is left out.
Padded(plain) ==
    plain \o [i \in 1 .. (Block - (Len(plain) % Block)) % Block |-> 0]

EncodePlain(msg) == <<EnvelopePlain, msg.id>> \o msg.body

EncodeEncrypted(count, msg) ==
    <<EnvelopeEncrypted>> \o Padded(<<count, ContextApp, msg.id>> \o msg.body)

FrameType(payload) == IF payload = <<>> THEN 0 ELSE payload[1]

\* decodePlain and decodeEncrypted, of an envelope of their type.
DecodePlain(payload) ==
    IF Len(payload) < 2 THEN [ok |-> FALSE]
    ELSE [ok |-> TRUE, id |-> payload[2], body |-> SubSeq(payload, 3, Len(payload))]

DecodeEncrypted(payload) ==
    IF Len(payload) < 4 \/ (Len(payload) - 1) % Block # 0 THEN [ok |-> FALSE]
    ELSE [ok    |-> TRUE,
          count |-> payload[2],
          id    |-> payload[4],
          body  |-> SubSeq(payload, 5, Len(payload))]
=============================================================================
