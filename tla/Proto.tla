------------------------------- MODULE Proto -------------------------------
(***************************************************************************)
(* The protobuf messages between a host and a Meshtastic radio and their   *)
(* serial framing: crates/transport/src/native_proto.rs.                   *)
(*                                                                         *)
(* Varints are modelled bit for bit for any width of group and of word.  A *)
(* message is the sequence of its fields, each a number and a value; keys, *)
(* wire types and lengths are left to the field.                           *)
(***************************************************************************)
EXTENDS Shifts, SequencesExt

CONSTANTS
  GroupBits,  \* 7: bits of a value in a byte
  WordBits    \* 64: bits of a value

ASSUME ProtoAssumption == GroupBits \in Nat \ {0} /\ WordBits \in Nat \ {0}

Base == Pow2[GroupBits]
Word == 0 .. Pow2[WordBits] - 1

-----------------------------------------------------------------------------
(* encode_varint, decode_varint: the low group first, every byte but the   *)
(* last with the continuation bit, which is Base.                          *)

GroupsAtMost(val) == CHOOSE n \in 1 .. WordBits :
  val <= Pow2[GroupBits * n] /\ \A m \in 1 .. n - 1 : val > Pow2[GroupBits * m]
Groups(val) == CHOOSE n \in 1 .. WordBits :
  val < Pow2[GroupBits * n] /\ \A m \in 1 .. n - 1 : val >= Pow2[GroupBits * m]

EncodeVarint(val) ==
  LET n == Groups(val)
  IN  [i \in 1 .. n |-> Low(Shr(val, GroupBits * (i - 1)), GroupBits)
                           + (IF i < n THEN Base ELSE 0)]

\* A byte at a shift of WordBits or more is not looked at
Shiftable(i) == (i - 1) * GroupBits < WordBits

LastBytes(buf) == {i \in DOMAIN buf : buf[i] < Base}

VarintVerdict(buf) ==
  IF \E i \in LastBytes(buf) : Shiftable(i) THEN "ok"
  ELSE IF \E i \in DOMAIN buf : ~Shiftable(i) THEN "overflow"
  ELSE "truncated"

(* Bits shifted out of the word are lost without an error.                 *)
DecodeVarint(buf) ==
  LET n == CHOOSE i \in LastBytes(buf) : \A j \in LastBytes(buf) : i <= j
      result[i \in 0 .. n] ==
        IF i = 0 THEN 0
        ELSE result[i - 1] + Low(buf[i], GroupBits) * Pow2[GroupBits * (i - 1)]
  IN  [value |-> Low(result[n], WordBits), used |-> n]

-----------------------------------------------------------------------------
(* encode_mesh_packet, decode_mesh_packet and the Data message in it       *)

Number == [from |-> 1, to |-> 2, channel |-> 3, data |-> 4, id |-> 5, hop_limit |-> 10]

PacketField == DOMAIN Number \ {"data"}

Field(f, v) == [number |-> Number[f], value |-> v]
Unless0(f, v) == IF v = 0 THEN <<>> ELSE <<Field(f, v)>>

EncodePacket(p) ==
  Unless0("from", p.from) \o <<Field("to", p.to)>> \o Unless0("channel", p.channel)
    \o <<[number |-> 4, value |-> <<[number |-> 1, value |-> p.portnum],
                                    [number |-> 2, value |-> p.payload]>>]>>
    \o Unless0("id", p.id) \o Unless0("hop_limit", p.hop_limit)

\* What a field has when it is not sent
Absent == [f \in PacketField |-> IF f = "hop_limit" THEN 3 ELSE 0]

LastOf(fields, k, default) ==
  LET at == {i \in DOMAIN fields : fields[i].number = k}
  IN  IF at = {} THEN default
      ELSE fields[CHOOSE i \in at : \A j \in at : j <= i].value

DecodePacket(fields) ==
  LET data == LastOf(fields, 4, <<>>)
  IN  [from |-> LastOf(fields, 1, Absent["from"]),
       to |-> LastOf(fields, 2, Absent["to"]),
       channel |-> LastOf(fields, 3, Absent["channel"]),
       portnum |-> LastOf(data, 1, 0),
       payload |-> LastOf(data, 2, <<>>),
       hop_limit |-> LastOf(fields, 10, Absent["hop_limit"]),
       id |-> LastOf(fields, 5, Absent["id"])]

\* ToRadio carries a packet as field 1, FromRadio as field 2; the first one
\* is taken, other fields are skipped
ToRadio(p) == <<[number |-> 1, value |-> EncodePacket(p)]>>
FromRadio(fields) ==
  LET at == {i \in DOMAIN fields : fields[i].number = 2}
  IN  IF at = {} THEN {}
      ELSE {DecodePacket(fields[CHOOSE i \in at : \A j \in at : i <= j].value)}

-----------------------------------------------------------------------------
(* encode_serial_frame, decode_serial_frame                                *)

Start == <<148, 195>>
U16Be(n) == <<(n \div 256) % 256, n % 256>>

EncodeSerial(payload) == Start \o U16Be(Len(payload)) \o payload

SerialVerdict(buf) ==
  IF Len(buf) < 4 THEN "truncated"
  ELSE IF SubSeq(buf, 1, 2) # Start THEN "bad sync"
  ELSE IF Len(buf) < 4 + 256 * buf[3] + buf[4] THEN "truncated" ELSE "ok"

SerialPayload(buf) == SubSeq(buf, 5, 4 + 256 * buf[3] + buf[4])

-----------------------------------------------------------------------------
(* What the codecs must do, of one input each.                             *)

(* A number is read back from its bytes, whatever follows, and no shorter  *)
(* prefix of them is taken for a number.                                   *)
NumberIsReadBack(val) ==
  LET buf == EncodeVarint(val)
  IN  /\ \A rest \in {<<>>, <<0>>, <<Base>>} :
           /\ VarintVerdict(buf \o rest) = "ok"
           /\ DecodeVarint(buf \o rest) = [value |-> val, used |-> Len(buf)]
      /\ \A k \in 0 .. Len(buf) - 1 : VarintVerdict(SubSeq(buf, 1, k)) = "truncated"

(* A number that goes on after n bytes is an overflow, if the word has no  *)
(* bits for more.                                                          *)
LongIsOverflow(n) ==
  VarintVerdict([i \in 1 .. n |-> Base] \o <<1>>) =
    IF n * GroupBits < WordBits THEN "ok" ELSE "overflow"

Packets ==
  [from : {0, 1}, to : {0, 2}, channel : {0, 3}, portnum : {265},
   payload : {<<>>, <<9>>}, hop_limit : {0, 1, 3}, id : {0, 4}]

(* A packet is read back as it was sent, except for a hop limit of zero,   *)
(* the one that no node relays: it is read as three.                       *)
PacketIsReadBack(p) ==
  LET relayed == [p EXCEPT !.hop_limit = IF @ = 0 THEN 3 ELSE @]
  IN  /\ DecodePacket(EncodePacket(p)) = relayed
      /\ \A extra \in {<<>>, <<[number |-> 7, value |-> 0]>>} :
           FromRadio(extra \o <<[number |-> 2, value |-> EncodePacket(p)]>>) = {relayed}
      /\ FromRadio(ToRadio(p)) = {}

(* A stream of two serial frames of n and m bytes falls apart into the     *)
(* frames that were written.                                               *)
StreamIsReadBack(n, m) ==
  LET first == [i \in 1 .. n |-> 148]
      next  == [i \in 1 .. m |-> 195]
      buf   == EncodeSerial(first) \o EncodeSerial(next)
      left  == SubSeq(buf, 5 + n, Len(buf))
  IN  /\ SerialVerdict(buf) = "ok" /\ SerialPayload(buf) = first
      /\ SerialVerdict(left) = "ok" /\ SerialPayload(left) = next
      /\ \A k \in 0 .. n + 3 : SerialVerdict(SubSeq(buf, 1, k)) = "truncated"
=============================================================================
