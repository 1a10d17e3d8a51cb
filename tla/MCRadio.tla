------------------------------ MODULE MCRadio ------------------------------
(***************************************************************************)
(* The radio: three messages over the air, one of three fragments, one of  *)
(* a single fragment under the same session id, and one of a single        *)
(* fragment under its own; and the codecs of the frames, of the radio's    *)
(* own messages and of the names people type.  A behaviour either uses the *)
(* air or tries a codec on one input.                                      *)
(***************************************************************************)
EXTENDS Fragments, Frames, Proto, MeshNames

CONSTANTS m1, m2, m3

VARIABLE input  \* what a codec is tried on

MCMessage == {m1, m2, m3}
MCTotal   == [m \in MCMessage |-> IF m = m1 THEN 3 ELSE 1]
MCSends   == [m \in MCMessage |-> IF m = m1 THEN 2 ELSE 1]
MCSession == [m \in MCMessage |-> IF m = m3 THEN m3 ELSE m1]

Air == [codec |-> "none"]

FrameInputs == [codec : {"frame"}, version : Versions, type : {"Tx", "Tip", "GossipJson"},
                len : {0, 1, 105, 199, 200}]
LayoutInputs == [codec : {"layout"}, layout : Layout]
TxInputs == [codec : {"tx"}, kind : DOMAIN Body]
TipInputs == [codec : {"tip"}, chain_id : 0 .. 200]
DeflateInputs == [codec : {"deflate"}, deflated : {0, 13, 196, 197, 198},
                  len : {0, 200, 12599, 12600, 12608, 12800, 12801, 65535}]
VarintInputs == [codec : {"varint"}, value : Word]
LongInputs == [codec : {"long"}, bytes : 1 .. WordBits]
PacketInputs == [codec : {"packet"}, packet : Packets]
StreamInputs == [codec : {"stream"}, first : {0, 1, 255, 256, 300},
                 next : {0, 1, 255, 256, 300}]
NameInputs == [codec : {"name"}, id : Id]

Inputs ==
  FrameInputs \cup LayoutInputs \cup TxInputs \cup TipInputs \cup DeflateInputs
    \cup VarintInputs \cup LongInputs \cup PacketInputs \cup StreamInputs \cup NameInputs

MCInit == Init /\ input \in Inputs \cup {Air}
MCNext == input = Air /\ Next /\ UNCHANGED input

MCSpec == MCInit /\ [][MCNext]_<<vars, input>> /\ Fairness

(* What is sent is read back and nothing is read from a part of it: frames *)
(* of both versions and of any length up to 200, the fixed layouts, whose  *)
(* encoders and decoders count their offsets apart, and compressed frames, *)
(* which are made of up to 65535 bytes and read into at most 12800.        *)
FrameReadBack ==
  /\ input.codec = "frame"   => FrameIsReadBack(input.version, input.type, input.len)
  /\ input.codec = "layout"  => LayoutIsReadBack(input.layout)
  /\ input.codec = "deflate" => CompressedIsReadBack(input.len, input.deflated)

(* What fits one packet, and what does not: transactions but for those     *)
(* with a PQ signature, IOUs, balance messages, hints, the compact         *)
(* acknowledgement but not the one in hex, and tips of chain ids of at     *)
(* most 112 bytes.                                                         *)
AirBudget ==
  /\ input.codec = "tx"     => TxOnAir(input.kind)
  /\ input.codec = "layout" => LayoutOnAir(input.layout)
  /\ input.codec = "tip"    => (FitsFrame(TipSize(input.chain_id)) <=> input.chain_id <= 112)

(* A block of one transaction goes over the air whole, as frame.rs:9,      *)
(* docs/AIR_FINALITY.md:18 and docs/MESHTASTIC.md:18 say.                  *)
SingleTxBlocksGoWhole == input.codec = "tx" => BlockWhole(input.kind)

(* The radio's own protocol: varints of any length are read back, or       *)
(* refused when cut or too long; so are mesh packets, but for a hop limit  *)
(* of zero; and serial frames are told apart, also across a length of 256. *)
NativeReadBack ==
  /\ input.codec = "varint" => NumberIsReadBack(input.value)
  /\ input.codec = "long"   => LongIsOverflow(input.bytes)
  /\ input.codec = "packet" => PacketIsReadBack(input.packet)
  /\ input.codec = "stream" => StreamIsReadBack(input.first, input.next)

(* Names are read back as the ids they stand for: the whole name, with     *)
(* lookalikes in it, and without its M where that is not ambiguous.        *)
NameReadBack == input.codec = "name" => NameIsReadBack(input.id)
=============================================================================
