------------------------------- MODULE Frames -------------------------------
(***************************************************************************)
(* The frames of one LoRa packet: crates/transport/src/frame.rs, the fixed *)
(* layouts of the balance messages and of the compact acknowledgement, and *)
(* the IOU of crates/proto/src/iou.rs.                                     *)
(*                                                                         *)
(* A frame is a sequence of bytes.  The contents of a payload are left     *)
(* abstract: a value of a field is a sequence of as many symbols as it has *)
(* bytes, and a payload encoded by bincode or deflate is its length.       *)
(***************************************************************************)
EXTENDS Integers, SequencesExt

MaxPayload   == 200
Magic        == <<77, 67>>
DefaultHops  == 3
Versions     == {1, 2}

Code ==
  [Tx |-> 1, Block |-> 2, BlockAck |-> 3, SyncReq |-> 4, SyncResp |-> 5,
   Frag |-> 6, Tip |-> 7, BlockHint |-> 8, FragNack |-> 9, Control |-> 10,
   Compressed |-> 11, BalQuery |-> 12, BalReply |-> 13, AirBlockAck |-> 14,
   GossipJson |-> 20]
MsgType == DOMAIN Code

-----------------------------------------------------------------------------
(* Framing.  Version 2 carries a hop limit, version 1 does not.            *)

FitsWithHeader(n) == n + 6 <= MaxPayload
FitsFrame(n) == n <= MaxPayload

U16(n) == <<n % 256, (n \div 256) % 256>>

\* encode_frame and encode_frame_with_hops, of a payload that fits
Encoded(version, type, hops, payload) ==
  Magic \o <<version, Code[type]>> \o (IF version = 2 THEN <<hops>> ELSE <<>>)
    \o U16(Len(payload)) \o payload

Header(version) == IF version = 2 THEN 7 ELSE 6
LengthAtV1(data) == data[5] + 256 * data[6]
LengthAt(data) ==
  LET h == Header(data[3]) IN data[h - 1] + 256 * data[h]

(* decode_frame checks in this order.                                      *)
Verdict(data) ==
  IF Len(data) < 6 THEN "truncated"
  ELSE IF SubSeq(data, 1, 2) # Magic THEN "bad magic"
  ELSE IF data[3] \notin Versions THEN "bad version"
  ELSE IF Len(data) < Header(data[3]) THEN "truncated"
  ELSE IF \A t \in MsgType : Code[t] # data[4] THEN "unknown type"
  ELSE IF Len(data) < Header(data[3]) + LengthAt(data) THEN "truncated"
  ELSE "ok"

Decoded(data) ==
  LET h == Header(data[3])
  IN  [type    |-> CHOOSE t \in MsgType : Code[t] = data[4],
       payload |-> SubSeq(data, h + 1, h + LengthAt(data)),
       hops    |-> IF data[3] = 2 THEN data[5] ELSE DefaultHops]

-----------------------------------------------------------------------------
(* Fixed layouts: the encoder writes the fields in an order, the decoder   *)
(* cuts them out by position.                                              *)

Width ==
  [height |-> 8, block_hash |-> 32, validator_index |-> 1, signature |-> 64,
   short_id |-> 8, req_id |-> 4, balance |-> 8, nonce |-> 8, found |-> 1,
   version |-> 1, from |-> 8, dest |-> 32, amount |-> 8, nonce32 |-> 4,
   expiry_unix |-> 4, deposit_seq |-> 8, iou_id |-> 16, witness_index |-> 1]

Written ==
  [AirBlockAck |-> <<"height", "block_hash", "validator_index", "signature">>,
   BalQuery    |-> <<"short_id", "req_id">>,
   BalReply    |-> <<"short_id", "req_id", "balance", "nonce", "height", "found">>,
   AirIou      |-> <<"version", "from", "dest", "amount", "nonce32",
                     "expiry_unix", "deposit_seq", "signature">>,
   AirIouAck   |-> <<"version", "iou_id", "witness_index", "signature">>]

CutAck == [height |-> <<0, 8>>, block_hash |-> <<8, 40>>,
           validator_index |-> <<40, 41>>, signature |-> <<41, 105>>]
CutQuery == [short_id |-> <<0, 8>>, req_id |-> <<8, 12>>]
CutReply == [short_id |-> <<0, 8>>, req_id |-> <<8, 12>>, balance |-> <<12, 20>>,
             nonce |-> <<20, 28>>, height |-> <<28, 36>>, found |-> <<36, 37>>]
CutIou == [version |-> <<0, 1>>, from |-> <<1, 9>>, dest |-> <<9, 41>>,
           amount |-> <<41, 49>>, nonce32 |-> <<49, 53>>, expiry_unix |-> <<53, 57>>,
           deposit_seq |-> <<57, 65>>, signature |-> <<65, 129>>]
CutIouAck == [version |-> <<0, 1>>, iou_id |-> <<1, 17>>,
              witness_index |-> <<17, 18>>, signature |-> <<18, 82>>]
Cut == [AirBlockAck |-> CutAck, BalQuery |-> CutQuery, BalReply |-> CutReply,
        AirIou |-> CutIou, AirIouAck |-> CutIouAck]

Layout == DOMAIN Written

Write(l, m) ==
  LET out[i \in 0 .. Len(Written[l])] ==
        IF i = 0 THEN <<>> ELSE out[i - 1] \o m[Written[l][i]]
  IN  out[Len(Written[l])]
Read(l, data) ==
  [f \in DOMAIN Cut[l] |-> SubSeq(data, Cut[l][f][1] + 1, Cut[l][f][2])]

\* The symbol that stands for AIR_IOU_VERSION
IouVersion == <<"version", 1>>

\* The length the decoder asks for; the IOUs take no longer payload, and
\* only one of their version
Size == [AirBlockAck |-> 105, BalQuery |-> 12, BalReply |-> 37,
         AirIou |-> 129, AirIouAck |-> 82]
Accepts(l, data) ==
  IF l \in {"AirIou", "AirIouAck"} THEN Len(data) = Size[l] /\ data[1] = IouVersion
  ELSE Len(data) >= Size[l]

-----------------------------------------------------------------------------
(* Sizes of what bincode encodes: integers of fixed width, eight bytes of  *)
(* length before a list or a string, four of tag before a variant, one     *)
(* before an option.                                                       *)

Body == [Transfer |-> 40, Register |-> 40, Mint |-> 41, MintWithKey |-> 73, Burn |-> 60]
PqPart == (8 + 1952) + (8 + 3309)

TxSize(kind, pq) == Body[kind] + 64 + 32 + 1 + 1 + (IF pq THEN PqPart ELSE 0)

BlockHeader == 8 + 32 + 8 + 1 + 32 + 1 + 16
BlockSize(txs) ==
  LET size[i \in 0 .. Len(txs)] ==
        IF i = 0 THEN BlockHeader + 64 + 8 ELSE size[i - 1] + txs[i]
  IN  size[Len(txs)]

TipSize(chainId) == (8 + chainId) + 8 + (8 + 64)
HintSize == 8 + (8 + 64) + 1 + 1
FatAckSize == 8 + (8 + 64) + (8 + 64) + (8 + 128)

AirMaxTxs == 1

\* block_fits_air, of a block with transactions of these sizes
BlockFitsAir(txs) == Len(txs) <= AirMaxTxs /\ FitsFrame(BlockSize(txs))

\* What encode_block_for_air sends
BlockOnAir(txs) == IF BlockFitsAir(txs) THEN "Block" ELSE "BlockHint"

-----------------------------------------------------------------------------
(* Compressed frames: a byte of type, two of length, and what deflate made *)
(* of a payload of n bytes, z bytes.                                       *)

Compressible(n, z) == n <= 65535 /\ FitsFrame(3 + z)
Decompressible(n) == n <= 64 * MaxPayload

-----------------------------------------------------------------------------
(* What the codecs must do, of one input each.                             *)

Bytes(n) == [i \in 1 .. n |-> (7 * i) % 256]

(* A payload of n bytes comes back with its type and its hop limit,        *)
(* whatever follows it; a frame cut short is never taken for a shorter     *)
(* one.                                                                    *)
FrameIsReadBack(v, t, n) ==
  LET hops == IF v = 2 THEN 7 ELSE DefaultHops
      data == Encoded(v, t, hops, Bytes(n))
  IN  /\ \A rest \in {<<>>, <<0>>, Magic} :
           /\ Verdict(data \o rest) = "ok"
           /\ Decoded(data \o rest) = [type |-> t, payload |-> Bytes(n), hops |-> hops]
      /\ \A k \in 0 .. Len(data) - 1 : Verdict(SubSeq(data, 1, k)) = "truncated"

\* A message whose symbols are all different, one of which is IouVersion
Symbols(l) == [f \in DOMAIN Cut[l] |-> [j \in 1 .. Width[f] |-> <<f, j>>]]

(* Each byte of a fixed layout is read back into the field it was written  *)
(* from, and the decoder takes what was written for a message of its kind. *)
LayoutIsReadBack(l) ==
  LET data == Write(l, Symbols(l))
  IN  Read(l, data) = Symbols(l) /\ Len(data) = Size[l] /\ Accepts(l, data)

(* Without a PQ signature a transaction fits a packet, with one it does    *)
(* not and goes in fragments.                                              *)
TxOnAir(k) == FitsFrame(TxSize(k, FALSE)) /\ ~FitsFrame(TxSize(k, TRUE))

(* The compact acknowledgement, the balance messages and the IOUs fit, and *)
(* so do a hint and an empty block; the acknowledgement in hex does not.   *)
LayoutOnAir(l) ==
  /\ FitsFrame(Size[l]) /\ FitsFrame(HintSize) /\ ~FitsFrame(FatAckSize)
  /\ BlockOnAir(<<>>) = "Block"

(* A block of one transaction goes over the air whole.                     *)
BlockWhole(k) == BlockOnAir(<<TxSize(k, FALSE)>>) = "Block"

(* A payload of n bytes that deflate makes z of, to no less than 1/64, is  *)
(* read whenever it can be sent.                                           *)
CompressedIsReadBack(n, z) ==
  Compressible(n, z) /\ n <= 64 * z => Decompressible(n)
=============================================================================
