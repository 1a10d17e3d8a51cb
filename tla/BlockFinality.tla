--------------------------- MODULE BlockFinality ---------------------------
(***************************************************************************)
(* How the validators and observers of a MeshChain network propose, sign,  *)
(* finalize, archive and catch up on blocks: the event loop of             *)
(* crates/node/src/run.rs with the FinalityTracker of consensus.rs and the *)
(* linkage half of ChainState::apply_block (ledger/src/state.rs).          *)
(*                                                                         *)
(* A block is its hash.  The hash fixes the header, so height and parent   *)
(* are constant functions of the block; two blocks that differ in their    *)
(* transactions or in slot_time are two members of Block.  Validators fail *)
(* by stopping and restarting only; a signature is the right to put a pair *)
(* <<block, validator>> in sentAcks.  Messages stay in the sent sets: they *)
(* are received in any order, any number of times, or never.               *)
(***************************************************************************)
EXTENDS Integers, Sequences, FiniteSets

CONSTANTS
  N,            \* validators in genesis, seats 0..N-1
  M,            \* observers (full nodes without a key), N..N+M-1
  Block,        \* block hashes
  Height,       \* Height[b]: header.height
  Prev,         \* Prev[b]: header.prev_hash
  NoBlock,      \* the zero hash
  Restartable,  \* the nodes that may stop and restart
  MaxRestarts,  \* bound: restarts of each of them
  SeenCap,      \* 2000: entries of seen_at_height before it is pruned
  SeenKeep,     \* 500: heights below the tip that pruning keeps
  AckCap        \* 2000: entries of FinalityTracker before it is pruned

Validator == 0 .. N-1
Observer  == N .. N+M-1
Node      == 0 .. N+M-1

ASSUME NetworkAssumption ==
  /\ N \in Nat \ {0} /\ M \in Nat
  /\ Restartable \subseteq Node /\ MaxRestarts \in Nat

ASSUME BlockAssumption ==
  /\ NoBlock \notin Block
  /\ Height \in [Block -> Nat]
  /\ Prev \in [Block -> Block \cup {NoBlock}]

ASSUME CapAssumption == SeenCap \in Nat /\ SeenKeep \in Nat /\ AckCap \in Nat

VARIABLES
  \* memory of the running process
  chain,      \* chain[n]: the applied blocks, height 0 first
  pending,    \* pending[n]: blocks received and not yet applied
  seen,       \* seen[n]: first block seen at each height (seen_at_height)
  acks,       \* acks[n]: the FinalityTracker, a set of <<block, validator>>
  todo,       \* todo[n]: the try_finalize calls of the running handler
  \* files in data_dir
  disk,       \* disk[n]: the chain in chain_state.json
  archive,    \* archive[n]: the blocks in blocks/{height}.json
  \* messages sent so far
  sentBlocks, \* GossipMsg::Block
  sentAcks,   \* GossipMsg::BlockAck
  restarts    \* restarts[n]: restarts so far

memory   == <<pending, seen, acks, todo>>
files    == <<disk, archive>>
messages == <<sentBlocks, sentAcks>>
vars     == <<chain, memory, files, messages, restarts>>

-----------------------------------------------------------------------------
Leader(h) == h % N

\* ceil(2N/3)
ThresholdRoundedDown == (2 * N) \div 3
Threshold == (2 * N + 2) \div 3

Applied(n)  == {chain[n][i] : i \in DOMAIN chain[n]}
Expected(n) == Len(chain[n])
Tip(n)      == IF chain[n] = <<>> THEN NoBlock ELSE chain[n][Len(chain[n])]

AckedBy(A, b)    == {v \in Validator : <<b, v>> \in A}
IsFinalOneShort(A, b) == Cardinality(AckedBy(A, b)) + 1 >= Threshold
IsFinal(A, b)    == Cardinality(AckedBy(A, b)) >= Threshold
Linked(n, b)     == Height[b] = Expected(n) /\ Prev[b] = Tip(n)
ArchivedAlone(a, b) == {b}
Archived(a, b)   == {c \in a : Height[c] # Height[b]} \cup {b}

\* Who signs for n: a validator; an observer has no key.
SignerWithoutCheck(n) == {n}
Signer(n) == {n} \cap Validator

\* Another block was seen first at this height.
ConflictsPending(n, b) == \E c \in pending[n] : Height[c] = Height[b] /\ c # b
Conflicts(n, b) == \E c \in seen[n] : Height[c] = Height[b] /\ c # b

\* The call try_finalize(b) by n with pending blocks P and tracker A, unless
\* it returns at once: b is not final, not pending, or a block of the future.
Try(n, P, A, b) ==
  {c \in {b} \cap P : IsFinal(A, c) /\ Height[c] <= Expected(n)}

\* No handler of n is running: the loop can take the next message.
Idle(n) == todo[n] = {} /\ disk[n] = chain[n]

Init ==
  /\ chain      = [n \in Node |-> <<>>]
  /\ pending    = [n \in Node |-> {}]
  /\ seen       = [n \in Node |-> {}]
  /\ acks       = [n \in Node |-> {}]
  /\ todo       = [n \in Node |-> {}]
  /\ disk       = [n \in Node |-> <<>>]
  /\ archive    = [n \in Node |-> {}]
  /\ sentBlocks = {}
  /\ sentAcks   = {}
  /\ restarts   = [n \in Node |-> 0]

-----------------------------------------------------------------------------
(* on_block: the first block of a height is kept, acknowledged and signed, *)
(* whatever its height; a second one is ignored.  The call to try_finalize *)
(* that ends the handler is left in todo.                                  *)
HandleBlock(n, b) ==
  IF Conflicts(n, b)
  THEN UNCHANGED <<memory, sentAcks>>
  ELSE /\ seen' = [seen EXCEPT ![n] = @ \cup {b}]
       /\ pending' = [pending EXCEPT ![n] = @ \cup ({b} \ Applied(n))]
       /\ acks' = [acks EXCEPT ![n] =
                     @ \cup {<<b, v>> : v \in {Leader(Height[b])} \cup Signer(n)}]
       /\ sentAcks' = sentAcks \cup {<<b, v>> : v \in Signer(n)}
       /\ todo' = [todo EXCEPT ![n] = Try(n, pending'[n], acks'[n], b)]

\* The leader of the next height broadcasts a block and handles it itself.
\* At height 0 this is the genesis seal.
Propose(n, b) ==
  /\ Idle(n) /\ n \in Validator
  /\ Linked(n, b) /\ Leader(Height[b]) = n
  /\ \A c \in pending[n] : Height[c] # Expected(n)
  /\ sentBlocks' = sentBlocks \cup {b}
  /\ HandleBlock(n, b)
  /\ UNCHANGED <<chain, files, restarts>>

OnBlock(n, b) ==
  /\ Idle(n) /\ b \in sentBlocks
  /\ HandleBlock(n, b)
  /\ UNCHANGED <<chain, files, sentBlocks, restarts>>

OnBlockAck(n, b, v) ==
  /\ Idle(n) /\ <<b, v>> \in sentAcks
  /\ acks' = [acks EXCEPT ![n] = @ \cup {<<b, v>>}]
  /\ todo' = [todo EXCEPT ![n] = Try(n, pending[n], acks'[n], b)]
  /\ UNCHANGED <<chain, pending, seen, files, messages, restarts>>

-----------------------------------------------------------------------------
(* try_finalize on a final pending block: apply it and archive it when it  *)
(* is next and links to the tip, drop it otherwise.                        *)
Finalize(n, b) ==
  /\ b \in todo[n] /\ disk[n] = chain[n]
  /\ pending' = [pending EXCEPT ![n] = @ \ {b}]
  /\ IF Linked(n, b)
     THEN /\ chain' = [chain EXCEPT ![n] = Append(@, b)]
          /\ archive' = [archive EXCEPT ![n] = Archived(@, b)]
          /\ UNCHANGED todo
     ELSE /\ todo' = [todo EXCEPT ![n] = @ \ {b}]
          /\ UNCHANGED <<chain, archive>>
  /\ UNCHANGED <<seen, acks, disk, messages, restarts>>

\* The final pending blocks n would finalize next, with tracker A.
NextCandidatesNone(n, A) == {}
NextCandidates(n, A) ==
  {c \in pending[n] : Height[c] = Expected(n) /\ IsFinal(A, c)}

(* save_json.  After try_finalize the tracker forgets the block and the    *)
(* pending blocks of the next height are tried; after a BlocksResponse     *)
(* nothing is.                                                             *)
SaveState(n) ==
  /\ disk[n] # chain[n]
  /\ disk' = [disk EXCEPT ![n] = chain[n]]
  /\ IF todo[n] = {}
     THEN UNCHANGED <<acks, todo>>
     ELSE /\ acks' = [acks EXCEPT ![n] = {a \in @ : a[1] # Tip(n)}]
          /\ todo' = [todo EXCEPT ![n] =
                        (@ \ {Tip(n)}) \cup NextCandidates(n, acks'[n])]
  /\ UNCHANGED <<chain, pending, seen, archive, messages, restarts>>

-----------------------------------------------------------------------------
(* One block of a BlocksResponse, read by m from its archive, is applied   *)
(* by n: no acknowledgement is asked for.  Blocks below the tip are        *)
(* skipped and a gap ends the batch, so only the next block has an effect; *)
(* chain_state.json is saved when the batch ends.                          *)
CatchUp(n, m, b) ==
  /\ todo[n] = {} /\ m # n
  /\ b \in archive[m] /\ Linked(n, b)
  /\ chain' = [chain EXCEPT ![n] = Append(@, b)]
  /\ archive' = [archive EXCEPT ![n] = Archived(@, b)]
  /\ UNCHANGED <<memory, disk, messages, restarts>>

(* accept_sync_snapshot: a chain of k blocks is at height k-1, and so is an *)
(* empty one at height 0; only a greater height is accepted.               *)
AcceptsAnyHeight(n, k) == k >= 2
Accepts(n, k) == k >= 2 /\ k > Expected(n)

(* SyncResponse: an observer replaces its state by one that m had, saves   *)
(* it, and forgets every block in flight.  Validators ignore the message.  *)
AdoptSnapshot(n, m, k) ==
  /\ Idle(n) /\ n \in Observer /\ m # n
  /\ k \in DOMAIN disk[m] /\ Accepts(n, k)
  /\ chain' = [chain EXCEPT ![n] = SubSeq(disk[m], 1, k)]
  /\ disk' = [disk EXCEPT ![n] = chain'[n]]
  /\ pending' = [pending EXCEPT ![n] = {}]
  /\ seen' = [seen EXCEPT ![n] = {}]
  /\ acks' = [acks EXCEPT ![n] = {}]
  /\ UNCHANGED <<todo, archive, messages, restarts>>

-----------------------------------------------------------------------------
\* The lowest height that pruning keeps in seen_at_height.
SeenFloorAtNext(n) == Expected(n)
SeenFloor(n) == Expected(n) - 1 - SeenKeep

\* End of a loop iteration: both maps are cut back when they are too large.
PruneSeen(n) ==
  /\ Idle(n) /\ Cardinality(seen[n]) > SeenCap
  /\ seen' = [seen EXCEPT ![n] = {b \in @ : Height[b] >= SeenFloor(n)}]
  /\ UNCHANGED <<chain, pending, acks, todo, files, messages, restarts>>

\* The tracker drops entries in the order of a hash map: any of them.
PruneAcks(n) ==
  LET entries  == {a[1] : a \in acks[n]}
      overflow == Cardinality(entries) - AckCap \div 2
  IN  /\ Idle(n) /\ Cardinality(entries) > AckCap
      /\ \E D \in SUBSET entries :
           /\ Cardinality(D) = overflow
           /\ acks' = [acks EXCEPT ![n] = {a \in @ : a[1] \notin D}]
      /\ UNCHANGED <<chain, pending, seen, todo, files, messages, restarts>>

(* n stops, at any point of a handler, and starts again from its files:    *)
(* only chain_state.json is read back.                                     *)
Restart(n) ==
  /\ n \in Restartable /\ restarts[n] < MaxRestarts
  /\ restarts' = [restarts EXCEPT ![n] = @ + 1]
  /\ chain' = [chain EXCEPT ![n] = disk[n]]
  /\ pending' = [pending EXCEPT ![n] = {}]
  /\ seen' = [seen EXCEPT ![n] = {}]
  /\ acks' = [acks EXCEPT ![n] = {}]
  /\ todo' = [todo EXCEPT ![n] = {}]
  /\ UNCHANGED <<files, messages>>

\* Blocks and acknowledgements alone.
GossipNext ==
  \E n \in Node :
    \/ \E b \in Block : Propose(n, b)
    \/ \E b \in Block : OnBlock(n, b)
    \/ \E b \in Block, v \in Validator : OnBlockAck(n, b, v)
    \/ \E b \in Block : Finalize(n, b)
    \/ SaveState(n)

Next ==
  \/ GossipNext
  \/ \E n, m \in Node, b \in Block : CatchUp(n, m, b)
  \/ \E n, m \in Node : \E k \in DOMAIN disk[m] : AdoptSnapshot(n, m, k)
  \/ \E n \in Node : PruneSeen(n) \/ PruneAcks(n) \/ Restart(n)

Spec == Init /\ [][Next]_vars

(* A message is eventually received once (read_peer drops the copies) and  *)
(* a running handler runs to its end.  Nothing is assumed of proposals,    *)
(* which need a transaction.                                               *)
Fairness ==
  \A n \in Node :
    /\ \A b \in Block :
         WF_vars(b \notin seen[n] /\ OnBlock(n, b)) /\ WF_vars(Finalize(n, b))
    /\ \A b \in Block, v \in Validator :
         WF_vars(<<b, v>> \notin acks[n] /\ OnBlockAck(n, b, v))
    /\ WF_vars(SaveState(n))

\* A network that never stops and whose nodes do not ask for missed blocks.
GossipSpec == Init /\ [][GossipNext]_vars /\ Fairness

-----------------------------------------------------------------------------
\* Type invariant of the state of the network.
TypeOK ==
  /\ chain \in [Node -> Seq(Block)] /\ disk \in [Node -> Seq(Block)]
  /\ pending \in [Node -> SUBSET Block] /\ seen \in [Node -> SUBSET Block]
  /\ todo \in [Node -> SUBSET Block] /\ archive \in [Node -> SUBSET Block]
  /\ acks \in [Node -> SUBSET (Block \X Validator)]
  /\ sentBlocks \in SUBSET Block
  /\ sentAcks \in SUBSET (Block \X Validator)
  /\ restarts \in [Node -> 0 .. MaxRestarts]

\* The validators that signed b: its producer signs the header.
Signers(b) ==
  AckedBy(sentAcks, b) \cup (IF b \in sentBlocks THEN {Leader(Height[b])} ELSE {})

(* No two nodes finalize different blocks at one height: what try_finalize *)
(* and the unacknowledged BlocksResponse path apply is one chain.          *)
Agreement ==
  \A n, m \in Node : \A i \in DOMAIN chain[n] \cap DOMAIN chain[m] :
    chain[n][i] = chain[m][i]

(* Whatever a node applied, or archived and so serves to nodes that will   *)
(* apply it without asking for acknowledgements, was signed by ceil(2N/3)  *)
(* validators, also after a crash between the archive and the state file.  *)
FinalIsCertified ==
  \A n \in Node : \A b \in Applied(n) \cup archive[n] :
    Cardinality(Signers(b)) >= Threshold

(* A validator that never restarted signs at most one block of a height,   *)
(* as producer and as acknowledger together.                               *)
OneVotePerHeight ==
  \A b, c \in Block : \A v \in Signers(b) \cap Signers(c) :
    Height[b] = Height[c] /\ restarts[v] = 0 => b = c

(* A validator serves every block of the chain it would restart from: its  *)
(* archive has no gap below the height of chain_state.json.                *)
SavedIsServed ==
  \A v \in Validator : \A i \in DOMAIN disk[v] : disk[v][i] \in archive[v]

(* The chain in chain_state.json only grows: no restart, catch-up, late    *)
(* block or adopted snapshot takes a saved block back.                     *)
NeverRewinds ==
  [][\A n \in Node :
       /\ Len(disk'[n]) >= Len(disk[n])
       /\ \A i \in DOMAIN disk[n] : disk'[n][i] = disk[n][i]]_vars

(* The archive is append-only (docs/STATUS.md:51): no file of blocks/ is   *)
(* overwritten by another block, also when a block is applied again after  *)
(* a crash between the archive and the state file.                         *)
ArchiveAppendOnly == [][\A n \in Node : archive[n] \subseteq archive'[n]]_vars

(* run.rs:1151 keeps a final block that came early in pending "for when we *)
(* catch up": between two handlers no node holds a final pending block     *)
(* that is the next one of its chain.                                      *)
NoReadyBlockLeft ==
  \A n \in Node : \A b \in pending[n] :
    Idle(n) /\ IsFinal(acks[n], b) => ~Linked(n, b)

(* With every message delivered, a proposed block is finalized by every    *)
(* node, whatever order blocks and acknowledgements arrive in.             *)
EveryBlockFinal ==
  \A n \in Node, b \in Block : b \in sentBlocks ~> b \in Applied(n)

\* The blocks that carry enough signatures to be final.
Certified == {b \in Block : Cardinality(Signers(b)) >= Threshold}

Log == INSTANCE FinalLog WITH decided <- Certified, view <- chain

(* The whole protocol implements the log of FinalLog: certified blocks     *)
(* form one chain and every node, restarts and catch-up included, holds a  *)
(* prefix of it.                                                           *)
ImplementsFinalLog == Log!Spec

-----------------------------------------------------------------------------
(* What the proofs assume of the constants.                                *)

\* Any two sets of ceil(2N/3) validators share one that never restarts.
RestartBound ==
  2 * Threshold > N + Cardinality(Restartable \cap Validator)

\* The chain is too short for seen_at_height to be pruned.
ShortChain == \A b \in Block : Height[b] < SeenCap

\* Pruning may have dropped what v saw at the height of b.
Forgettable(v, b) == ~ShortChain /\ Height[b] + SeenKeep + 1 < Expected(v)

\* No block comes to a validator so late that it may have signed and forgotten
\* a rival: seen_at_height is kept for the last SeenKeep heights.
Timely == \A v \in Validator, b \in Block : Forgettable(v, b) => ~OnBlock(v, b)

(* The inductive invariant behind Agreement.                               *)

SeenInv ==
  \A n \in Node :
    /\ \A b, c \in seen[n] : Height[b] = Height[c] => b = c
    /\ \A b \in seen[n] : Height[b] >= Expected(n) => b \in pending[n]

SentInv ==
  /\ \A n \in Node : pending[n] \cup todo[n] \subseteq sentBlocks
  /\ \A n \in Node : \A a \in acks[n] : a[2] \in Signers(a[1])
  /\ \A b \in sentBlocks :
       \/ Height[b] = 0 /\ Prev[b] = NoBlock
       \/ Prev[b] \in Certified /\ Height[b] = Height[Prev[b]] + 1

HeldInv ==
  \A n \in Node :
    /\ todo[n] \cup archive[n] \subseteq Certified
    /\ \A b \in todo[n] : Height[b] <= Expected(n)
    /\ \A i \in DOMAIN chain[n] : chain[n][i] \in Certified /\ Height[chain[n][i]] = i - 1
    /\ \A i \in DOMAIN disk[n] : disk[n][i] \in Certified /\ Height[disk[n][i]] = i - 1

VoteInv ==
  /\ \A n \in Node \ Restartable : restarts[n] = 0
  /\ \A v \in Validator, b \in Block :
       restarts[v] = 0 /\ v \in Signers(b) => b \in seen[v] \/ Forgettable(v, b)

(* What needs no assumption: files lag behind memory, and a block is       *)
(* acknowledged only after it was sent.                                    *)
LagInv ==
  /\ \A n \in Node : Len(disk[n]) <= Len(chain[n])
  /\ \A a \in sentAcks : a[1] \in sentBlocks

IInv == TypeOK /\ SeenInv /\ SentInv /\ HeldInv /\ VoteInv /\ OneVotePerHeight

=============================================================================
