# MeshChain: specifications, checks and proofs

TLA+ models of MeshChain, a small proof-of-authority chain for MESH tokens that
runs over TCP gossip and LoRa radio, with a Solana vault for value in and out.
The models are translated from the sources under `src/`; `PROJECT.json` maps
every definition to the lines it stands for.

## 1. Inventory

| part | sources | state | operations |
|---|---|---|---|
| block finality | `crates/node/src/run.rs`, `consensus.rs`, `sync_validate.rs` | `state` (the chain), `pending`, `seen_at_height`, `FinalityTracker`; files `chain_state.json`, `blocks/{h}.json` | propose, `on_block`, BlockAck, `try_finalize`, BlocksRequest/Response, SyncRequest/Response, pruning, start from files |
| ledger | `crates/ledger/src/state.rs`, `genesis.rs`, `crates/proto/src/tx.rs` | accounts (balance, nonce, bound PQ key), supply, used `external_ref`s, minters | `apply_tx` (Register, Transfer, Mint, Burn), `apply_block`, `can_apply_tx`, save and load |
| mempool | `crates/node/src/mempool.rs` | a queue of transactions | insert, `enforce_limits`, `take_applicable_fee_txs` |
| gossip | `crates/node/src/net.rs` | peers, the `seen` set of message ids, rate counters | accept, dial (30 attempts), broadcast, `read_peer` |
| radio | `crates/transport/src/frag.rs`, `frame.rs`, `net.rs` (MeshRadioHub) | reassembly sessions, cache of sent fragments | fragment, reassemble, NACK, retransmit, prune |
| vault | `programs-mesh-bridge/programs/.../lib.rs` | vault config, attestors, deposits, used burn ids | initialize, set_*, deposit, withdraw_hybrid |
| relayer | `programs-mesh-bridge/scripts/relayer_daemon.ts`, `crates/node/src/main.rs` (mint_for_deposit) | processed set, state file | poll, mint, defer and retry |
| faucet | `services/faucet/faucet_server.py` | ledger file of drips | drip (threads) |
| names, IOUs | `crates/proto/src/address.rs`, `iou.rs` | none | base-32 names and their parser, IOU layouts |
| radio relay | `tools/mesh_radio_relay.py` | seen sets, cached tip and balances | radio to TCP and back |
| tools around | wallet, `mesh`, scanner, firmware, web, scripts | files | single-user or read-only |

**How they interact.** A node is one thread that takes messages from the
gossip hub's channel (and the radio), handles each to its end, and once per
iteration asks for missed blocks, proposes when it leads, and prunes its maps.
`read_peer` threads feed the channel. A transaction enters a mempool, is packed
by the leader of the next height (`height % N`), the block is broadcast, each
validator signs it when it is the first it sees at that height, and every node
applies it when it knows `ceil(2N/3)` signatures, the producer's included. A
node that missed blocks asks for them and applies what comes back without
acknowledgements. Observers also accept whole state snapshots. The relayer
turns vault deposits into Mint transactions and the vault releases funds for
Burns; the faucet mints through a node.

**What is hard, and what makes each part correct.**

* Finality: rival blocks of a height, messages in any order, catch-up next to
  gossip, crashes between `blocks/{h}.json` and `chain_state.json`, maps that
  are pruned, votes kept in memory only. Correct: one chain; nothing applied
  without a quorum; one vote per height; saved blocks are never taken back and
  always served; every proposed block becomes final when messages arrive.
* Ledger: errors after the first assignment, saturating arithmetic, keys bound
  for ever. Correct: nothing is created but by Mint and rewards, a signed
  transaction has its effect at most once, an external reference mints once.
* Mempool: packing on a trial copy. Correct: what the leader packs applies at
  every node; no higher fee is passed over.
* Gossip: ids that never expire, no re-dial. Correct: a request that was not
  heard before is answered and used; no late answer takes a block back.
* Radio: lost fragments, expiry, eviction, and codecs whose two halves count
  their offsets apart. Correct: only whole messages are delivered; the missing
  fragments are asked for until they come; what is sent is read back.
* Vault, relayer, faucet: crashes and retries around one-time effects, a policy
  that changes in between. Correct: a deposit mints at most once and is sent in
  the end; a burn unlocks once; the vault covers every open claim.

## 2. Modules

| module | what it is |
|---|---|
| `BlockFinality` | the network of validators and observers: state, one action per handler or crash, properties, and the inductive invariant |
| `FinalLog` | what finality promises: one growing chain of decided blocks, every node on a prefix of it |
| `MCBlockFinality` | instances for TLC: blocks as records of height, parent and payload |
| `MCObserver` | two families on three nodes with small maps: validators that decide between rivals, and an observer that joins a finished chain |
| `BlockFinalityProofs` | types, agreement, certification, one vote per height; refinement of `FinalLog`; saved chain and archive only grow and are served; no ready block is left |
| `Accounts` | genesis, `apply_tx` and the turns of `apply_block` as operators on a state record; shared by the next two |
| `Ledger` | one node's ledger under any sequence of blocks, one transaction per step, with blocks that fail halfway; properties and inductive invariant |
| `MCLedger` | two decks of transactions: values, and PQ keys |
| `DataProofs` | induction, recursive functions and sums over finite sets, for the proofs about data |
| `AccountsProofs` | lemmas on `apply_tx` and `apply_block`: types, what an effect records, what it does to the total of balances |
| `LedgerProofs` | types, replay, one mint per reference, bound keys, nothing taken back, nothing created |
| `Mempool` | mempools, leaders that pack, ledgers that lag: composes `Accounts` per node |
| `MCMempool` | decks: rival mints, and tips |
| `MempoolProofs` | what is packed applies everywhere, value is conserved, inclusion at most once, greedy packing |
| `GossipSync` | connections, the hub's heard ids, hello, requests and answers: how a node gets blocks it missed |
| `GossipSyncProofs` | types; no chain rewinds |
| `MCGossipSync` | two nodes; a producer that serves an observer |
| `Fragments` | a sender's cache and a receiver's sessions over a lossy radio |
| `Frames`, `Proto`, `MeshNames` | the codecs: frames and fixed layouts, the radio's protobuf, wallet names |
| `Shifts` | powers of two, shifts and masks, for `Proto` and `MeshNames` |
| `MCRadio` | `Fragments` on three messages, two of one session id, and the codecs on inputs around their limits |
| `RadioProofs` | fragments: types, whole payloads only, bounded sessions; every codec is read back |
| `Vault` | the Solana program, one action per instruction |
| `Bridge` | the vault composed with the relayer, the faucet's mint, wallets and a mesh ledger; properties and inductive invariant |
| `MCBridge` | an instance in two families of behaviours |
| `BridgeProofs` | types, unlocks that enough attestors signed need burns, one mint per deposit, the vault's books, the peg |

### BlockFinality

A block is its hash; `Height` and `Prev` are functions of it. A block that
differs in transactions or `slot_time` is another member of `Block`. Ledger
effects are left to the ledger model: two nodes with the same chain have the
same state, so a chain of hashes stands for `ChainState`.

| variable | code |
|---|---|
| `chain[n]` | `state.applied`, `height`, `tip_hash` |
| `pending`, `seen`, `acks` | `pending`, `seen_at_height`, `FinalityTracker` (run.rs 234-245) |
| `todo[n]` | the `try_finalize` calls the running handler has still to make |
| `disk[n]`, `archive[n]` | `chain_state.json`, `blocks/{h}.json` |
| `sentBlocks`, `sentAcks` | every Block and BlockAck ever broadcast |

`HandleBlock` is `on_block`; its call to `try_finalize` stays in `todo`, because
a crash may fall between the signature and the application, between the archive
(`Finalize`) and the state file (`SaveState`), and inside a BlocksResponse batch
(`CatchUp` steps before the `SaveState` that ends it). All other handler bodies
are one step: the node is one thread, and `Idle` is the guard that no handler is
running. Sent messages stay in the sent sets, so they arrive in any order, more
than once, or never; the deduplication and rate limit of `net.rs` only remove
some of these deliveries. `AdoptSnapshot` takes any state that was once saved by
another node. The radio's BlockAir and AirBlockAck paths call the same handlers.

Assumed: validators fail by stopping and restarting only (no forged signatures,
no validator running other code), `save_json` and archive writes succeed or the
node has crashed, and the genesis validator set is the same everywhere.

### Accounts and Ledger

`ApplyTx(st, tx)` is `ChainState::apply_tx`. The code returns at the first
failed check and keeps what it wrote before, so the operator returns a record:
whether the call was `Ok`, and the state it left. That is what makes a failed
transfer to an unknown account keep its debit, a failed mint keep the minter's
nonce, and a failed registration keep a new account. `ApplyTx` starts with
`Tx::verify`; signatures are a Boolean of the envelope, short ids a function
`ShortIdOf` on keys that may collide, u64 and u32 saturate at `MaxU64` and
`MaxNonce`, and amounts are compared as in the code.

`Ledger` runs `apply_block` on it. `StartBlock` is what precedes the loop
(linkage and seat are in `BlockFinality`), `ApplyNext` one turn of it, `FailBlock`
the turn that returns an error, `EndBlock` the reward and the push to `applied`.
Which transactions a block holds is decided as they are reached, so every block
of valid transactions is covered, whoever packed it. The variable `history` is
not in the code: it lists the transactions that took effect, for the properties.

### Mempool

| variable | code |
|---|---|
| `pool[n]` | `Mempool::txs` |
| `ledger[n]`, `done[n]` | `ChainState`, `state.applied.len()` |
| `blocks` | the decided chain, from `BlockFinality` |
| `inbox[n]`, `heard[n]` | Tx messages on their way; the `tx:` ids of the hub's `seen` set |

`Receive` is the Tx (and TxAir) handler behind `read_peer`, `Turn` the end of a
loop iteration: `enforce_limits`, then `take_applicable_fee_txs` and the proposal
when `n` leads the next height. A proposal becomes a decided block at once; each
node applies it later, alone (`ApplyNext`, `try_finalize`) or in a batch
(`CatchUp`, which also cleans the mempool). `Take` follows the packing loop on a
trial copy of the state. Left out: the limit of `seen` (50 000), the radio copy
of what is broadcast, the wallet's choice of node (any), restarts.

### GossipSync

Finality makes the chains of two nodes prefixes of one another, so a chain is
its number of blocks and a file `blocks/{h}.json` is its height.

| variable | code |
|---|---|
| `chain[n]`, `archive[n]` | `state.applied.len()`, the files under `blocks/` |
| `conns`, `dialling[n]` | the hub's `peers`; addresses the dial threads still try |
| `wire[n][m]` | lines that `n` wrote and the reader thread of `m` has not taken |
| `heard[n]` | the hub's `seen` set of ids, shared by all reader threads |

A message is the parts its id is made of, so two requests of one height are the
same message whoever sends them: that is what `net.rs:331-372` makes of them.
`Broadcast` leaves out lines whose id the peer has heard, which its reader would
drop. `Answer` and `Handle` are the Hello, BlocksRequest, BlocksResponse,
SyncRequest and SyncResponse arms of the event loop; which blocks become final
live is left open (`FinalizeLive`). A line over 512 KiB is not written: `Fits`
says of which batches (`LineBlocks`), `FitsState` of which snapshots
(`LineStates`), and an answer that does not fit is no answer. A crash empties
`heard`, loses what is on the wire, and may come in the middle of a batch: block
files are written before `chain_state.json` (run.rs 585-602), so `LeftFiles` are
those of a part of any batch that was on its way, or of the block being finalized,
and the chain is the one saved before. `Break` is a failed write, after which
nobody dials again; `RateLimit` drops a line before its id is kept.

### Fragments

A payload is a sequence of chunks, and a frame carries one of them under the
session id (the first 8 bytes of a hash: payloads may collide), its number and the
number of all. Ages stand for timestamps and stop at `TimeToLive`. `Send` is
`fragment_bytes` and `FragCache::insert`. `HearFrag` is `push_payload`: it drops
expired sessions, may push out the oldest (`Room`), refuses a fragment of another
total but lets it keep the session alive (`SameTotal`, frag.rs 111-114), hands on
what has as many chunks as it should (`IsWhole`, a count and not a comparison of
sets, frag.rs 116), joined in order (`Joined`). `CheckTimeouts` asks for what is
missing and starts the wait anew. A frame on the air is heard once or lost; more
copies come from more sends and more requests. Assumed: two payloads of one
session id differ in their number of fragments, for the assembler has nothing
else to tell them apart by.

### Frames, Proto, MeshNames

Operators, one per encoder and decoder. Offsets, lengths, limits and verdicts
are the code's; contents are symbols, so a field read from the wrong bytes shows
at once. What bincode and deflate produce is only a length: bincode's by its
rules (fixed-width integers, 8 bytes of length before lists), deflate's a
parameter. They go to single bytes because that is where an encoder and its decoder
can disagree; nothing but the radio runs and `RadioProofs` uses them.

### Vault and Bridge

An action of `Vault` is one successful instruction; those that fail change
nothing. The keys that signed a transaction are the parameter `S`, its payer
`r`. u64 arithmetic is checked as in the code, `MaxU64` a constant.

`Bridge` adds the mesh as the other modules describe it: one final ledger
(`mesh`), what is in the mempools of peers and in undecided proposals (`pool`), and
what is on its way to them (`wire`). All of this is in memory: `Lose` takes a
transaction away, to a rate limit, to a full mempool (mempool.rs:57), with a packed
block that never became final (mempool.rs:68) or with the end of a process.

The relayer is a process with a program counter, because its reads of the state
file, the execution of `mint-for-deposit` and the save are apart, and a crash may
fall between any two. `relayer_state.json` is written in place
(relayer_daemon.ts:91) and a file cut short is read as an empty one (82-86), so a
crash leaves the processed set as it was or empties it. `mint-for-deposit` and the
faucet sign with one validator key, at the nonce of a local state file that may lag
behind the mesh (`LocalNonce`, at genesis if there is no file, main.rs 372-385).

Attestors are keys. `Careful` are those who look for a final burn of that amount
and wallet before they sign (`Attested`, external; lib.rs:116 says that attestors
"attest mesh Burn finality"). The signing code of the repository
(`scripts/e2e_cashout.ts` 71-106, `scripts/e2e_hybrid_roundtrip.sh` 290-317) signs
with every key and looks at nothing: for it `Careful` is empty, and `UnlockIsBurned`
promises nothing. What the program adds is the counting: how many distinct
attestors signed, whatever the list repeats and however the policy changed. So the
property is of unlocks that more attestors signed than there are careless ones, and
`attested` in the withdraw record is how many did.

`Donate` is value that reaches the vault outside the program, or through an unlock
whose destination is the vault (lib.rs 318-319).


## 3. Runs

Bounds of `BlockFinality`: `MaxRestarts` restarts per node of `Restartable`;
`TopHeight` the largest height; `Variant` the payloads, so each height has
`|Variant|` rival children per parent. `SeenCap`, `SeenKeep` and `AckCap` stand
for 2000, 500 and 2000. `CHECK_DEADLOCK FALSE` everywhere: inputs are finite in
number, so an instance ends when all are used up; the code has no terminal state.

| run | instance | shows |
|---|---|---|
| `finality_restart` | 4 validators, 1 height, 2 rivals, leader crashes once | Agreement, OneVotePerHeight, FinalIsCertified |
| `finality_observer` | 2 validators, 1 observer, maps of 1 entry, 3 heights, one crash each, timely blocks | TypeOK, SavedIsServed, Agreement under pruning, NeverRewinds, ImplementsFinalLog, ArchiveAppendOnly |
| `finality_gossip` | 2 validators, 3 heights, no crash, no catch-up, fair delivery | NoReadyBlockLeft, EveryBlockFinal |
| `fork_after_restart` | 3 validators, leader restarts | violated: Agreement |
| `ledger` | 4 keys, 14 transactions of value or 24 with 2 PQ keys, blocks of up to 2, nonces to 2 | TypeOK, NothingCreated, OneTxPerNonce, OneMintPerRef, BoundKeyHolds, LedgerGrows |
| `mempool` | 2 validators, 4 rival transactions in pools of 2, or 2 tips under fair delivery; 4 blocks | TypeOK, BlocksApply, SupplyIsBalances, TakeIsGreedy, EverywhereIsSettled |
| `bridge` | 2 deposits, 2 wallets, 2 amounts, SOL and a token, a careful attestor and a careless one, a drip, one lost transaction or one crash of the daemon | TypeOK, Solvent, WithinNet, UnlockIsBurned, DepositMintedOnce, PegHolds, DepositIsSent |
| `deposit_lost` | 2 deposits of one wallet | violated: ProcessedIsMinted |
| `gossip_sync` | producer and observer, 2 blocks of which one fits a line, a crash, a broken connection, a dropped line | TypeOK, UnheardIsServed, NeverRewinds |
| `laggard` | 2 producers, 2 blocks, no fault | violated: LaggardsCatchUp |
| `radio` | messages of 3 fragments and of 1 with the same session id, another of 1, one session, 1 number in a request; codec inputs | TypeOK, DeliveredIsWhole, SessionsBounded, HeardIsCompleted, FrameReadBack, AirBudget, NativeReadBack, NameReadBack |
| `block_on_air` | the four kinds of transaction | violated: SingleTxBlocksGoWhole |

Why these bounds are enough for what they ask:

* Finality. `finality_restart` has no observer and maps that never fill:
  `CrashNext` is what is left of `Next` there. Four is the least number of
  validators at which `ceil(2N/3)` leaves a node out and still tolerates one
  that restarts; a fork needs two rivals of one height; pruning needs a map
  larger than its cap, hence three heights; the retry of a successor needs three
  heights to happen twice. `View` drops what a node remembers of heights below
  its tip, which no guard of those runs can read. Symmetry permutes payloads. In
  `finality_observer` the observer stays away while validators decide between
  rivals, and comes to a finished chain of one payload: all that the validators
  could still send then was sent before.
* Ledger. Two mints of one reference by two minters, a transfer and a mint to the
  same unknown account, and a burn after each are what the properties tell apart;
  `MaxHistory` = 12 is above what the deck of values can apply, `ColdHistory` = 4
  takes the deck of keys past the last nonce. Balances do not saturate in the run;
  that is left to the proof.
* Mempool. A pool of two is full, and four blocks let a node be two behind; sums
  are exact because amounts stay far below `MaxU64`. `MaxTxs` stands for 16,
  `MaxPool` for 256.
* Bridge. Two deposits can share a poll and a nonce; two unlocks can share a
  burn, a deposit, or an attestor; amounts 4 and 12 at a fee of a quarter give
  every combination of "fits the claim" and "fits the gross amount". `MaxU64` is
  small enough that fee arithmetic meets it. One careless attestor makes both
  cases of `UnlockIsBurned`: two signers prove a burn, one does not, and a list
  that names one twice must not make two of it. The family "relay" fixes the
  policy and leaves the order of relayer, faucet, losses and wallets open; one
  loss or one crash shows each of them, the proofs have any number. "unlock"
  leaves the daemon out and takes every order of the authority's instructions.
* Gossip. Two nodes are enough for an id to be heard before it can be answered.
  With `MaxBatch` 2 and `LineBlocks` 1 the answer to a node that misses both
  blocks does not fit and that to a node that misses one does; the state at height
  1 fits. Block files are the producer's first (`Ahead`): a file of a block that
  the producer holds only in memory is left to `finality_observer`.
* Radio. Three fragments make a session with two missing, which one request
  cannot name, and with one missing, which it can; the message of the same session
  id makes a mismatch of totals; one session makes messages push each other out;
  three frames are on the air at a time (`MaxAir`); `TimeToLive` 2 and
  `NackTimeout` 1 put requests before expiry and after. Varints are checked for
  all values of 7 bits in groups of 2, names for all ids of 14 bits in 3
  characters: the operators are the same for 64 bits in groups of 7 and 13
  characters.

**Fairness.** `BlockFinality` (`finality_gossip` only): weak fairness of receiving
what was sent once and of running a handler to its end: the loop drains its
channel every iteration and a handler has no wait in it. Proposals are not
assumed fair: they need a transaction. `Mempool`: what was sent is received, the
loop comes round, and a decided block is applied (`EveryBlockFinal`); `CatchUp`
and wallets owe nothing. `Bridge`: the daemon polls for ever and its commands
end; strong fairness of `SendMint` says that the peer can be reached again and
again. `GossipSync`: the timers of the loop, the reader threads and the dial
threads; nothing restarts a process or ends a connection. `Fragments`: the clock
runs and timeouts are asked for; strong fairness of hearing a frame says that one
which is sent again and again gets through.

### Findings

1. `fork_after_restart`: `seen_at_height` is not saved. A leader that restarts
   after its proposal was acknowledged, and before it saved the block, proposes
   another block at the same height. With N = 3 the threshold is 2, and both
   blocks reach it. `docs/SECURITY_HARDENING.md:28` claims "No double-spend |
   per-account nonces + finality". With N = 4 and one restarting validator
   agreement holds, and the proof says when: any two quorums must share a
   validator that never restarts, `2 * ceil(2N/3) > N + restarting`.
2. `deposit_lost`: the daemon records a deposit as processed once its mint is
   sent. Mints of one poll carry one nonce, the ledger takes one of them, and the
   other deposit is never looked at again, although `relayer_daemon.ts:318` says
   "Always rescan [0, depositCount) for anything not yet minted." A faucet drip
   has the same effect, and so has whatever makes the peers lose a mint that was
  sent (`Lose`): nobody looks at a recorded deposit again. What holds through all
  of it is `DepositMintedOnce` and `PegHolds`: a deposit may go unminted, but none
  is minted twice, and what
  circulates is covered as long as every unlock was vouched for.
3. `laggard`: the id of a BlocksRequest is its height (`net.rs:343-347`), and the
   reader drops an id it has heard (`net.rs:369`). An idle node asks every 15 s for
   the block that does not exist yet, which uses the id up; if the block then
   reaches only its peer, asking again is of no use. `run.rs:839` says "Periodic
   catch-up for lagging producers and observers." `UnheardIsServed` says what does
   hold.
4. `block_on_air`: `block_fits_air` (frame.rs:277) wants a block of at most 200
   bytes, and the smallest one with a transaction takes 308, so `encode_block_for_air`
   always sends a hint, which the node's radio handler ignores (run.rs:817).
   `frame.rs:9`, `docs/AIR_FINALITY.md:18` and `docs/MESHTASTIC.md:18,66,124` say
   that blocks of one transaction go over the air whole. `NoBlockGoesWhole` proves
   it of every transaction.

Disagreements of smaller weight, met while modelling:

* A BlocksResponse applies the blocks that fill a gap but never tries the pending
  blocks above it, although `try_finalize` keeps them "for when we catch up"
  (run.rs:1151); `NoReadyBlockLeft` therefore is a property of gossip alone.
* `seen_at_height` forgets the heights more than 500 below the tip (run.rs:953,
  "Bound finality + equivocation maps"), but `on_block` still signs blocks of those
  heights. Without `Timely`, TLC finds two nodes that finalize different blocks of a
  height although `RestartBound` holds: the leader restarts after its first
  proposal and proposes a rival, which reaches the others only after they pruned
  that height, and a new observer hears the rival and its signatures first.
* A transaction is judged once, when it is heard; a leader that has not applied
  the payer's previous block drops the next payment for good, though
  `docs/MESHTASTIC.md:41` has "mempool → leader includes → finality".
* A FragNack with more than 95 numbers does not fit a packet and is dropped after
  the wait was started again (net.rs:457); the session then never expires.
* `address.rs:54` says names parse "with or without dashes / leading M"; one
  without it is refused when its body begins with M, which is then taken for the
  leading one (`SecondMIsStripped`; one name in 32). `NameReadBack` is of the others.
* The message types 15 and 16 of IOUs are unknown to `MsgType::from_u8`;
  `encode_compressed` takes 65535 bytes, `decode_compressed` gives 12800; a hop
  limit of 0 is read as 3.
* `lib.rs:116` says that attestors "attest mesh Burn finality". The program cannot
  know, and the scripts that sign do not look (section 2, Vault and Bridge).
* `set_hybrid` does not look at the number of attestors registered, and
  `withdraw_hybrid_sol` not at the asset of the deposit: `Solvent` is stated for
  behaviours without such an unlock.


## 4. Proofs

### Finality

All for every `N`, `M`, `Block`, and every value of the bounds.

* `TypeCorrect`: `Spec => []TypeOK`, no assumption beyond the constants' types.
* `NoFork`, `FinalCertified`, `OneVote`: `[]Agreement`, `[]FinalIsCertified`,
  `[]OneVotePerHeight`, of `Spec /\ [][Timely]_vars` and assuming `RestartBound`
  (above). `ThirdSuffices`: `RestartBound` holds when fewer than N/3 validators
  restart.
* `LogRefinement`: `ImplementsFinalLog`; `SavedOnlyGrows` and `ArchiveOnlyGrows`:
  `NeverRewinds` and `ArchiveAppendOnly`. Same assumptions.
* `Timely` restricts what the network may deliver: no validator receives a block
  more than `SeenKeep` (500) heights below its tip. `seen_at_height` is cut back
  to those heights once it has 2000 entries, and `on_block` signs a block of any
  height, so a rival that comes later than that is signed a second time (section
  3, last list). While the chain is too short to be pruned (`ShortChain`)
  `Timely` asks for nothing.
* `ServesWhatItSaved`: `Spec => []SavedIsServed`, with no assumption on quorums,
  restarts or pruning. `ServedInv` adds that every block of a chain has the height
  of its place: a validator then archives a block only over itself.
* `ReadyIsFinalized`: `GossipSpec => []NoReadyBlockLeft`. `GossipSpec` has no
  catch-up and no crash, because with them the code does leave a ready block
  behind (section 3). `ReadyInv` follows the calls of `try_finalize` still in
  `todo`: a final pending block that is next is among them, or a block below it
  is applied and unsaved, and the handler that saves it looks for successors.

The inductive invariant `IInv` says: the first block seen of a height is unique
and stays pending until applied (`SeenInv`); a tracker holds real signatures and
a sent block is a child of a certified one (`SentInv`); chains, files, archive
and blocks about to be applied are certified and in order of height (`HeldInv`);
a validator that has not restarted remembers everything it signed, but for the
heights that pruning may have dropped (`VoteInv`), and signed one block of a
height (`OneVotePerHeight`). Agreement follows because two certified blocks of a
height share a signer that never restarted. `VoteInv` is needed because the
tracker alone says nothing of what a signer will sign next, and the conjunct of
`HeldInv` on `todo` because a crash separates certification from application. TLC
checked `IInv` on four instances before the proof, that of `finality_observer`,
whose maps are pruned, among them.

### Ledger

For every key set, genesis, deck `Sent`, width, threshold and reward:
`TypeCorrect`, `ReplayRefused`, `MintOnce`, `ColdKeyHolds`, `NothingTakenBack`,
from the assumptions on the constants alone (`LedgerProofs`). None of the
properties is inductive: that two effects differ in their nonces says nothing of
the account's nonce now. `IInv` adds, for every transaction of `history`, what
its effect left in the state (`Recorded`): its nonce is below the account's, or is
the last one; its reference is in `refs`; its PQ key, if it was large, is the
account's. `Grows` says that no step takes these back, and every outcome of
`apply_tx`, failed ones included, is shown `Good`: typed, grown, and recorded when
it succeeded (`ApplyTxGood`, one lemma per kind of transaction). A new effect
then differs from all earlier ones, because `CanPay`, `FreshRef` and `PqPasses`
refuse what is recorded.

`ValueIsCovered`: `Spec /\ [](ledger.supply < MaxU64) => []NothingCreated`, in the
middle of blocks and after blocks that failed halfway. The condition is what the
code needs: a supply that saturates stops counting while balances still grow.
Each kind of transaction has a lemma on the total of balances in `AccountsProofs`;
a debit that stays after an error only lowers it, which is why accounts hold at
most, and not exactly, the supply here.

**Induction over data.** The library's induction rules take an operator as a
parameter, which the provers cannot instantiate. `DataProofs` states induction for
*sets* instead (`NatSetInduction`, `IntervalInduction`, `SubsetInduction`): the
set of the numbers, or of the subsets, for which the claim holds is named by
the proof that uses them, and has no least element outside it. From these follow
that a recursive function on 0..n has the values its body gives it
(`RecursionExists`) and that `SumFunction` follows the change of one element
(`SumSplits`, `SumChanges`). So the models write the loops of `apply_block` and
`take_applicable_fee_txs` as recursive functions of the turn.

### Mempool

For any nodes, deck, limits and genesis (`MempoolProofs`). The invariant `MInv`
says of the decided blocks alone that each succeeds on the state the blocks before
it leave (`Sound`), and of a node that its ledger is that state after `done[n]`
blocks, `Chain(blocks)[done[n]]`. A late node, and one that catches up in a batch,
is then at an earlier state of the same sequence, and what was packed on a trial
copy at one node succeeds at all. `BlocksSucceed` is `[]MInv`.

* `NoHalfBlocks`: `Spec => []BlocksApply`. The trial copy and `apply_block` run the
  same `ApplyTx`, but `apply_block` also pays the reward (`TurnsExact`).
* `ValueIsConserved`: balances add up to the supply at every node, exactly, since
  no block fails (`SupplyIsBalances`). Assumed: `BelowLimit`, no supply on the way
  reaches `MaxU64`.
* `IncludedOnce`: `[]TypeOK`, which holds that no transaction is in two blocks.
  Assumed: no transaction has the last nonce, after which `NextNonce` stays where
  it is and the transaction would apply again. Otherwise its
  nonce is spent in every later state (`ChainRecords`).
* `PackingIsGreedy`: `[]TakeIsGreedy`: each pick pays the most of what applies when
  it is picked, packing ends only when the block is full or nothing applies, and
  what stays in the mempool is exactly what was not picked and applies before the
  picks or after them (mempool.rs 94-96).

### Bridge

For any keys, wallets, bounds, losses, careless attestors and lists of attestors,
from the assumptions on the constants alone (`BridgeProofs`): `TypeCorrect`,
`UnlockNeedsBurn` (`[]UnlockIsBurned`) and `MintOnce` (`[]DepositMintedOnce`). The
inductive invariant has five parts. `VaultInv`: only witnesses are attestors, so
that more signers than there are careless ones include a careful one, and no two
records have one burn. `RelayerInv`: the deposit the relayer is at exists, because
deposits are never removed. `MintInv`: every mint of a deposit that is final, in a
mempool or on its way was signed from its record, and no two final ones share a
reference; without the part on those that are not final yet it says nothing of the
next block. `TypeOK` and `UnlockIsBurned` close it: that `mesh.burns` only grows
keeps an old unlock covered.

* `ClaimsAccounted` (`[]WithinNet`) and `VaultIsSolvent` (`[]Solvent`). `BooksInv`
  adds that the set of unlocks is finite, without which its sums mean nothing;
  every instruction changes one summand on each side of the books (`SumChanges`).
  The vault may hold more than the books say (`Donate`), never less.
* `Pegged` (`[]PegHolds`): as long as every unlock was vouched for, what circulates
  on the mesh is at most the open claims and the drips. `PegInv` has the two
  balances behind it: every coin was minted for a deposit or dripped, and what
  circulates no more was burned (`CoinsInv`); what was locked is open or paid
  (`ClaimsInv`). What was paid is at most what was burned, because an unlock is of a
  burn and no two are of one; what was minted is at most what was locked. Lost
  mints only make the difference larger.

TLC checked `BooksInv` and `PegInv` on the instance of `bridge` before the proofs.

### Gossip

For any producers, observers, bootstrap peers, batch sizes and numbers of faults,
from the types of the constants alone (`GossipSyncProofs`): `TypeCorrect` and
`ChainsOnlyGrow` (`NeverRewinds`). Both need only `TypeOK`, because `Applied` and
`Adopted` compare a message with the chain as it is when the message is handled,
not when it was asked for. The types are not free, though: that a batch ends
within the chain (`BlocksFromAreMsgs`) counts the files `Served` finds, and a line
beyond it would make `Handle` invent blocks.

### Fragments

For any set of messages, any number of fragments and all limits and time-outs,
from the types of the constants alone (`RadioProofs`): `TypeCorrect`,
`WholeOnly` (`[]DeliveredIsWhole`) and `BoundedSessions` (`[]SessionsBounded`).
What is handed on is whatever the assembler joins when a session has as many chunks
as its first header said; that this is a payload and not a mixture has to be shown.
`HalfInv` says that every half assembled session is a part of one payload that was
sent: a fragment of another payload with the same session id has another total
and is refused (`SameTotal`), and without that check the claim is false.
`WholeIsPayload` turns a full count into the payload: a subset of `1 .. n` with n
members is all of it. `SentInv` follows a message from the cache to the air.
`FiniteInv` is there because `Cardinality` means nothing of an infinite set, and
`Message` may be infinite; with it, `RoomIsBounded` shows that an eviction before an
insertion keeps the limit. Two lemmas carry most steps: `ReceiverKept` for those of
the sender, `SenderKept` for those of the receiver.

### Codecs

The runs try each codec on chosen inputs; `RadioProofs` shows for all of them what
the runs check of these few: `FramesAreReadBack` (any payload that fits, any type,
both versions), `LayoutsAreReadBack`, `NumbersAreReadBack` and `LongIsRefused` (any
number of a word, any width of group and word), `PacketsAreReadBack` (any mesh
packet), `StreamsAreReadBack` (any two frames that may be written),
`NamesAreReadBack` (any id, any length of name), `CompressedAreReadBack`,
`TransactionsOnAir`, `LayoutsOnAir`, `NoBlockGoesWhole` (no block of any one
transaction fits a packet) and `SecondMIsStripped` (an id whose name goes on with M
after its M is refused without it). What a run tries is one of these
inputs (`InputsAreCovered`) and nothing changes it (`InputStays`): so
`FramesReadBack`, `AirIsBudgeted`, `NativeIsReadBack` and `NameIsRead` prove
`FrameReadBack`, `AirBudget`, `NativeReadBack` and `NameReadBack` of `MCSpec`.

The argument is arithmetic on positions. `Joins` says of two sequences put
together where the elements of each one are, `PartIs` that a part with the right
elements at the right place is what was put there, `CutOff` what a prefix has; with
them each codec is a header whose bytes are known (`HeaderBytes`, `SerialHeader`),
a verdict that follows from the length and these bytes alone, and a payload that is
cut out. For the layouts one recursion over the fields shows that each is where the
decoder's offsets look for it (`FieldsInPlace`), and a finite check that these are
the sums of the widths (`LayoutsAreCutAsWritten`). Varints and names go through
`ShrLow` and `ShrTwice`: a number is its groups of bits put together again
(`ResultOfNumber`, `BitsOfName`). `Pow2` is a recursive function on all numbers
for this reason, whose values `Pow2Unfolds` gives.

The hypotheses are the encoders' own: `encode_serial_frame` refuses what is longer
than two bytes can say (`MaxU16`), `encode_frame` what is longer than `MaxPayload`;
without them the length in the header wraps and the claims are false.

### What is only model-checked

* Liveness (`EveryBlockFinal`, `EverywhereIsSettled`, `DepositIsSent`,
  `UnheardIsServed`, `HeardIsCompleted`), which is out of the prover's reach.

## 5. Not modelled, and why

* The set of heard ids is forgotten above 50 000 entries, and `processedSeqs`
  above 10 000: both bounds are far beyond an instance; forgetting a processed
  deposit leads to a mint that `FreshRef` refuses.
* The node's radio handlers that re-encode gossip for the air (run.rs 647-820)
  call the handlers modelled in `BlockFinality` and `Mempool`; the hub behind them
  (`MeshRadioHub`) is modelled in `Fragments` although the node does not yet
  construct it. `meshtastic.rs` drives a child process and a serial device, and
  `sim.rs` is a test radio.
* The faucet's own file (caps per visitor and per day, captcha): Python threads
  over one JSON file that limit what a visitor gets and do not reach the chain.
* `mint-for-deposit` and `burn-for-withdraw` without a peer: a laboratory mode that
  writes the state file of a stopped node.
* The radio relay script, wallet and command line, scanner, web wallet and
  scripts: single-user or read-only programs without shared state; the firmware
  module, whose callbacks are not in the repository.
* Cryptography: signatures are the right to send, hashes are injective unless a
  property is about short ids.
