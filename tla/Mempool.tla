------------------------------ MODULE Mempool ------------------------------
(***************************************************************************)
(* Transactions on their way into blocks: the mempools of the validators   *)
(* (crates/node/src/mempool.rs), the Tx handler and the proposing end of   *)
(* the loop in crates/node/src/run.rs, and the ledgers that the blocks     *)
(* change.                                                                 *)
(*                                                                         *)
(* What happens between a proposal and the decision is left to             *)
(* BlockFinality: a proposed block is decided, and each node applies the   *)
(* decided blocks in order, one by one or in a catch-up batch.  Every      *)
(* validator is a TCP peer of every other.                                 *)
(***************************************************************************)
EXTENDS Accounts, SequencesExt

CONSTANTS
  TxId,      \* the order of transaction ids
  MaxPool,   \* 256: transactions kept by enforce_limits
  MaxBlocks  \* bound: decided blocks of an instance

ASSUME PoolAssumption ==
  /\ TxId \in [Sent -> Nat]
  /\ \A t, u \in Sent : TxId[t] = TxId[u] => t = u
  /\ MaxPool \in Nat /\ MaxBlocks \in Nat

VARIABLES
  blocks,  \* the decided blocks, height 0 first: sequences of transactions
  done,    \* done[n]: how many of them node n has applied
  ledger,  \* ledger[n]: its ChainState
  pool,    \* pool[n]: its mempool, oldest first
  inbox,   \* inbox[n]: transactions sent to n and not received yet
  heard    \* heard[n]: ids in the seen set of its gossip hub

vars == <<blocks, done, ledger, pool, inbox, heard>>

N    == Len(Validators)
Node == 0 .. N-1

-----------------------------------------------------------------------------
(* apply_block: the transactions in order, then the reward; it stops at the *)
(* first error                                                              *)

Producer(h) == Validators[(h % N) + 1]

\* What the first i transactions leave, for i up to all of them
Turns(st, txs, k) ==
  LET turn[i \in 0 .. Len(txs)] ==
        IF i = 0 THEN Outcome(TRUE, st)
        ELSE LET r == turn[i-1]
             IN  IF r.ok THEN ApplyInBlock(r.st, txs[i], k) ELSE r
  IN  turn

ApplyBlock(st, txs, h) ==
  LET r == Turns(st, txs, Producer(h))[Len(txs)]
  IN  IF r.ok THEN Outcome(TRUE, Reward(r.st, Producer(h), h)) ELSE r

-----------------------------------------------------------------------------
(* Mempool *)

\* Vec::retain: the members of p that are in S, in order
Retain(p, S) ==
  LET kept[i \in 0 .. Len(p)] ==
        IF i = 0 THEN <<>>
        ELSE IF p[i] \in S THEN Append(kept[i-1], p[i]) ELSE kept[i-1]
  IN  kept[Len(p)]

RetainValid(p, st) == Retain(p, {t \in ToSet(p) : CanApply(st, t)})

DropOldest(p) == SubSeq(p, Len(p) - MaxPool + 1, Len(p))
EnforceLimits(p, st) ==
  LET valid == RetainValid(p, st)
  IN  IF Len(p) <= MaxPool THEN p
      ELSE IF Len(valid) <= MaxPool THEN valid ELSE DropOldest(valid)

\* Highest fee first, then the lowest id
BeforeById(t, u) == TxId[t] <= TxId[u]
Before(t, u) == Fee(t) > Fee(u) \/ (Fee(t) = Fee(u) /\ TxId[t] <= TxId[u])

\* take_applicable_fee_txs: pool, the trial copy of the state, what is picked
OnState(start, trial) == start
OnTrial(start, trial) == trial

\* What is left of a proposal p that goes on after one pick, or p at its end
PickNext(start, p) ==
  LET can == {t \in ToSet(p.pool) : CanApply(OnTrial(start, p.trial), t)}
      best == {t \in can : \A u \in can : Before(t, u)}
  IN  IF can = {} THEN {p}
      ELSE {[pool   |-> Retain(p.pool, ToSet(p.pool) \ {tx}),
             trial  |-> ApplyTx(p.trial, tx).st,
             picked |-> Append(p.picked, tx)] : tx \in best}

\* The one way to pack a block, as a set
Packs(p, st) ==
  LET pack[i \in 0 .. MaxTxs] ==
        IF i = 0 THEN {[pool |-> p, trial |-> st, picked |-> <<>>]}
        ELSE UNION {PickNext(st, q) : q \in pack[i-1]}
  IN  pack
Take(p, st) ==
  {[r EXCEPT !.pool = Retain(@, {t \in ToSet(@) : CanApply(st, t) \/ CanApply(r.trial, t)})] :
     r \in Packs(p, st)[MaxTxs]}

-----------------------------------------------------------------------------
(* The network after the block at height 0 *)

Init ==
  /\ blocks = << <<>> >>
  /\ done   = [n \in Node |-> 1]
  /\ ledger = [n \in Node |-> GenesisState]
  /\ pool   = [n \in Node |-> <<>>]
  /\ inbox  = [n \in Node |-> {}]
  /\ heard  = [n \in Node |-> {}]

\* A wallet signs what the accounts of some node allow and hands it to one
\* peer.  (Once, as a bound: every hub that heard of it ignores it from then on.)
Submit(n, tx) ==
  /\ \A m \in Node : tx \notin heard[m] \cup inbox[m]
  /\ \E m \in Node : CanApply(ledger[m], tx)
  /\ inbox' = [inbox EXCEPT ![n] = @ \cup {tx}]
  /\ UNCHANGED <<blocks, done, ledger, pool, heard>>

\* GossipMsg::Tx: a transaction that is new, applies and is not in the pool
\* is kept and broadcast; every other one is dropped for good.
Admits(n, tx) ==
  /\ tx \notin heard[n]
  /\ Verified(tx) /\ CanApply(ledger[n], tx)
  /\ tx \notin ToSet(pool[n])

Receive(n, tx) ==
  /\ tx \in inbox[n]
  /\ heard' = [heard EXCEPT ![n] = @ \cup {tx}]
  /\ IF Admits(n, tx)
     THEN /\ pool' = [pool EXCEPT ![n] = Append(@, tx)]
          /\ inbox' = [m \in Node |-> IF m = n THEN inbox[n] \ {tx}
                                      ELSE inbox[m] \cup ({tx} \ heard[m])]
     ELSE /\ inbox' = [inbox EXCEPT ![n] = @ \ {tx}]
          /\ UNCHANGED pool
  /\ UNCHANGED <<blocks, done, ledger>>

\* The end of one turn of the loop: enforce_limits, then the leader of the
\* next height proposes if its mempool has something to pack.
LeadsAmongPeers(n) == done[n] % (N + 1) = n /\ Len(blocks) = done[n]
Leads(n) == done[n] % N = n /\ Len(blocks) = done[n]

Turn(n) ==
  /\ pool[n] # <<>>
  /\ Len(blocks) < MaxBlocks
  /\ \E kept \in {EnforceLimits(pool[n], ledger[n])} :
       IF Leads(n)
       THEN \E take \in Take(kept, ledger[n]) :
              /\ pool' = [pool EXCEPT ![n] = take.pool]
              /\ blocks' = IF take.picked = <<>> THEN blocks
                           ELSE Append(blocks, take.picked)
       ELSE /\ pool' = [pool EXCEPT ![n] = kept]
            /\ UNCHANGED blocks
  /\ UNCHANGED <<done, ledger, inbox, heard>>

\* try_finalize: the next decided block is applied; the mempool stays as it
\* is.  After an error the state keeps what was written, and the block is not
\* counted.
ApplyNext(n) ==
  /\ done[n] < Len(blocks)
  /\ \E r \in {ApplyBlock(ledger[n], blocks[done[n] + 1], done[n])} :
       /\ ledger' = [ledger EXCEPT ![n] = r.st]
       /\ done' = IF r.ok THEN [done EXCEPT ![n] = @ + 1] ELSE done
  /\ UNCHANGED <<blocks, pool, inbox, heard>>

\* BlocksResponse: blocks up to height k-1 in one go, until one fails, then
\* retain_valid if any was applied.
Batch(st, from, to) ==
  LET batch[h \in from .. to] ==
        IF h = from THEN [ok |-> TRUE, st |-> st, done |-> from]
        ELSE LET r == batch[h-1]
                 b == ApplyBlock(r.st, blocks[h], h - 1)
             IN  IF ~r.ok THEN r
                 ELSE [ok |-> b.ok, st |-> b.st,
                       done |-> IF b.ok THEN h ELSE r.done]
  IN  batch[to]

CatchUp(n, k) ==
  LET r == Batch(ledger[n], done[n], k)
  IN  /\ done[n] < k /\ k <= Len(blocks)
      /\ ledger' = [ledger EXCEPT ![n] = r.st]
      /\ done' = [done EXCEPT ![n] = r.done]
      /\ pool' = IF r.done > done[n]
                 THEN [pool EXCEPT ![n] = RetainValid(@, r.st)] ELSE pool
      /\ UNCHANGED <<blocks, inbox, heard>>

Next ==
  \E n \in Node :
    \/ \E tx \in Sent : Submit(n, tx) \/ Receive(n, tx)
    \/ Turn(n)
    \/ ApplyNext(n)
    \/ \E k \in 2 .. MaxBlocks : CatchUp(n, k)

Spec == Init /\ [][Next]_vars

-----------------------------------------------------------------------------
(* Properties *)

Pooled(n)  == ToSet(pool[n])
InBlock(h) == ToSet(blocks[h])

\* Ledgers keep their widths, a mempool holds a transaction once, and the
\* decided blocks hold it once.
TypeOK ==
  /\ blocks \in Seq(Seq(Sent))
  /\ ledger \in [Node -> State]
  /\ done \in [Node -> 1 .. Len(blocks)]
  /\ \A n \in Node : pool[n] \in Seq(Sent) /\ IsInjective(pool[n])
  /\ \A h \in DOMAIN blocks :
       /\ IsInjective(blocks[h]) /\ Len(blocks[h]) <= MaxTxs
       /\ \A g \in DOMAIN blocks : g # h => InBlock(g) \cap InBlock(h) = {}

\* What a leader packs on its trial copy applies at every node that reaches
\* the block: no node is left with half a block and a chain that cannot go on.
BlocksApply ==
  \A n \in Node : done[n] < Len(blocks) =>
    ApplyBlock(ledger[n], blocks[done[n] + 1], done[n]).ok

\* In a network of such leaders no value is lost or created: balances add up
\* to the supply at every node after every block.
SupplyIsBalances ==
  \A n \in Node : TotalBalance(ledger[n]) = ledger[n].supply

\* The state after the first i transactions of txs.
Trials(st, txs) ==
  LET trial[i \in 0 .. Len(txs)] ==
        IF i = 0 THEN st ELSE ApplyTx(trial[i-1], txs[i]).st
  IN  trial
After(st, txs, i) == Trials(st, txs)[i]

\* Every pick has the highest fee of what applies at that point, the block is
\* full or nothing that applies is left, and what is not picked is kept if,
\* and only if, it applies to the node's state or to what the picks leave.
TakeIsGreedy ==
  \A n \in Node : \A r \in Take(pool[n], ledger[n]) :
    LET st   == ledger[n]
        Left(i) == Pooled(n) \ ToSet(SubSeq(r.picked, 1, i))
        last == Len(r.picked)
    IN  /\ \A i \in 1 .. last : \A t \in Left(i) :
             CanApply(After(st, r.picked, i - 1), t) => Fee(r.picked[i]) >= Fee(t)
        /\ last = MaxTxs \/ \A t \in Left(last) : ~CanApply(After(st, r.picked, last), t)
        /\ ToSet(r.pool) = {t \in Left(last) : \/ CanApply(st, t)
                                              \/ CanApply(After(st, r.picked, last), t)}

\* In a decided block, or void at some node
Settled(tx) ==
  \/ \E h \in DOMAIN blocks : tx \in InBlock(h)
  \/ \E n \in Node : ~CanApply(ledger[n], tx)
=============================================================================
