----------------------------- MODULE MCMempool -----------------------------
(***************************************************************************)
(* Instances of Mempool: two validators kV and kW, holders kA and kB.      *)
(***************************************************************************)
EXTENDS Mempool

CONSTANTS kV, kW, kA, kB, r1

VARIABLE deck   \* which transactions a behaviour uses

MCKey        == {kV, kW, kA, kB}
MCShortId    == {"V", "W", "A", "B"}
MCShortIdOf  == [k \in MCKey |-> CASE k = kV -> "V" [] k = kW -> "W"
                                   [] k = kA -> "A" [] k = kB -> "B"]
MCValidators == <<kV, kW>>
MCAllocation == [k \in {kA, kV, kW} |-> 6]

By(k) == [signer |-> k, pq |-> NoPq, valid |-> TRUE]

Pay(k, n, to, x, tip) ==
  [type |-> "Transfer", env |-> By(k), nonce |-> n, from |-> MCShortIdOf[k],
   to |-> to, amount |-> x, fee |-> tip]
Issue(k, n, to, x, pk) ==
  [type |-> "Mint", env |-> By(k), nonce |-> n, to |-> to, amount |-> x,
   ref |-> r1, pubkey |-> pk]
\* Two minters of one deposit that makes kB known, what kB does with it, and a
\* payment: more than a mempool holds
Rivals == <<Issue(kV, 0, "B", 2, kB), Issue(kW, 0, "B", 2, kB),
            Pay(kB, 0, "A", 1, 1), Pay(kA, 0, "V", 1, 2)>>
\* Two tips, which a mempool has room for
Fees == <<Pay(kA, 0, "W", 1, 0), Pay(kV, 0, "A", 1, 2)>>

MCTxs == Rivals \o Fees
MCSent == ToSet(MCTxs)
MCTxId == [t \in MCSent |-> CHOOSE i \in DOMAIN MCTxs : MCTxs[i] = t]

Dealt == IF deck = "rivals" THEN ToSet(Rivals) ELSE ToSet(Fees)

MCInit == Init /\ deck \in {"rivals", "fees"}
MCNext == Next /\ UNCHANGED deck /\ \A n \in Node : inbox'[n] \subseteq Dealt

\* What was sent arrives, the loop comes round, and a decided block is applied
\* (EveryBlockFinal of BlockFinality).  Wallets and catch-up owe nothing.
MCSpec ==
  /\ MCInit /\ [][MCNext]_<<vars, deck>>
  /\ \A n \in Node :
       /\ WF_vars(deck = "fees" /\ \E tx \in Dealt : Receive(n, tx))
       /\ WF_vars(deck = "fees" /\ Turn(n))
       /\ WF_vars(deck = "fees" /\ ApplyNext(n))

\* A transaction in the mempool of every validator is included, unless another
\* one makes it void.  (Of more transactions than a mempool holds, the oldest
\* are dropped, whatever their tip.)
EverywhereIsSettled ==
  \A tx \in ToSet(Fees) :
    deck = "fees" /\ (\A n \in Node : tx \in Pooled(n)) ~> Settled(tx)
=============================================================================
