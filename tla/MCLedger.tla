------------------------------ MODULE MCLedger ------------------------------
(***************************************************************************)
(* Instances of Ledger: a validator kV that mints and produces, holders kA *)
(* and kB, and a key kC that genesis does not know.  Every transaction     *)
(* below is valid on its own; which of them apply depends on the order.    *)
(***************************************************************************)
EXTENDS Ledger

CONSTANTS kV, kA, kB, kC, p1, p2, r1, r2,
  ColdHistory   \* bound: transactions of the cold deck that take effect

VARIABLE deck   \* which transactions a behaviour uses

MCKey        == {kV, kA, kB, kC}
MCShortId    == {"V", "A", "B", "C"}
MCShortIdOf  == [k \in MCKey |-> CASE k = kV -> "V" [] k = kA -> "A"
                                   [] k = kB -> "B" [] k = kC -> "C"]
MCValidators == <<kV>>
MCMinters    == {kB}
MCAllocation == [k \in {kA, kB} |-> 6]

By(k, q) == [signer |-> k, pq |-> q, valid |-> TRUE]

Pay(k, q, n, to, x, tip) ==
  [type |-> "Transfer", env |-> By(k, q), nonce |-> n, from |-> MCShortIdOf[k],
   to |-> to, amount |-> x, fee |-> tip]
Open(k, n) == [type |-> "Register", env |-> By(k, NoPq), nonce |-> n, pubkey |-> k]
Issue(k, n, to, x, r, pk) ==
  [type |-> "Mint", env |-> By(k, NoPq), nonce |-> n, to |-> to, amount |-> x,
   ref |-> r, pubkey |-> pk]
Redeem(k, q, n, x, s) ==
  [type |-> "Burn", env |-> By(k, q), nonce |-> n, from |-> MCShortIdOf[k],
   amount |-> x, asset |-> s, hint |-> TRUE]

\* Value: tips, an unknown recipient, mints that create kC or fail to, burns
ValueTxs == {Pay(kA, NoPq, 0, "B", 2, 1), Pay(kA, NoPq, 0, "C", 2, 0),
             Pay(kA, NoPq, 1, "A", 4, 1), Pay(kB, NoPq, 1, "C", 3, 3),
             Issue(kV, 0, "C", 3, r1, kC), Issue(kV, 0, "C", 3, r2, NoKey),
             Issue(kB, 0, "A", 2, r1, NoKey), Issue(kV, 1, "C", 1, r2, kA),
             Redeem(kB, NoPq, 0, 3, 0), Redeem(kA, NoPq, 1, 5, 0),
             [Redeem(kB, NoPq, 0, 2, 0) EXCEPT !.hint = FALSE],
             Open(kC, 0), Open(kC, 1), Open(kV, 0)}
\* Keys: large spends with two PQ keys, small ones and burns with and without
\* one, up to the last nonce and on it
ColdTxs == {Pay(kA, q, n, "A", 6, 0) : q \in {NoPq, p1, p2}, n \in 0 .. 2}
             \cup {Pay(kA, q, n, "B", 1, 0) : q \in {NoPq, p1, p2}, n \in 0 .. 2}
             \cup {Redeem(kA, q, n, 1, 1) : q \in {NoPq, p2}, n \in 0 .. 2}

MCSent == ValueTxs \cup ColdTxs

MCInit == Init /\ deck \in {"value", "cold"}

MCNext ==
  /\ \/ StartBlock
     \/ \E tx \in IF deck = "value" THEN ValueTxs ELSE ColdTxs :
          \/ (deck = "cold" => Len(history) < ColdHistory) /\ ApplyNext(tx)
          \/ FailBlock(tx)
     \/ EndBlock
  /\ UNCHANGED deck

MCSpec == MCInit /\ [][MCNext]_<<vars, deck>>
=============================================================================
