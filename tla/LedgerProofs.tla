---------------------------- MODULE LedgerProofs ----------------------------
(***************************************************************************)
(* Proofs about Ledger, for every set of keys, transactions and limits:    *)
(* type correctness, which holds every amount inside its width, one effect *)
(* per nonce, one mint per external_ref, bound PQ keys, that no step       *)
(* takes back what these rest on, and that none creates value.             *)
(***************************************************************************)
EXTENDS Ledger, AccountsProofs

-----------------------------------------------------------------------------
(* The invariant *)

\* The leader of every height is a key.
LEMMA ProducerType ==
  ASSUME applied \in Nat
  PROVE  Producer \in Key
<1>1. Len(Validators) \in Nat \ {0}
  BY KeyAssumption
<1>2. (applied % Len(Validators)) + 1 \in 1 .. Len(Validators)
  BY <1>1
<1> QED
  BY <1>2, KeyAssumption DEF Producer

\* Nothing has taken effect at genesis.
LEMMA InitInv == Init => IInv
<1> SUFFICES ASSUME Init PROVE IInv
  OBVIOUS
<1>1. TypeOK
  BY GenesisType, NumberAssumption DEF Init, TypeOK, NotInBlock
<1>2. DOMAIN history = {}
  BY DEF Init
<1> QED
  BY <1>1, <1>2 DEF IInv, OneTxPerNonce, OneMintPerRef, BoundKeyHolds

\* A transaction that takes effect repeats no nonce and no external_ref, and
\* carries the bound key: what the earlier ones recorded says so.
LEMMA AppendInv ==
  ASSUME IInv, NEW tx \in Sent, history' = Append(history, tx),
         ledger' \in State, Grows(ledger, ledger'),
         Fresh(ledger, tx), Recorded(ledger', tx)
  PROVE  /\ history' \in Seq(Sent)
         /\ \A i \in DOMAIN history' : Recorded(ledger', history'[i])
         /\ OneTxPerNonce' /\ OneMintPerRef' /\ BoundKeyHolds'
<1> DEFINE n == Len(history) + 1
<1>1. /\ history \in Seq(Sent) /\ ledger \in State /\ tx \in Tx
      /\ \A i \in DOMAIN history : history[i] \in Tx
  BY KeyAssumption DEF IInv, TypeOK
<1>2. /\ history' \in Seq(Sent)
      /\ DOMAIN history' = DOMAIN history \cup {n}
      /\ n \notin DOMAIN history /\ history'[n] = tx
      /\ \A i \in DOMAIN history : history'[i] = history[i] /\ i < n
  BY <1>1
<1>3. \A i \in DOMAIN history : Recorded(ledger, history[i])
  BY DEF IInv
<1>4. \A i \in DOMAIN history' : Recorded(ledger', history'[i])
  BY <1>1, <1>2, <1>3, RecordedPersists
<1>5. ASSUME NEW i \in DOMAIN history
      PROVE  /\ Sender(history[i]) = Sender(tx) /\ history[i].nonce = tx.nonce
                  => tx.nonce = MaxNonce
             /\ history[i].type = "Mint" /\ tx.type = "Mint"
                  => history[i].ref # tx.ref
             /\ (/\ IsSpend(history[i]) /\ LargeSpend(history[i])
                 /\ IsSpend(tx) /\ tx.from = history[i].from)
                  => tx.env.pq = history[i].env.pq
  <2>1. Recorded(ledger, history[i])
    BY <1>3
  <2>2. ASSUME Sender(history[i]) = Sender(tx), history[i].nonce = tx.nonce
        PROVE  tx.nonce = MaxNonce
    <3>1. /\ Has(ledger, Sender(tx))
          /\ \/ tx.nonce < ledger.accounts[Sender(tx)].nonce
             \/ tx.nonce = MaxNonce
      BY <2>1, <2>2 DEF Recorded, NonceSpent
    <3>2. ledger.accounts[Sender(tx)].nonce = tx.nonce /\ tx.nonce \in Nat
      BY <3>1, <1>1, TxFields DEF Fresh, Nonce
    <3> QED
      BY <3>1, <3>2
  <2>3. ASSUME history[i].type = "Mint", tx.type = "Mint"
        PROVE  history[i].ref # tx.ref
    BY <2>1, <2>3 DEF Recorded, RefSpent, Fresh
  <2>4. ASSUME IsSpend(history[i]), LargeSpend(history[i]), IsSpend(tx),
               tx.from = history[i].from
        PROVE  tx.env.pq = history[i].env.pq
    BY <2>1, <2>4 DEF Recorded, KeyBound, Fresh
  <2> QED
    BY <2>2, <2>3, <2>4
<1>6. OneTxPerNonce'
  <2> SUFFICES ASSUME NEW i \in DOMAIN history', NEW j \in DOMAIN history',
                      i # j, Sender(history'[i]) = Sender(history'[j]),
                      history'[i].nonce = history'[j].nonce
               PROVE  history'[i].nonce = MaxNonce
    BY DEF OneTxPerNonce, Sender
  <2>1. CASE i \in DOMAIN history /\ j \in DOMAIN history
    BY <1>2, <2>1 DEF IInv, OneTxPerNonce
  <2>2. CASE i = n \/ j = n
    BY <1>2, <1>5, <2>2
  <2> QED
    BY <1>2, <2>1, <2>2
<1>7. OneMintPerRef'
  <2> SUFFICES ASSUME NEW i \in DOMAIN history', NEW j \in DOMAIN history',
                      i # j, history'[i].type = "Mint", history'[j].type = "Mint"
               PROVE  history'[i].ref # history'[j].ref
    BY DEF OneMintPerRef
  <2>1. CASE i \in DOMAIN history /\ j \in DOMAIN history
    BY <1>2, <2>1 DEF IInv, OneMintPerRef
  <2>2. CASE i = n \/ j = n
    BY <1>2, <1>5, <2>2
  <2> QED
    BY <1>2, <2>1, <2>2
<1>8. BoundKeyHolds'
  <2> SUFFICES ASSUME NEW i \in DOMAIN history', NEW j \in DOMAIN history',
                      i < j, IsSpend(history'[i]), LargeSpend(history'[i]),
                      IsSpend(history'[j]),
                      history'[j].from = history'[i].from
               PROVE  history'[j].env.pq = history'[i].env.pq
    BY DEF BoundKeyHolds, IsSpend, LargeSpend
  <2>1. i \in DOMAIN history
    BY <1>1, <1>2
  <2>2. CASE j \in DOMAIN history
    BY <1>2, <2>1, <2>2 DEF IInv, BoundKeyHolds
  <2>3. CASE j = n
    BY <1>2, <1>5, <2>1, <2>3
  <2> QED
    BY <1>2, <2>2, <2>3
<1> QED
  BY <1>2, <1>4, <1>6, <1>7, <1>8

\* A step without effect keeps the records when the ledger grows.
LEMMA KeepInv ==
  ASSUME IInv, history' = history, ledger' \in State, Grows(ledger, ledger'),
         applied' \in Nat, inBlock' \in {NotInBlock} \cup 0 .. MaxTxs
  PROVE  IInv'
<1>1. \A i \in DOMAIN history : history[i] \in Tx /\ Recorded(ledger, history[i])
  BY KeyAssumption DEF IInv, TypeOK
<1>2. \A i \in DOMAIN history : Recorded(ledger', history[i])
  BY <1>1, RecordedPersists DEF IInv, TypeOK
<1>3. OneTxPerNonce' /\ OneMintPerRef' /\ BoundKeyHolds'
  BY DEF IInv, OneTxPerNonce, OneMintPerRef, BoundKeyHolds,
         Sender, IsSpend, LargeSpend
<1> QED
  BY <1>2, <1>3 DEF IInv, TypeOK

\* Every action keeps the invariant and lets the ledger grow only.
LEMMA StepInv ==
  ASSUME IInv, [Next]_vars
  PROVE  IInv' /\ Grows(ledger, ledger')
<1>1. /\ ledger \in State /\ applied \in Nat /\ Producer \in Key
      /\ inBlock \in {NotInBlock} \cup 0 .. MaxTxs
      /\ MaxTxs \in Nat /\ Sent \subseteq Tx
  BY ProducerType, KeyAssumption, NumberAssumption DEF IInv, TypeOK
<1>2. CASE StartBlock
  BY <1>1, <1>2, KeepInv, GrowsReflexive DEF StartBlock
<1>3. ASSUME NEW tx \in Sent, ApplyNext(tx)
      PROVE  IInv' /\ Grows(ledger, ledger')
  <2> DEFINE r == ApplyInBlock(ledger, tx, Producer)
  <2>1. tx \in Tx /\ Good(ledger, tx, r)
    BY <1>1, ApplyInBlockGood
  <2>2. /\ ledger' = r.st /\ r.ok /\ applied' = applied
        /\ history' = Append(history, tx) /\ inBlock' = inBlock + 1
        /\ inBlock < MaxTxs /\ inBlock # NotInBlock
    BY <1>3 DEF ApplyNext, Running
  <2>3. /\ ledger' \in State /\ Grows(ledger, ledger')
        /\ Fresh(ledger, tx) /\ Recorded(ledger', tx)
    BY <2>1, <2>2 DEF Good
  <2>4. inBlock' \in 0 .. MaxTxs
    BY <1>1, <2>2
  <2>5. TypeOK'
    BY <1>1, <2>2, <2>3, <2>4, AppendInv DEF TypeOK
  <2> QED
    BY <2>2, <2>3, <2>5, AppendInv DEF IInv
<1>4. ASSUME NEW tx \in Sent, FailBlock(tx)
      PROVE  IInv' /\ Grows(ledger, ledger')
  <2>1. Good(ledger, tx, ApplyInBlock(ledger, tx, Producer))
    BY <1>1, ApplyInBlockGood
  <2>2. ledger' \in State /\ Grows(ledger, ledger')
    BY <1>4, <2>1 DEF FailBlock, Good
  <2> QED
    BY <1>1, <1>4, <2>2, KeepInv DEF FailBlock
<1>5. CASE EndBlock
  <2>1. ledger' \in State /\ Grows(ledger, ledger')
    BY <1>1, <1>5, RewardKeeps, SameKeysGrows DEF EndBlock
  <2> QED
    BY <1>1, <1>5, <2>1, KeepInv DEF EndBlock
<1>6. CASE UNCHANGED vars
  BY <1>1, <1>6, KeepInv, GrowsReflexive DEF vars
<1> QED
  BY <1>2, <1>3, <1>4, <1>5, <1>6 DEF Next

\* Every effect stays recorded in the state: its nonce is spent, its reference
\* used, its key bound.
THEOREM Invariant == Spec => []IInv
<1>1. Init => IInv
  BY InitInv
<1>2. IInv /\ [Next]_vars => IInv'
  BY StepInv
<1> QED
  BY <1>1, <1>2, PTL DEF Spec

\* Balances, nonces and supply keep their width: no debit underflows.
THEOREM TypeCorrect == Spec => []TypeOK
<1>1. IInv => TypeOK
  BY DEF IInv
<1> QED
  BY <1>1, Invariant, PTL

\* A signed transaction takes effect at most once below the last nonce.
THEOREM ReplayRefused == Spec => []OneTxPerNonce
<1>1. IInv => OneTxPerNonce
  BY DEF IInv
<1> QED
  BY <1>1, Invariant, PTL

\* An external_ref mints at most once.
THEOREM MintOnce == Spec => []OneMintPerRef
<1>1. IInv => OneMintPerRef
  BY DEF IInv
<1> QED
  BY <1>1, Invariant, PTL

\* A bound PQ key is on every later spend.
THEOREM ColdKeyHolds == Spec => []BoundKeyHolds
<1>1. IInv => BoundKeyHolds
  BY DEF IInv
<1> QED
  BY <1>1, Invariant, PTL

\* No step, a failing block included, takes back an account, a nonce, a bound
\* key or a used external_ref.
THEOREM NothingTakenBack == Spec => LedgerGrows
<1>1. IInv /\ [Next]_vars => [Grows(ledger, ledger')]_vars
  BY StepInv
<1> QED
  BY <1>1, Invariant, PTL DEF Spec, LedgerGrows

-----------------------------------------------------------------------------
(* Value *)

\* No step creates value, while the supply is below its limit.
LEMMA StepCovers ==
  ASSUME IInv, NothingCreated, [Next]_vars, ledger'.supply < MaxU64
  PROVE  NothingCreated'
<1>1. /\ ledger \in State /\ Covered(ledger) /\ applied \in Nat /\ Producer \in Key
      /\ Sent \subseteq Tx
  BY ProducerType, KeyAssumption DEF IInv, TypeOK, NothingCreated, Covered
<1>2. Covered(ledger')
  <2>1. CASE StartBlock \/ UNCHANGED vars
    BY <1>1, <2>1 DEF StartBlock, vars
  <2>2. ASSUME NEW tx \in Sent, ApplyNext(tx) \/ FailBlock(tx)
        PROVE  Covered(ledger')
    <3>1. ledger' = ApplyInBlock(ledger, tx, Producer).st
      BY <2>2 DEF ApplyNext, FailBlock
    <3> QED
      BY <1>1, <3>1, ApplyInBlockCovered
  <2>3. CASE EndBlock
    BY <1>1, <2>3, RewardCovered DEF EndBlock
  <2> QED
    BY <2>1, <2>2, <2>3 DEF Next
<1> QED
  BY <1>2 DEF NothingCreated, Covered

\* As long as the supply has not reached MaxU64, where it stops counting,
\* accounts never hold more than it says, blocks that failed halfway included.
THEOREM ValueIsCovered ==
  Spec /\ [](ledger.supply < MaxU64) => []NothingCreated
<1>1. Init /\ ledger.supply < MaxU64 => NothingCreated
  <2> SUFFICES ASSUME Init, ledger.supply < MaxU64 PROVE NothingCreated
    OBVIOUS
  <2>1. ledger = GenesisState /\ GenesisSupply < MaxU64
    BY DEF Init, GenesisState
  <2>2. Exact(ledger) /\ ledger \in State
    BY <2>1, GenesisExact, GenesisType
  <2>3. TotalBalance(ledger) \in Int
    BY <2>2, TotalType
  <2> QED
    BY <2>2, <2>3 DEF Exact, NothingCreated
<1>2. IInv /\ NothingCreated /\ [Next]_vars /\ (ledger.supply < MaxU64)' => NothingCreated'
  BY StepCovers
<1> QED
  BY <1>1, <1>2, Invariant, PTL DEF Spec

=============================================================================
