---------------------------- MODULE MempoolProofs ----------------------------
(***************************************************************************)
(* Proofs about Mempool, for every number of validators, transactions and  *)
(* limits: what a leader packs on a trial copy of its state applies at     *)
(* every node, decided blocks hold a transaction once, balances add up to  *)
(* the supply, and packing is greedy by fee.                               *)
(***************************************************************************)
EXTENDS Mempool, AccountsProofs

-----------------------------------------------------------------------------
(* The recursive definitions have the values they say                      *)

\* The turns of apply_block's loop.
LEMMA TurnsUnfold ==
  ASSUME NEW st \in State, NEW txs \in Seq(Tx), NEW k \in Key
  PROVE  /\ Turns(st, txs, k)[0] = Outcome(TRUE, st)
         /\ \A i \in 1 .. Len(txs) :
              Turns(st, txs, k)[i] =
                IF Turns(st, txs, k)[i-1].ok
                THEN ApplyInBlock(Turns(st, txs, k)[i-1].st, txs[i], k)
                ELSE Turns(st, txs, k)[i-1]
         /\ \A i \in 0 .. Len(txs) : Turns(st, txs, k)[i] \in OutcomeSet
<1> DEFINE n == Len(txs)
           Solves(f) == f = [i \in 0 .. n |->
                               IF i = 0 THEN Outcome(TRUE, st)
                               ELSE LET r == f[i-1]
                                    IN  IF r.ok THEN ApplyInBlock(r.st, txs[i], k) ELSE r]
           step == [i \in 1 .. n |-> [r \in OutcomeSet |->
                      IF r.ok THEN ApplyInBlock(r.st, txs[i], k) ELSE r]]
           T == Turns(st, txs, k)
<1>1. n \in Nat /\ \A i \in 1 .. n : txs[i] \in Tx
  OBVIOUS
<1>2. Outcome(TRUE, st) \in OutcomeSet
  BY DEF Outcome, OutcomeSet
<1>3. ASSUME NEW r \in OutcomeSet, NEW i \in 1 .. n
      PROVE  (IF r.ok THEN ApplyInBlock(r.st, txs[i], k) ELSE r) \in OutcomeSet
  <2>1. r.st \in State
    BY DEF OutcomeSet
  <2> QED
    BY <1>1, <2>1, OutcomeType
<1>4. Steps(step, OutcomeSet, 0, n)
  BY <1>3 DEF Steps
<1>5. \E f : Solves(f)
  <2>1. PICK f : Follows(f, step, OutcomeSet, 0, n, Outcome(TRUE, st))
    <3>1. 0 \in Int /\ n \in Int /\ 0 <= n
      BY <1>1
    <3> HIDE DEF step, n
    <3> QED
      BY <1>2, <1>4, <3>1, RecursionExists
  <2>2. /\ f \in [0 .. n -> OutcomeSet] /\ f[0] = Outcome(TRUE, st)
        /\ \A i \in 1 .. n : f[i] = step[i][f[i-1]]
    <3> HIDE DEF step
    <3> QED
      BY <2>1 DEF Follows
  <2>3. ASSUME NEW i \in 1 .. n
        PROVE  f[i] = LET r == f[i-1] IN IF r.ok THEN ApplyInBlock(r.st, txs[i], k) ELSE r
    <3>1. f[i-1] \in OutcomeSet
      <4>1. i - 1 \in 0 .. n
        BY <1>1
      <4> QED
        BY <2>2, <4>1
    <3> QED
      BY <2>2, <3>1
  <2>4. Solves(f)
    <3>1. \A i \in 0 .. n : i # 0 => i \in 1 .. n
      BY <1>1
    <3> HIDE DEF step, n
    <3> QED
      BY <2>2, <2>3, <3>1
  <2> QED
    BY <2>4
<1>6. Solves(T)
  <2>1. T = CHOOSE f : Solves(f)
    BY DEF Turns
  <2> HIDE DEF Solves, T
  <2> QED
    BY <1>5, <2>1
<1>7. T[0] = Outcome(TRUE, st)
  BY <1>1, <1>6
<1>8. \A i \in 1 .. n : T[i] = IF T[i-1].ok THEN ApplyInBlock(T[i-1].st, txs[i], k) ELSE T[i-1]
  BY <1>1, <1>6
<1>9. 0 .. n \subseteq {i \in 0 .. n : T[i] \in OutcomeSet}
  <2> HIDE DEF T, n
  <2> DEFINE Q == {i \in 0 .. n : T[i] \in OutcomeSet}
  <2>1. 0 \in Q
    <3>1. 0 \in 0 .. n
      BY <1>1
    <3> QED
      BY <1>2, <1>7, <3>1
  <2>2. ASSUME NEW i \in 0 .. n - 1, i \in Q
        PROVE  i + 1 \in Q
    <3>1. T[i+1] = IF T[i].ok THEN ApplyInBlock(T[i].st, txs[i+1], k) ELSE T[i]
      <4>1. i + 1 \in 1 .. n /\ (i + 1) - 1 = i
        BY <1>1
      <4> QED
        BY <1>8, <4>1
    <3> QED
      BY <1>1, <1>3, <2>2, <3>1
  <2> HIDE DEF Q
  <2>3. 0 .. n \subseteq Q
    BY <1>1, <2>1, <2>2, IntervalInduction
  <2> QED
    BY <2>3 DEF Q
<1> QED
  BY <1>7, <1>8, <1>9

\* The states of a trial.
LEMMA TrialsUnfold ==
  ASSUME NEW st \in State, NEW txs \in Seq(Tx)
  PROVE  /\ Trials(st, txs)[0] = st
         /\ \A i \in 1 .. Len(txs) :
              Trials(st, txs)[i] = ApplyTx(Trials(st, txs)[i-1], txs[i]).st
         /\ \A i \in 0 .. Len(txs) : Trials(st, txs)[i] \in State
<1> DEFINE n == Len(txs)
           Solves(f) == f = [i \in 0 .. n |->
                               IF i = 0 THEN st ELSE ApplyTx(f[i-1], txs[i]).st]
           step == [i \in 1 .. n |-> [s \in State |-> ApplyTx(s, txs[i]).st]]
           T == Trials(st, txs)
<1>1. n \in Nat /\ \A i \in 1 .. n : txs[i] \in Tx
  OBVIOUS
<1>2. ASSUME NEW s \in State, NEW i \in 1 .. n
      PROVE  ApplyTx(s, txs[i]).st \in State
  BY <1>1, ApplyTxGood DEF Good
<1>3. Steps(step, State, 0, n)
  BY <1>2 DEF Steps
<1>4. \E f : Solves(f)
  <2>1. PICK f : Follows(f, step, State, 0, n, st)
    <3>1. 0 \in Int /\ n \in Int /\ 0 <= n
      BY <1>1
    <3> HIDE DEF step, n
    <3> QED
      BY <1>3, <3>1, RecursionExists
  <2>2. /\ f \in [0 .. n -> State] /\ f[0] = st
        /\ \A i \in 1 .. n : f[i] = step[i][f[i-1]]
    <3> HIDE DEF step
    <3> QED
      BY <2>1 DEF Follows
  <2>3. ASSUME NEW i \in 1 .. n
        PROVE  f[i] = ApplyTx(f[i-1], txs[i]).st
    <3>1. f[i-1] \in State
      <4>1. i - 1 \in 0 .. n
        BY <1>1
      <4> QED
        BY <2>2, <4>1
    <3> QED
      BY <2>2, <3>1
  <2>4. Solves(f)
    <3>1. \A i \in 0 .. n : i # 0 => i \in 1 .. n
      BY <1>1
    <3> HIDE DEF step, n
    <3> QED
      BY <2>2, <2>3, <3>1
  <2> QED
    BY <2>4
<1>5. Solves(T)
  <2>1. T = CHOOSE f : Solves(f)
    BY DEF Trials
  <2> HIDE DEF Solves, T
  <2> QED
    BY <1>4, <2>1
<1>6. T[0] = st /\ \A i \in 1 .. n : T[i] = ApplyTx(T[i-1], txs[i]).st
  BY <1>1, <1>5
<1>7. 0 .. n \subseteq {i \in 0 .. n : T[i] \in State}
  <2> HIDE DEF T, n
  <2> DEFINE Q == {i \in 0 .. n : T[i] \in State}
  <2>1. 0 \in Q
    BY <1>1, <1>6
  <2>2. ASSUME NEW i \in 0 .. n - 1, i \in Q
        PROVE  i + 1 \in Q
    <3>1. i + 1 \in 1 .. n /\ (i + 1) - 1 = i
      BY <1>1
    <3> QED
      BY <1>2, <1>6, <2>2, <3>1
  <2> HIDE DEF Q
  <2>3. 0 .. n \subseteq Q
    BY <1>1, <2>1, <2>2, IntervalInduction
  <2> QED
    BY <2>3 DEF Q
<1> QED
  BY <1>6, <1>7

-----------------------------------------------------------------------------
(* What applies to a trial copy applies in the block                       *)

\* The states of a trial keep what the first one has, and record what applied.
LEMMA TrialsGrow ==
  ASSUME NEW st \in State, NEW txs \in Seq(Tx), NEW i \in 0 .. Len(txs)
  PROVE  Grows(st, Trials(st, txs)[i])
<1> DEFINE n == Len(txs)
           T == Trials(st, txs)
           Q == {j \in 0 .. n : Grows(st, T[j])}
<1>1. n \in Nat /\ \A j \in 1 .. n : txs[j] \in Tx
  OBVIOUS
<1>2. /\ T[0] = st
      /\ \A j \in 1 .. n : T[j] = ApplyTx(T[j-1], txs[j]).st
      /\ \A j \in 0 .. n : T[j] \in State
  BY TrialsUnfold
<1> HIDE DEF T, n
<1>3. 0 \in Q
  <2>1. 0 \in 0 .. n
    BY <1>1
  <2> QED
    BY <1>2, <2>1, GrowsReflexive
<1>4. ASSUME NEW j \in 0 .. n - 1, j \in Q
      PROVE  j + 1 \in Q
  <2>1. j + 1 \in 1 .. n /\ (j + 1) - 1 = j /\ j \in 0 .. n /\ j + 1 \in 0 .. n
    BY <1>1
  <2>2. T[j+1] = ApplyTx(T[j], txs[j+1]).st /\ T[j] \in State /\ T[j+1] \in State
    BY <1>2, <2>1
  <2>3. Grows(T[j], T[j+1])
    BY <1>1, <2>1, <2>2, ApplyTxGood DEF Good
  <2>4. Grows(st, T[j+1])
    BY <1>4, <2>2, <2>3, GrowsTransitive
  <2> QED
    BY <2>1, <2>4
<1> HIDE DEF Q
<1>5. 0 .. n \subseteq Q
  BY <1>1, <1>3, <1>4, IntervalInduction
<1> QED
  BY <1>5 DEF Q, n, T

\* The turns of a block keep what its first state has, and record the
\* transactions while they succeed.
LEMMA TurnsGrow ==
  ASSUME NEW st \in State, NEW txs \in Seq(Tx), NEW k \in Key
  PROVE  \A i \in 0 .. Len(txs) :
           /\ Grows(st, Turns(st, txs, k)[i].st)
           /\ Turns(st, txs, k)[i].ok =>
                \A j \in 1 .. i : /\ Turns(st, txs, k)[j-1].ok
                                  /\ Recorded(Turns(st, txs, k)[i].st, txs[j])
<1> DEFINE n == Len(txs)
           T == Turns(st, txs, k)
           Q == {i \in 0 .. n :
                  /\ Grows(st, T[i].st)
                  /\ T[i].ok => \A j \in 1 .. i : T[j-1].ok /\ Recorded(T[i].st, txs[j])}
<1>1. n \in Nat /\ \A i \in 1 .. n : txs[i] \in Tx
  OBVIOUS
<1>2. /\ T[0] = Outcome(TRUE, st)
      /\ \A i \in 1 .. n :
           T[i] = IF T[i-1].ok THEN ApplyInBlock(T[i-1].st, txs[i], k) ELSE T[i-1]
      /\ \A i \in 0 .. n : T[i] \in OutcomeSet
  BY TurnsUnfold
<1> HIDE DEF T, n
<1>3. 0 \in Q
  <2>1. 0 \in 0 .. n /\ 1 .. 0 = {}
    BY <1>1
  <2>2. T[0].st = st
    BY <1>2 DEF Outcome
  <2> QED
    BY <2>1, <2>2, GrowsReflexive
<1>4. ASSUME NEW i \in 0 .. n - 1, i \in Q
      PROVE  i + 1 \in Q
  <2>1. i + 1 \in 1 .. n /\ (i + 1) - 1 = i /\ i \in 0 .. n /\ i + 1 \in 0 .. n
    BY <1>1
  <2>2. /\ T[i] \in OutcomeSet /\ T[i+1] \in OutcomeSet
        /\ T[i].st \in State /\ T[i+1].st \in State
        /\ T[i+1] = IF T[i].ok THEN ApplyInBlock(T[i].st, txs[i+1], k) ELSE T[i]
    BY <1>2, <2>1 DEF OutcomeSet
  <2>3. CASE T[i].ok
    <3>1. Good(T[i].st, txs[i+1], T[i+1])
      BY <1>1, <2>1, <2>2, <2>3, ApplyInBlockGood
    <3>2. Grows(T[i].st, T[i+1].st)
      BY <3>1 DEF Good
    <3>3. Grows(st, T[i+1].st)
      BY <1>4, <2>2, <3>2, GrowsTransitive
    <3>4. ASSUME T[i+1].ok, NEW j \in 1 .. i + 1
          PROVE  T[j-1].ok /\ Recorded(T[i+1].st, txs[j])
      <4>1. CASE j = i + 1
        BY <2>1, <2>3, <3>1, <3>4, <4>1 DEF Good
      <4>2. CASE j # i + 1
        <5>1. j \in 1 .. i /\ j \in 1 .. n
          BY <1>1, <2>1, <4>2
        <5>2. T[j-1].ok /\ Recorded(T[i].st, txs[j]) /\ txs[j] \in Tx
          BY <1>1, <1>4, <2>3, <5>1
        <5> QED
          BY <2>2, <3>2, <5>2, RecordedPersists
      <4> QED
        BY <4>1, <4>2
    <3> QED
      BY <2>1, <3>3, <3>4
  <2>4. CASE ~T[i].ok
    BY <1>4, <2>1, <2>2, <2>4
  <2> QED
    BY <2>3, <2>4
<1> HIDE DEF Q
<1>5. 0 .. n \subseteq Q
  BY <1>1, <1>3, <1>4, IntervalInduction
<1> QED
  BY <1>5 DEF Q, n, T

\* A block of transactions each of which applies to the trial left by the ones
\* before it succeeds: the producer's tips only make its state richer.
LEMMA TrialSucceeds ==
  ASSUME NEW st \in State, NEW txs \in Seq(Tx), NEW k \in Key,
         Has(st, ShortIdOf[k]),
         \A i \in 1 .. Len(txs) : CanApply(Trials(st, txs)[i-1], txs[i])
  PROVE  Turns(st, txs, k)[Len(txs)].ok
<1> DEFINE n == Len(txs)
           T == Turns(st, txs, k)
           C == Trials(st, txs)
           Q == {i \in 0 .. n : /\ T[i].ok /\ Richer(C[i], T[i].st)
                                /\ Has(T[i].st, ShortIdOf[k])}
<1>1. n \in Nat /\ ShortIdOf[k] \in ShortId /\ \A i \in 1 .. n : txs[i] \in Tx
  BY KeyAssumption
<1>2. /\ T[0] = Outcome(TRUE, st)
      /\ \A i \in 1 .. n :
           T[i] = IF T[i-1].ok THEN ApplyInBlock(T[i-1].st, txs[i], k) ELSE T[i-1]
      /\ \A i \in 0 .. n : T[i] \in OutcomeSet
  BY TurnsUnfold
<1>3. /\ C[0] = st
      /\ \A i \in 1 .. n : C[i] = ApplyTx(C[i-1], txs[i]).st
      /\ \A i \in 1 .. n : ApplyTx(C[i-1], txs[i]).ok
  BY TrialsUnfold DEF CanApply
<1> HIDE DEF T, C, n
<1>4. 0 \in Q
  <2>1. 0 \in 0 .. n
    BY <1>1
  <2>2. T[0].st = st /\ T[0].ok
    BY <1>2 DEF Outcome
  <2> QED
    BY <1>3, <2>1, <2>2, RicherReflexive
<1>5. ASSUME NEW i \in 0 .. n - 1, i \in Q
      PROVE  i + 1 \in Q
  <2>1. i + 1 \in 1 .. n /\ (i + 1) - 1 = i /\ i \in 0 .. n /\ i + 1 \in 0 .. n
    BY <1>1
  <2> DEFINE tx == txs[i+1]
             next == ApplyTx(T[i].st, tx)
  <2>2. /\ tx \in Tx /\ Fee(tx) \in Amount /\ T[i].st \in State
        /\ T[i+1] = ApplyInBlock(T[i].st, tx, k)
        /\ C[i+1] = ApplyTx(C[i], tx).st /\ ApplyTx(C[i], tx).ok
    BY <1>1, <1>2, <1>3, <1>5, <2>1, TxFields DEF OutcomeSet
  <2>3. next.ok /\ Richer(C[i+1], next.st)
    BY <1>5, <2>2, RicherTx
  <2>4. next.st \in State /\ Has(next.st, ShortIdOf[k])
    BY <1>1, <1>5, <2>2, ApplyTxGood DEF Good, Grows
  <2>5. T[i+1] = Outcome(TRUE, PayProducer(next.st, k, Fee(tx)))
    BY <2>2, <2>3 DEF ApplyInBlock
  <2>6. T[i+1].ok /\ T[i+1].st = PayProducer(next.st, k, Fee(tx))
    BY <2>5 DEF Outcome
  <2>7. Richer(C[i+1], T[i+1].st)
    BY <2>2, <2>3, <2>4, <2>6, RicherTip
  <2>8. Has(T[i+1].st, ShortIdOf[k])
    BY <1>1, <2>2, <2>4, <2>6, PayProducerKeeps DEF SameKeys
  <2> QED
    BY <2>1, <2>6, <2>7, <2>8
<1> HIDE DEF Q
<1>6. 0 .. n \subseteq Q
  BY <1>1, <1>4, <1>5, IntervalInduction
<1>7. n \in 0 .. n
  BY <1>1
<1> QED
  BY <1>6, <1>7 DEF Q, n, T

\* Below the limit, the books stay exact through a block that succeeds.
LEMMA TurnsExact ==
  ASSUME NEW st \in State, NEW txs \in Seq(Tx), NEW k \in Key, Exact(st),
         \A i \in 0 .. Len(txs) : Turns(st, txs, k)[i].st.supply < MaxU64,
         Turns(st, txs, k)[Len(txs)].ok
  PROVE  Exact(Turns(st, txs, k)[Len(txs)].st)
<1> DEFINE n == Len(txs)
           T == Turns(st, txs, k)
           Q == {i \in 0 .. n : Covered(T[i].st) /\ (T[i].ok => Exact(T[i].st))}
<1>1. n \in Nat /\ \A i \in 1 .. n : txs[i] \in Tx
  OBVIOUS
<1>2. /\ T[0] = Outcome(TRUE, st)
      /\ \A i \in 1 .. n :
           T[i] = IF T[i-1].ok THEN ApplyInBlock(T[i-1].st, txs[i], k) ELSE T[i-1]
      /\ \A i \in 0 .. n : T[i] \in OutcomeSet
      /\ \A i \in 0 .. n : T[i].st.supply < MaxU64
  BY TurnsUnfold
<1> HIDE DEF T, n
<1>3. 0 \in Q
  <2>1. 0 \in 0 .. n
    BY <1>1
  <2>2. T[0].st = st
    BY <1>2 DEF Outcome
  <2>3. Covered(st)
    BY TotalType DEF Covered, Exact, Amount
  <2> QED
    BY <2>1, <2>2, <2>3
<1>4. ASSUME NEW i \in 0 .. n - 1, i \in Q
      PROVE  i + 1 \in Q
  <2>1. i + 1 \in 1 .. n /\ (i + 1) - 1 = i /\ i \in 0 .. n /\ i + 1 \in 0 .. n
    BY <1>1
  <2>2. /\ T[i].st \in State /\ T[i+1].st.supply < MaxU64
        /\ T[i+1] = IF T[i].ok THEN ApplyInBlock(T[i].st, txs[i+1], k) ELSE T[i]
    BY <1>2, <2>1 DEF OutcomeSet
  <2>3. CASE T[i].ok
    BY <1>1, <1>4, <2>1, <2>2, <2>3, ApplyInBlockCovered
  <2>4. CASE ~T[i].ok
    BY <1>4, <2>1, <2>2, <2>4
  <2> QED
    BY <2>3, <2>4
<1> HIDE DEF Q
<1>5. 0 .. n \subseteq Q
  <2>1. /\ 0 \in Int /\ n \in Int
        /\ \A i \in 0 .. n - 1 : i \in Q => i + 1 \in Q
    BY <1>1, <1>4
  <2> QED
    BY <1>3, <2>1, IntervalInduction
<1>6. n \in 0 .. n
  BY <1>1
<1> QED
  BY <1>5, <1>6 DEF Q, n, T

-----------------------------------------------------------------------------
(* Retaining and packing                                                   *)

\* Members of a sequence.
LEMMA MembersOf ==
  ASSUME NEW S, NEW p \in Seq(S)
  PROVE  /\ ToSet(p) \subseteq S
         /\ ToSet(p) = {p[i] : i \in 1 .. Len(p)}
         /\ IsInjective(p) <=> \A i, j \in 1 .. Len(p) : p[i] = p[j] => i = j
         /\ \A i \in 0 .. Len(p) : ToSet(SubSeq(p, 1, i)) = {p[j] : j \in 1 .. i}
<1>1. ASSUME NEW i \in 0 .. Len(p)
      PROVE  ToSet(SubSeq(p, 1, i)) = {p[j] : j \in 1 .. i}
  <2>1. /\ SubSeq(p, 1, i) \in Seq(S) /\ Len(SubSeq(p, 1, i)) = i
        /\ \A j \in 1 .. i : SubSeq(p, 1, i)[j] = p[j]
    BY SubSeqProperties
  <2>2. DOMAIN SubSeq(p, 1, i) = 1 .. i
    BY <2>1
  <2> QED
    BY <2>1, <2>2 DEF ToSet
<1>2. ToSet(p) = {p[i] : i \in 1 .. Len(p)} /\ ToSet(p) \subseteq S
  BY DEF ToSet
<1>3. IsInjective(p) <=> \A i, j \in 1 .. Len(p) : p[i] = p[j] => i = j
  BY DEF IsInjective
<1> QED
  BY <1>1, <1>2, <1>3

\* A member more.
LEMMA MembersOfAppend ==
  ASSUME NEW S, NEW p \in Seq(S), NEW x \in S
  PROVE  /\ Append(p, x) \in Seq(S) /\ Len(Append(p, x)) = Len(p) + 1
         /\ \A i \in 1 .. Len(p) : Append(p, x)[i] = p[i]
         /\ Append(p, x)[Len(p) + 1] = x
         /\ ToSet(Append(p, x)) = ToSet(p) \cup {x}
         /\ IsInjective(p) /\ x \notin ToSet(p) => IsInjective(Append(p, x))
         /\ \A i \in 0 .. Len(p) : SubSeq(Append(p, x), 1, i) = SubSeq(p, 1, i)
<1> DEFINE q == Append(p, x)
<1>1. /\ q \in Seq(S) /\ Len(q) = Len(p) + 1 /\ Len(p) \in Nat
      /\ \A i \in 1 .. Len(p) : q[i] = p[i]
      /\ q[Len(p) + 1] = x
  BY AppendProperties
<1> HIDE DEF q
<1>2. /\ ToSet(p) = {p[i] : i \in 1 .. Len(p)} /\ ToSet(q) = {q[i] : i \in 1 .. Len(q)}
      /\ IsInjective(p) <=> \A i, j \in 1 .. Len(p) : p[i] = p[j] => i = j
      /\ IsInjective(q) <=> \A i, j \in 1 .. Len(q) : q[i] = q[j] => i = j
  BY <1>1, MembersOf
<1>3. \A i : i \in 1 .. Len(q) <=> i \in 1 .. Len(p) \/ i = Len(p) + 1
  BY <1>1
<1>4. ToSet(q) = ToSet(p) \cup {x}
  BY <1>1, <1>2, <1>3
<1>5. ASSUME IsInjective(p), x \notin ToSet(p)
      PROVE  IsInjective(q)
  <2>1. ASSUME NEW i \in 1 .. Len(q), NEW j \in 1 .. Len(q), q[i] = q[j]
        PROVE  i = j
    BY <1>1, <1>2, <1>3, <1>5, <2>1
  <2> QED
    BY <1>2, <2>1
<1>6. ASSUME NEW i \in 0 .. Len(p)
      PROVE  SubSeq(q, 1, i) = SubSeq(p, 1, i)
  <2>1. \A j \in 1 .. i : j \in 1 .. Len(p)
    BY <1>1
  <2> QED
    BY <1>1, <2>1
<1> QED
  BY <1>1, <1>4, <1>5, <1>6 DEF q

\* Vec::retain.
LEMMA RetainFacts ==
  ASSUME NEW p \in Seq(Sent), NEW S
  PROVE  /\ Retain(p, S) \in Seq(Sent)
         /\ ToSet(Retain(p, S)) = ToSet(p) \cap S
         /\ IsInjective(p) => IsInjective(Retain(p, S))
<1> DEFINE n == Len(p)
           Solves(f) == f = [i \in 0 .. n |->
                               IF i = 0 THEN <<>>
                               ELSE IF p[i] \in S THEN Append(f[i-1], p[i]) ELSE f[i-1]]
           step == [i \in 1 .. n |-> [q \in Seq(Sent) |->
                      IF p[i] \in S THEN Append(q, p[i]) ELSE q]]
           K == CHOOSE f : Solves(f)
<1>1. n \in Nat /\ (\A i \in 1 .. n : p[i] \in Sent) /\ <<>> \in Seq(Sent)
  OBVIOUS
<1>2. ASSUME NEW q \in Seq(Sent), NEW i \in 1 .. n
      PROVE  (IF p[i] \in S THEN Append(q, p[i]) ELSE q) \in Seq(Sent)
  BY <1>1, AppendProperties
<1>3. Steps(step, Seq(Sent), 0, n)
  BY <1>2 DEF Steps
<1>4. \E f : Solves(f)
  <2>1. PICK f : Follows(f, step, Seq(Sent), 0, n, <<>>)
    <3>1. 0 \in Int /\ n \in Int /\ 0 <= n
      BY <1>1
    <3> HIDE DEF step, n
    <3> QED
      BY <1>1, <1>3, <3>1, RecursionExists
  <2>2. /\ f \in [0 .. n -> Seq(Sent)] /\ f[0] = <<>>
        /\ \A i \in 1 .. n : f[i] = step[i][f[i-1]]
    <3>1. 0 + 1 = 1
      OBVIOUS
    <3> HIDE DEF step, n
    <3> QED
      BY <2>1, <3>1 DEF Follows
  <2>3. ASSUME NEW i \in 1 .. n
        PROVE  f[i] = IF p[i] \in S THEN Append(f[i-1], p[i]) ELSE f[i-1]
    <3>1. f[i-1] \in Seq(Sent)
      <4>1. i - 1 \in 0 .. n
        BY <1>1
      <4> QED
        BY <2>2, <4>1
    <3> QED
      BY <2>2, <3>1
  <2>4. Solves(f)
    <3>1. \A i \in 0 .. n : i # 0 => i \in 1 .. n
      BY <1>1
    <3> HIDE DEF step, n
    <3> QED
      BY <2>2, <2>3, <3>1
  <2> QED
    BY <2>4
<1>5. Solves(K)
  <2> HIDE DEF Solves
  <2> QED
    BY <1>4
<1>6. K[0] = <<>> /\ \A i \in 1 .. n : K[i] = IF p[i] \in S THEN Append(K[i-1], p[i]) ELSE K[i-1]
  <2> HIDE DEF K, n
  <2>1. 0 \in 0 .. n /\ \A i \in 1 .. n : i \in 0 .. n /\ i # 0
    BY <1>1
  <2>2. K[0] = <<>>
    BY <1>5, <2>1
  <2>3. ASSUME NEW i \in 1 .. n
        PROVE  K[i] = IF p[i] \in S THEN Append(K[i-1], p[i]) ELSE K[i-1]
    BY <1>5, <2>1
  <2> QED
    BY <2>2, <2>3
<1>7. Retain(p, S) = K[n]
  BY DEF Retain
<1>8. /\ ToSet(p) = {p[i] : i \in 1 .. n}
      /\ IsInjective(p) <=> \A i, j \in 1 .. n : p[i] = p[j] => i = j
  BY MembersOf
<1> HIDE DEF K, n, step, Solves
<1> DEFINE First(i) == {p[j] : j \in 1 .. i}
           Kept(i) == /\ K[i] \in Seq(Sent) /\ ToSet(K[i]) = First(i) \cap S
                      /\ IsInjective(p) => IsInjective(K[i])
           Q == {i \in 0 .. n : Kept(i)}
<1>9. 0 \in Q
  <2>1. 0 \in 0 .. n /\ First(0) = {}
    BY <1>1
  <2>2. ToSet(<<>>) = {} /\ IsInjective(<<>>)
    BY DEF ToSet, IsInjective
  <2> QED
    BY <1>1, <1>6, <2>1, <2>2
<1>10. ASSUME NEW i \in 0 .. n - 1, i \in Q
       PROVE  i + 1 \in Q
  <2>1. i + 1 \in 1 .. n /\ (i + 1) - 1 = i /\ i + 1 \in 0 .. n
        /\ \A j : j \in 1 .. i + 1 <=> j \in 1 .. i \/ j = i + 1
    BY <1>1
  <2>2. K[i+1] = (IF p[i+1] \in S THEN Append(K[i], p[i+1]) ELSE K[i]) /\ p[i+1] \in Sent
    BY <1>1, <1>6, <2>1
  <2>3. First(i+1) = First(i) \cup {p[i+1]}
    BY <2>1
  <2>4. IsInjective(p) => p[i+1] \notin First(i)
    <3>1. \A j \in 1 .. i : j \in 1 .. n /\ j # i + 1
      BY <1>1
    <3> QED
      BY <1>8, <2>1, <3>1
  <2>5. Kept(i+1)
    <3>1. CASE p[i+1] \in S
      <4>1. /\ K[i+1] \in Seq(Sent) /\ ToSet(K[i+1]) = ToSet(K[i]) \cup {p[i+1]}
            /\ IsInjective(K[i]) /\ p[i+1] \notin ToSet(K[i]) => IsInjective(K[i+1])
        BY <1>10, <2>2, <3>1, MembersOfAppend
      <4> HIDE DEF First
      <4> QED
        BY <1>10, <2>3, <2>4, <3>1, <4>1
    <3>2. CASE p[i+1] \notin S
      <4> HIDE DEF First
      <4> QED
        BY <1>10, <2>2, <2>3, <3>2
    <3> QED
      BY <3>1, <3>2
  <2> QED
    BY <2>1, <2>5
<1>11. 0 .. n \subseteq Q
  <2> HIDE DEF Q
  <2>1. /\ 0 \in Int /\ n \in Int
        /\ \A i \in 0 .. n - 1 : i \in Q => i + 1 \in Q
    BY <1>1, <1>10
  <2> QED
    BY <1>9, <2>1, IntervalInduction
<1>12. n \in 0 .. n
  BY <1>1
<1> QED
  BY <1>7, <1>8, <1>11, <1>12

\* A trial goes on from where it was.
LEMMA TrialsAppend ==
  ASSUME NEW st \in State, NEW txs \in Seq(Tx), NEW tx \in Tx
  PROVE  /\ \A i \in 0 .. Len(txs) : Trials(st, Append(txs, tx))[i] = Trials(st, txs)[i]
         /\ Trials(st, Append(txs, tx))[Len(txs) + 1] =
              ApplyTx(Trials(st, txs)[Len(txs)], tx).st
<1> DEFINE n == Len(txs)
           more == Append(txs, tx)
           C == Trials(st, txs)
           D == Trials(st, more)
           Q == {i \in 0 .. n : D[i] = C[i]}
<1>1. /\ n \in Nat /\ more \in Seq(Tx) /\ Len(more) = n + 1
      /\ (\A i \in 1 .. n : more[i] = txs[i]) /\ more[n + 1] = tx
  BY AppendProperties
<1>2. C[0] = st /\ \A i \in 1 .. n : C[i] = ApplyTx(C[i-1], txs[i]).st
  BY TrialsUnfold
<1>3. D[0] = st /\ \A i \in 1 .. n + 1 : D[i] = ApplyTx(D[i-1], more[i]).st
  <2> HIDE DEF more, n
  <2> QED
    BY <1>1, TrialsUnfold
<1> HIDE DEF n, more, C, D
<1>4. 0 \in Q
  <2>1. 0 \in 0 .. n
    BY <1>1
  <2> QED
    BY <1>2, <1>3, <2>1
<1>5. ASSUME NEW i \in 0 .. n - 1, i \in Q
      PROVE  i + 1 \in Q
  <2>1. /\ i + 1 \in 1 .. n /\ i + 1 \in 1 .. n + 1
        /\ (i + 1) - 1 = i /\ i + 1 \in 0 .. n
    BY <1>1
  <2>2. D[i+1] = ApplyTx(D[i], txs[i+1]).st /\ C[i+1] = ApplyTx(C[i], txs[i+1]).st
    BY <1>1, <1>2, <1>3, <2>1
  <2> QED
    BY <1>5, <2>1, <2>2
<1>6. 0 .. n \subseteq Q
  <2> HIDE DEF Q
  <2>1. /\ 0 \in Int /\ n \in Int
        /\ \A i \in 0 .. n - 1 : i \in Q => i + 1 \in Q
    BY <1>1, <1>5
  <2> QED
    BY <1>4, <2>1, IntervalInduction
<1>7. n \in 0 .. n /\ n + 1 \in 1 .. n + 1 /\ (n + 1) - 1 = n
  BY <1>1
<1>8. D[n + 1] = ApplyTx(C[n], tx).st
  BY <1>1, <1>3, <1>6, <1>7
<1> QED
  BY <1>6, <1>8 DEF n, more, C, D

\* The stages of take_applicable_fee_txs.
PackSet == [pool : Seq(Sent), trial : State, picked : Seq(Sent)]

\* A pick leads from one stage to the next.
LEMMA PickNextType ==
  ASSUME NEW st, NEW q \in PackSet
  PROVE  PickNext(st, q) \subseteq PackSet
<1> DEFINE can == {t \in ToSet(q.pool) : CanApply(OnTrial(st, q.trial), t)}
           best == {t \in can : \A u \in can : Before(t, u)}
           next(tx) == [pool   |-> Retain(q.pool, ToSet(q.pool) \ {tx}),
                        trial  |-> ApplyTx(q.trial, tx).st,
                        picked |-> Append(q.picked, tx)]
<1>1. q.pool \in Seq(Sent) /\ q.trial \in State /\ q.picked \in Seq(Sent)
  BY DEF PackSet
<1>2. ToSet(q.pool) \subseteq Sent
  BY <1>1, MembersOf
<1>3. ASSUME NEW tx \in best
      PROVE  next(tx) \in PackSet
  <2>1. tx \in Sent /\ tx \in Tx
    BY <1>2, KeyAssumption
  <2>2. /\ Retain(q.pool, ToSet(q.pool) \ {tx}) \in Seq(Sent)
        /\ ApplyTx(q.trial, tx).st \in State
        /\ Append(q.picked, tx) \in Seq(Sent)
    BY <1>1, <2>1, RetainFacts, ApplyTxGood, AppendProperties DEF Good
  <2> QED
    BY <2>2 DEF PackSet
<1>4. PickNext(st, q) = IF can = {} THEN {q} ELSE {next(tx) : tx \in best}
  BY DEF PickNext
<1> HIDE DEF can, best, next
<1> QED
  BY <1>3, <1>4

\* The stages have the values their recursion says.
LEMMA PacksUnfold ==
  ASSUME NEW p \in Seq(Sent), NEW st \in State
  PROVE  /\ Packs(p, st)[0] = {[pool |-> p, trial |-> st, picked |-> <<>>]}
         /\ \A i \in 1 .. MaxTxs :
              Packs(p, st)[i] = UNION {PickNext(st, q) : q \in Packs(p, st)[i-1]}
<1> DEFINE n == MaxTxs
           start == {[pool |-> p, trial |-> st, picked |-> <<>>]}
           Solves(f) == f = [i \in 0 .. n |->
                               IF i = 0 THEN start
                               ELSE UNION {PickNext(st, q) : q \in f[i-1]}]
           step == [i \in 1 .. n |-> [A \in SUBSET PackSet |->
                      UNION {PickNext(st, q) : q \in A}]]
           K == Packs(p, st)
<1>1. n \in Nat
  BY NumberAssumption
<1>2. start \in SUBSET PackSet
  BY DEF PackSet
<1>3. ASSUME NEW A \in SUBSET PackSet
      PROVE  UNION {PickNext(st, q) : q \in A} \in SUBSET PackSet
  BY PickNextType
<1>4. Steps(step, SUBSET PackSet, 0, n)
  BY <1>3 DEF Steps
<1>5. \E f : Solves(f)
  <2>1. PICK f : Follows(f, step, SUBSET PackSet, 0, n, start)
    <3>1. 0 \in Int /\ n \in Int /\ 0 <= n
      BY <1>1
    <3> HIDE DEF step, n, start
    <3> QED
      BY <1>2, <1>4, <3>1, RecursionExists
  <2>2. /\ f \in [0 .. n -> SUBSET PackSet] /\ f[0] = start
        /\ \A i \in 1 .. n : f[i] = step[i][f[i-1]]
    <3>1. 0 + 1 = 1
      OBVIOUS
    <3> HIDE DEF step, n, start
    <3> QED
      BY <2>1, <3>1 DEF Follows
  <2>3. ASSUME NEW i \in 1 .. n
        PROVE  f[i] = UNION {PickNext(st, q) : q \in f[i-1]}
    <3>1. f[i-1] \in SUBSET PackSet
      <4>1. i - 1 \in 0 .. n
        BY <1>1
      <4> HIDE DEF start
      <4> QED
        BY <2>2, <4>1
    <3>2. \A A \in SUBSET PackSet : step[i][A] = UNION {PickNext(st, q) : q \in A}
      OBVIOUS
    <3> HIDE DEF step, start
    <3> QED
      BY <2>2, <3>1, <3>2
  <2>4. Solves(f)
    <3>1. \A i \in 0 .. n : i # 0 => i \in 1 .. n
      BY <1>1
    <3> HIDE DEF step, n, start
    <3> QED
      BY <2>2, <2>3, <3>1
  <2> QED
    BY <2>4
<1>6. Solves(K)
  <2>1. K = CHOOSE f : Solves(f)
    BY DEF Packs
  <2> HIDE DEF Solves, K
  <2> QED
    BY <1>5, <2>1
<1>7. K[0] = start
  <2>1. 0 \in 0 .. n
    BY <1>1
  <2> HIDE DEF K, n, start
  <2> QED
    BY <1>6, <2>1
<1>8. ASSUME NEW i \in 1 .. n
      PROVE  K[i] = UNION {PickNext(st, q) : q \in K[i-1]}
  <2>1. i \in 0 .. n /\ i # 0
    BY <1>1
  <2> HIDE DEF K, n, start
  <2> QED
    BY <1>6, <2>1
<1> QED
  BY <1>7, <1>8

\* The i-th pick applies to what the ones before it leave, and nothing that
\* applies there and is left pays more.
BestPick(p, st, picked, i) ==
  /\ CanApply(Trials(st, picked)[i-1], picked[i])
  /\ \A t \in ToSet(p) \ ToSet(SubSeq(picked, 1, i)) :
       CanApply(Trials(st, picked)[i-1], t) => Fee(picked[i]) >= Fee(t)

\* A stage after m picks, or at its end.
Stage(p, st, q, m) ==
  /\ q \in PackSet
  /\ IsInjective(q.pool) /\ IsInjective(q.picked)
  /\ ToSet(q.picked) \subseteq ToSet(p)
  /\ ToSet(q.pool) = ToSet(p) \ ToSet(q.picked)
  /\ q.trial = Trials(st, q.picked)[Len(q.picked)]
  /\ \A i \in 1 .. Len(q.picked) : BestPick(p, st, q.picked, i)
  /\ Len(q.picked) <= m
  /\ Len(q.picked) = m \/ \A t \in ToSet(q.pool) : ~CanApply(q.trial, t)

\* A pick leads from stage to stage.
LEMMA PickStage ==
  ASSUME NEW p \in Seq(Sent), NEW st \in State, NEW m \in Nat, NEW q,
         Stage(p, st, q, m), NEW r \in PickNext(st, q)
  PROVE  Stage(p, st, r, m + 1)
<1> DEFINE can == {t \in ToSet(q.pool) : CanApply(q.trial, t)}
           best == {t \in can : \A u \in can : Before(t, u)}
           next(tx) == [pool   |-> Retain(q.pool, ToSet(q.pool) \ {tx}),
                        trial  |-> ApplyTx(q.trial, tx).st,
                        picked |-> Append(q.picked, tx)]
           k == Len(q.picked)
<1>1. /\ q \in PackSet /\ q.pool \in Seq(Sent) /\ q.trial \in State /\ q.picked \in Seq(Sent)
      /\ IsInjective(q.pool) /\ IsInjective(q.picked)
      /\ ToSet(q.picked) \subseteq ToSet(p)
      /\ ToSet(q.pool) = ToSet(p) \ ToSet(q.picked)
      /\ q.trial = Trials(st, q.picked)[k]
      /\ \A i \in 1 .. k : BestPick(p, st, q.picked, i)
      /\ k <= m
      /\ k = m \/ \A t \in ToSet(q.pool) : ~CanApply(q.trial, t)
  BY DEF Stage, PackSet
<1>2. r \in IF can = {} THEN {q} ELSE {next(tx) : tx \in best}
  BY DEF PickNext, OnTrial
<1>3. k \in Nat /\ Sent \subseteq Tx /\ ToSet(q.pool) \subseteq Sent
  BY <1>1, KeyAssumption, MembersOf
<1>4. CASE can = {}
  <2>1. r = q /\ \A t \in ToSet(q.pool) : ~CanApply(q.trial, t)
    BY <1>2, <1>4
  <2>2. k <= m + 1
    BY <1>1, <1>3
  <2> QED
    BY <1>1, <2>1, <2>2 DEF Stage
<1>5. CASE can # {}
  <2>1. PICK tx \in best : r = next(tx)
    <3> HIDE DEF best, can, next
    <3> QED
      BY <1>2, <1>5
  <2>2. /\ tx \in ToSet(q.pool) /\ tx \in Sent /\ tx \in Tx /\ CanApply(q.trial, tx)
        /\ \A u \in can : Before(tx, u)
    BY <1>3
  <2> DEFINE longer == Append(q.picked, tx)
  <2>3. /\ r.pool = Retain(q.pool, ToSet(q.pool) \ {tx})
        /\ r.trial = ApplyTx(q.trial, tx).st /\ r.picked = longer
    BY <2>1
  <2> HIDE DEF best, next
  <2>4. r \in PackSet
    BY <1>1, PickNextType
  <2>5. /\ IsInjective(r.pool) /\ ToSet(r.pool) = ToSet(q.pool) \ {tx}
    BY <1>1, <2>3, RetainFacts
  <2>6. /\ longer \in Seq(Sent) /\ Len(longer) = k + 1
        /\ \A i \in 1 .. k : longer[i] = q.picked[i]
        /\ longer[k + 1] = tx
        /\ ToSet(longer) = ToSet(q.picked) \cup {tx}
        /\ IsInjective(q.picked) /\ tx \notin ToSet(q.picked) => IsInjective(longer)
        /\ \A i \in 0 .. k : SubSeq(longer, 1, i) = SubSeq(q.picked, 1, i)
    BY <1>1, <2>2, MembersOfAppend
  <2>7. tx \in ToSet(p) /\ tx \notin ToSet(q.picked)
    BY <1>1, <2>2
  <2>8. /\ \A i \in 0 .. k : Trials(st, longer)[i] = Trials(st, q.picked)[i]
        /\ Trials(st, longer)[k + 1] = ApplyTx(Trials(st, q.picked)[k], tx).st
    <3>1. q.picked \in Seq(Tx)
      BY <1>1, <1>3
    <3> QED
      BY <2>2, <3>1, TrialsAppend
  <2>9. k = m
    BY <1>1, <2>2
  <2>10. SubSeq(longer, 1, k + 1) = longer
    <3>1. longer \in Seq(Sent) /\ Len(longer) = k + 1
      BY <2>6
    <3> HIDE DEF longer
    <3> QED
      BY <1>3, <3>1
  <2> HIDE DEF longer
  <2>11. ASSUME NEW i \in 1 .. k
         PROVE  BestPick(p, st, longer, i)
    <3>1. /\ i - 1 \in 0 .. k /\ i \in 0 .. k
      BY <1>3
    <3>2. /\ Trials(st, longer)[i-1] = Trials(st, q.picked)[i-1]
          /\ longer[i] = q.picked[i]
          /\ SubSeq(longer, 1, i) = SubSeq(q.picked, 1, i)
      BY <2>6, <2>8, <3>1
    <3>3. BestPick(p, st, q.picked, i)
      BY <1>1
    <3> QED
      BY <3>2, <3>3 DEF BestPick
  <2>12. BestPick(p, st, longer, k + 1)
    <3>1. (k + 1) - 1 = k /\ k \in 0 .. k
      BY <1>3
    <3>2. Trials(st, longer)[k] = q.trial
      BY <1>1, <2>8, <3>1
    <3>3. ASSUME NEW t \in ToSet(p) \ ToSet(longer), CanApply(q.trial, t)
          PROVE  Fee(tx) >= Fee(t)
      <4>1. t \in ToSet(q.pool)
        BY <1>1, <2>6, <3>3
      <4>2. Before(tx, t)
        BY <2>2, <3>3, <4>1
      <4>3. Fee(tx) \in Int /\ Fee(t) \in Int
        BY <1>3, <2>2, <4>1, TxFields DEF Amount
      <4> QED
        BY <4>2, <4>3 DEF Before
    <3> QED
      BY <2>2, <2>6, <2>10, <3>1, <3>2, <3>3 DEF BestPick
  <2>13. \A i \in 1 .. k + 1 : BestPick(p, st, longer, i)
    <3>1. \A i \in 1 .. k + 1 : i \in 1 .. k \/ i = k + 1
      BY <1>3
    <3> QED
      BY <2>11, <2>12, <3>1
  <2>14. ToSet(r.pool) = ToSet(p) \ ToSet(longer) /\ ToSet(longer) \subseteq ToSet(p)
    BY <1>1, <2>5, <2>6, <2>7
  <2>15. r.trial = Trials(st, longer)[k + 1]
    BY <1>1, <2>3, <2>8
  <2>16. IsInjective(longer)
    BY <1>1, <2>6, <2>7
  <2>17. k + 1 <= m + 1 /\ k + 1 = m + 1
    BY <1>3, <2>9
  <2> HIDE DEF k
  <2> QED
    BY <2>3, <2>4, <2>5, <2>6, <2>13, <2>14, <2>15, <2>16, <2>17 DEF Stage
<1> QED
  BY <1>4, <1>5

\* What is left of a mempool behind the picks: what applies before or after them
KeptOf(p, st, picked) ==
  {t \in ToSet(p) \ ToSet(picked) :
     CanApply(st, t) \/ CanApply(Trials(st, picked)[Len(picked)], t)}

\* What take_applicable_fee_txs returns: a full stage, and what is kept of it.
LEMMA TakeFacts ==
  ASSUME NEW p \in Seq(Sent), IsInjective(p), NEW st \in State, NEW r \in Take(p, st)
  PROVE  /\ r.pool \in Seq(Sent) /\ IsInjective(r.pool)
         /\ ToSet(r.pool) = KeptOf(p, st, r.picked)
         /\ ToSet(r.pool) \subseteq ToSet(p) \ ToSet(r.picked)
         /\ r.picked \in Seq(Sent) /\ IsInjective(r.picked)
         /\ ToSet(r.picked) \subseteq ToSet(p) /\ Len(r.picked) <= MaxTxs
         /\ \A i \in 1 .. Len(r.picked) : BestPick(p, st, r.picked, i)
         /\ \/ Len(r.picked) = MaxTxs
            \/ \A t \in ToSet(p) \ ToSet(r.picked) :
                 ~CanApply(Trials(st, r.picked)[Len(r.picked)], t)
<1> DEFINE n == MaxTxs
           first == [pool |-> p, trial |-> st, picked |-> <<>>]
           K == Packs(p, st)
           Q == {m \in 0 .. n : \A q \in K[m] : Stage(p, st, q, m)}
<1>1. n \in Nat
  BY NumberAssumption
<1>2. K[0] = {first} /\ \A i \in 1 .. n : K[i] = UNION {PickNext(st, q) : q \in K[i-1]}
  BY PacksUnfold
<1> HIDE DEF K, n
<1>3. Stage(p, st, first, 0)
  <2>1. /\ <<>> \in Seq(Sent) /\ Len(<<>>) = 0 /\ 1 .. 0 = {}
        /\ ToSet(<<>>) = {} /\ IsInjective(<<>>)
    BY DEF ToSet, IsInjective
  <2>2. first \in PackSet
    BY <2>1 DEF PackSet
  <2>3. first.pool = p /\ first.trial = st /\ first.picked = <<>>
    OBVIOUS
  <2>4. Trials(st, <<>>)[0] = st
    <3>1. <<>> \in Seq(Tx)
      OBVIOUS
    <3> QED
      BY <3>1, TrialsUnfold
  <2>5. Len(first.picked) = 0
    BY <2>1
  <2>6. /\ IsInjective(first.pool) /\ IsInjective(first.picked)
        /\ ToSet(first.picked) \subseteq ToSet(p)
        /\ ToSet(first.pool) = ToSet(p) \ ToSet(first.picked)
        /\ first.trial = Trials(st, first.picked)[Len(first.picked)]
    BY <2>1, <2>3, <2>4
  <2>7. \A i \in 1 .. Len(first.picked) : BestPick(p, st, first.picked, i)
    BY <2>1, <2>5
  <2> HIDE DEF first
  <2> QED
    BY <2>2, <2>5, <2>6, <2>7 DEF Stage
<1>4. 0 \in Q
  <2>1. 0 \in 0 .. n
    BY <1>1
  <2> HIDE DEF first
  <2> QED
    BY <1>2, <1>3, <2>1
<1>5. ASSUME NEW m \in 0 .. n - 1, m \in Q
      PROVE  m + 1 \in Q
  <2>1. m + 1 \in 1 .. n /\ (m + 1) - 1 = m /\ m + 1 \in 0 .. n /\ m \in Nat
    BY <1>1
  <2>2. K[m+1] = UNION {PickNext(st, q) : q \in K[m]}
    BY <1>2, <2>1
  <2>3. ASSUME NEW s \in K[m+1]
        PROVE  Stage(p, st, s, m + 1)
    <3>1. PICK q \in K[m] : s \in PickNext(st, q)
      BY <2>2
    <3> QED
      BY <1>5, <2>1, <3>1, PickStage
  <2> QED
    BY <2>1, <2>3
<1>6. 0 .. n \subseteq Q
  <2> HIDE DEF Q
  <2>1. /\ 0 \in Int /\ n \in Int
        /\ \A i \in 0 .. n - 1 : i \in Q => i + 1 \in Q
    BY <1>1, <1>5
  <2> QED
    BY <1>4, <2>1, IntervalInduction
<1>7. n \in 0 .. n
  BY <1>1
<1>8. PICK q \in K[n] :
        r = [q EXCEPT !.pool =
               Retain(@, {t \in ToSet(@) : CanApply(st, t) \/ CanApply(q.trial, t)})]
  BY DEF Take, K, n
<1>9. Stage(p, st, q, n)
  BY <1>6, <1>7
<1> DEFINE may == {t \in ToSet(q.pool) : CanApply(st, t) \/ CanApply(q.trial, t)}
<1>10. q \in PackSet /\ q.pool \in Seq(Sent) /\ q.picked \in Seq(Sent)
  BY <1>9 DEF Stage, PackSet
<1>11. r.picked = q.picked /\ r.pool = Retain(q.pool, may)
  BY <1>8, <1>10 DEF PackSet
<1> HIDE DEF may
<1>12. /\ r.pool \in Seq(Sent) /\ ToSet(r.pool) \subseteq ToSet(q.pool)
       /\ IsInjective(q.pool) => IsInjective(r.pool)
       /\ ToSet(r.pool) = ToSet(q.pool) \cap may
  BY <1>10, <1>11, RetainFacts
<1>13. may = KeptOf(p, st, q.picked)
  <2>1. /\ ToSet(q.pool) = ToSet(p) \ ToSet(q.picked)
        /\ q.trial = Trials(st, q.picked)[Len(q.picked)]
    BY <1>9 DEF Stage
  <2> QED
    BY <2>1 DEF may, KeptOf
<1>14. may \subseteq ToSet(q.pool)
  BY DEF may
<1>15. ToSet(r.pool) = KeptOf(p, st, r.picked)
  BY <1>11, <1>12, <1>13, <1>14
<1> QED
  BY <1>9, <1>10, <1>11, <1>12, <1>15 DEF Stage, n

-----------------------------------------------------------------------------
(* Blocks and the chain of states they leave                               *)

\* Every height has a producer, and a sequence of sent transactions is one of
\* transactions.
LEMMA Producers ==
  /\ N \in Nat /\ N > 0
  /\ \A h \in Nat : Producer(h) \in Range(Validators) /\ Producer(h) \in Key
  /\ Seq(Sent) \subseteq Seq(Tx)
<1>1. N \in Nat /\ N > 0
  BY KeyAssumption DEF N
<1>2. ASSUME NEW h \in Nat
      PROVE  Producer(h) \in Range(Validators) /\ Producer(h) \in Key
  <2>1. h % N \in 0 .. N - 1
    BY <1>1
  <2>2. (h % N) + 1 \in 1 .. N
    <3> DEFINE r == h % N
    <3> HIDE DEF r
    <3> QED
      BY <1>1, <2>1 DEF r
  <2>3. (h % N) + 1 \in DOMAIN Validators
    BY <2>2, KeyAssumption DEF N
  <2>4. Producer(h) = Validators[(h % N) + 1]
    BY DEF Producer
  <2> DEFINE i == (h % N) + 1
  <2> HIDE DEF i
  <2> QED
    BY <2>3, <2>4, KeyAssumption DEF Range, i
<1>3. Seq(Sent) \subseteq Seq(Tx)
  BY KeyAssumption
<1> QED
  BY <1>1, <1>2, <1>3

\* A block is worth its turns and the reward; a state only grows in one, and
\* records its transactions when it succeeds.
LEMMA BlockFacts ==
  ASSUME NEW st \in State, NEW txs \in Seq(Sent), NEW h \in Nat
  PROVE  LET k == Producer(h)
             T == Turns(st, txs, k)
             r == ApplyBlock(st, txs, h)
         IN  /\ r \in OutcomeSet /\ r.st \in State /\ Grows(st, r.st)
             /\ r.ok = T[Len(txs)].ok
             /\ r.ok => /\ r.st = Reward(T[Len(txs)].st, k, h)
                        /\ \A i \in 1 .. Len(txs) : Recorded(r.st, txs[i])
<1> DEFINE k == Producer(h)
           n == Len(txs)
           T == Turns(st, txs, k)
           r == ApplyBlock(st, txs, h)
<1>1. k \in Key /\ txs \in Seq(Tx) /\ n \in Nat /\ n \in 0 .. n
  BY Producers
<1>2. \A i \in 1 .. n : txs[i] \in Tx
  BY <1>1
<1> HIDE DEF k
<1>3. /\ T[n] \in OutcomeSet /\ Grows(st, T[n].st)
      /\ T[n].ok => \A j \in 1 .. n : Recorded(T[n].st, txs[j])
  BY <1>1, TurnsUnfold, TurnsGrow
<1>4. T[n].st \in State /\ T[n].ok \in BOOLEAN
  BY <1>3 DEF OutcomeSet
<1>5. r = IF T[n].ok THEN Outcome(TRUE, Reward(T[n].st, k, h)) ELSE T[n]
  BY DEF ApplyBlock, k
<1> HIDE DEF T, r, n
<1>6. CASE T[n].ok
  <2> DEFINE new == Reward(T[n].st, k, h)
  <2>1. new \in State /\ SameKeys(T[n].st, new)
    BY <1>1, <1>4, RewardKeeps
  <2>2. Grows(T[n].st, new)
    BY <1>4, <2>1, SameKeysGrows
  <2>3. Grows(st, new)
    BY <1>3, <1>4, <2>1, <2>2, GrowsTransitive
  <2>4. r.ok = TRUE /\ r.st = new /\ r = Outcome(TRUE, new)
    BY <1>5, <1>6 DEF Outcome
  <2>5. r \in OutcomeSet
    BY <2>1, <2>4 DEF Outcome, OutcomeSet
  <2>6. \A j \in 1 .. n : Recorded(new, txs[j])
    BY <1>2, <1>3, <1>4, <1>6, <2>1, <2>2, RecordedPersists
  <2> HIDE DEF new
  <2> QED
    BY <1>6, <2>1, <2>3, <2>4, <2>5, <2>6 DEF k, T, r, n, new
<1>7. CASE ~T[n].ok
  <2>1. r = T[n]
    BY <1>5, <1>7
  <2> QED
    BY <1>3, <1>4, <1>7, <2>1 DEF k, T, r, n
<1> QED
  BY <1>6, <1>7

\* The state after each of the blocks of a chain.
Chain(bs) ==
  LET state[h \in 1 .. Len(bs)] ==
        IF h = 1 THEN GenesisState ELSE ApplyBlock(state[h-1], bs[h], h - 1).st
  IN  state

\* The chain has the states it says.
LEMMA ChainUnfold ==
  ASSUME NEW bs \in Seq(Seq(Sent)), bs # <<>>
  PROVE  /\ Chain(bs)[1] = GenesisState
         /\ \A h \in 2 .. Len(bs) :
              Chain(bs)[h] = ApplyBlock(Chain(bs)[h-1], bs[h], h - 1).st
         /\ \A h \in 1 .. Len(bs) : Chain(bs)[h] \in State
<1> DEFINE n == Len(bs)
           Solves(f) == f = [h \in 1 .. n |->
                               IF h = 1 THEN GenesisState
                               ELSE ApplyBlock(f[h-1], bs[h], h - 1).st]
           step == [h \in 2 .. n |-> [s \in State |-> ApplyBlock(s, bs[h], h - 1).st]]
           K == Chain(bs)
<1>1. n \in Nat /\ n >= 1 /\ \A h \in 1 .. n : bs[h] \in Seq(Sent)
  OBVIOUS
<1>2. ASSUME NEW s \in State, NEW h \in 2 .. n
      PROVE  ApplyBlock(s, bs[h], h - 1).st \in State
  <2>1. h - 1 \in Nat /\ bs[h] \in Seq(Sent)
    BY <1>1
  <2> QED
    BY <2>1, BlockFacts
<1>3. Steps(step, State, 1, n)
  <2>1. \A h \in 1 + 1 .. n : h \in 2 .. n
    OBVIOUS
  <2> QED
    BY <1>2, <2>1 DEF Steps
<1>4. \E f : Solves(f)
  <2>1. PICK f : Follows(f, step, State, 1, n, GenesisState)
    <3>1. 1 \in Int /\ n \in Int /\ 1 <= n
      BY <1>1
    <3> HIDE DEF step, n
    <3> QED
      BY <1>3, <3>1, GenesisType, RecursionExists
  <2>2. /\ f \in [1 .. n -> State] /\ f[1] = GenesisState
        /\ \A h \in 2 .. n : f[h] = step[h][f[h-1]]
    <3>1. 1 + 1 = 2
      OBVIOUS
    <3> HIDE DEF step, n
    <3> QED
      BY <2>1, <3>1 DEF Follows
  <2>3. ASSUME NEW h \in 2 .. n
        PROVE  f[h] = ApplyBlock(f[h-1], bs[h], h - 1).st
    <3>1. f[h-1] \in State
      <4>1. h - 1 \in 1 .. n
        BY <1>1
      <4> QED
        BY <2>2, <4>1
    <3> QED
      BY <2>2, <3>1
  <2>4. Solves(f)
    <3>1. \A h \in 1 .. n : h # 1 => h \in 2 .. n
      BY <1>1
    <3> HIDE DEF step, n
    <3> QED
      BY <2>2, <2>3, <3>1
  <2> QED
    BY <2>4
<1>5. Solves(K)
  <2>1. K = CHOOSE f : Solves(f)
    BY DEF Chain
  <2> HIDE DEF Solves, K
  <2> QED
    BY <1>4, <2>1
<1>6. K[1] = GenesisState
  <2>1. 1 \in 1 .. n
    BY <1>1
  <2> HIDE DEF K, n
  <2> QED
    BY <1>5, <2>1
<1>7. ASSUME NEW h \in 2 .. n
      PROVE  K[h] = ApplyBlock(K[h-1], bs[h], h - 1).st
  <2>1. h \in 1 .. n /\ h # 1
    BY <1>1
  <2> HIDE DEF K, n
  <2> QED
    BY <1>5, <2>1
<1> DEFINE Q == {h \in 1 .. n : K[h] \in State}
<1> HIDE DEF K, n, step, Solves
<1>8. 1 \in Q
  BY <1>1, <1>6, GenesisType
<1>9. ASSUME NEW h \in 1 .. n - 1, h \in Q
      PROVE  h + 1 \in Q
  <2>1. h + 1 \in 2 .. n /\ (h + 1) - 1 = h /\ h + 1 \in 1 .. n
    BY <1>1
  <2> QED
    BY <1>2, <1>7, <1>9, <2>1
<1>10. 1 .. n \subseteq Q
  <2> HIDE DEF Q
  <2>1. /\ 1 \in Int /\ n \in Int
        /\ \A h \in 1 .. n - 1 : h \in Q => h + 1 \in Q
    BY <1>1, <1>9
  <2> QED
    BY <1>8, <2>1, IntervalInduction
<1> QED
  BY <1>6, <1>7, <1>10 DEF K, n

\* A block more leaves the states before it as they are.
LEMMA ChainAppend ==
  ASSUME NEW bs \in Seq(Seq(Sent)), bs # <<>>, NEW b \in Seq(Sent)
  PROVE  \A h \in 1 .. Len(bs) : Chain(Append(bs, b))[h] = Chain(bs)[h]
<1> DEFINE n == Len(bs)
           more == Append(bs, b)
           C == Chain(bs)
           D == Chain(more)
           Q == {h \in 1 .. n : D[h] = C[h]}
<1>1. /\ n \in Nat /\ n >= 1 /\ more \in Seq(Seq(Sent)) /\ Len(more) = n + 1
      /\ \A h \in 1 .. n : more[h] = bs[h]
  BY AppendProperties
<1>2. C[1] = GenesisState /\ \A h \in 2 .. n : C[h] = ApplyBlock(C[h-1], bs[h], h - 1).st
  BY ChainUnfold
<1>3. D[1] = GenesisState /\ \A h \in 2 .. n + 1 : D[h] = ApplyBlock(D[h-1], more[h], h - 1).st
  <2>1. more # <<>>
    BY <1>1
  <2> HIDE DEF more, n
  <2> QED
    BY <1>1, <2>1, ChainUnfold
<1> HIDE DEF n, more, C, D
<1>4. 1 \in Q
  BY <1>1, <1>2, <1>3
<1>5. ASSUME NEW h \in 1 .. n - 1, h \in Q
      PROVE  h + 1 \in Q
  <2>1. /\ h + 1 \in 2 .. n /\ h + 1 \in 2 .. n + 1
        /\ (h + 1) - 1 = h /\ h + 1 \in 1 .. n
    BY <1>1
  <2>2. D[h+1] = ApplyBlock(D[h], bs[h+1], h).st /\ C[h+1] = ApplyBlock(C[h], bs[h+1], h).st
    BY <1>1, <1>2, <1>3, <2>1
  <2> QED
    BY <1>5, <2>1, <2>2
<1>6. 1 .. n \subseteq Q
  <2> HIDE DEF Q
  <2>1. /\ 1 \in Int /\ n \in Int
        /\ \A h \in 1 .. n - 1 : h \in Q => h + 1 \in Q
    BY <1>1, <1>5
  <2> QED
    BY <1>4, <2>1, IntervalInduction
<1> QED
  BY <1>6 DEF n, more, C, D

\* Every block of a chain succeeds.
Sound(bs) == \A h \in 2 .. Len(bs) : ApplyBlock(Chain(bs)[h-1], bs[h], h - 1).ok

\* What a block adds: its state keeps what the one before has, and records its
\* transactions.
LEMMA ChainStep ==
  ASSUME NEW bs \in Seq(Seq(Sent)), bs # <<>>, NEW h \in 2 .. Len(bs)
  PROVE  LET C == Chain(bs)
         IN  /\ h - 1 \in 1 .. Len(bs) /\ h - 1 \in Nat /\ h \in 1 .. Len(bs)
             /\ bs[h] \in Seq(Sent)
             /\ C[h-1] \in State /\ C[h] \in State /\ Grows(C[h-1], C[h])
             /\ C[h] = ApplyBlock(C[h-1], bs[h], h - 1).st
             /\ Sound(bs) => \A i \in 1 .. Len(bs[h]) : Recorded(C[h], bs[h][i])
<1> DEFINE C == Chain(bs)
<1>1. h - 1 \in 1 .. Len(bs) /\ h - 1 \in Nat /\ h \in 1 .. Len(bs) /\ bs[h] \in Seq(Sent)
  OBVIOUS
<1>2. /\ C[h] = ApplyBlock(C[h-1], bs[h], h - 1).st
      /\ C[h-1] \in State /\ C[h] \in State
  BY <1>1, ChainUnfold
<1>3. Sound(bs) => ApplyBlock(C[h-1], bs[h], h - 1).ok
  BY DEF Sound
<1> HIDE DEF C
<1>4. /\ Grows(C[h-1], C[h])
      /\ Sound(bs) => \A i \in 1 .. Len(bs[h]) : Recorded(C[h], bs[h][i])
  BY <1>1, <1>2, <1>3, BlockFacts
<1> QED
  BY <1>1, <1>2, <1>4 DEF C

\* The states of a chain keep what the ones before have.
LEMMA ChainGrows ==
  ASSUME NEW bs \in Seq(Seq(Sent)), bs # <<>>, NEW g \in 1 .. Len(bs)
  PROVE  \A h \in g .. Len(bs) : Grows(Chain(bs)[g], Chain(bs)[h])
<1> DEFINE C == Chain(bs)
           n == Len(bs)
           Q == {h \in g .. n : Grows(C[g], C[h])}
<1>1. n \in Nat /\ g \in Nat /\ g >= 1 /\ g <= n
  OBVIOUS
<1>2. \A h \in 1 .. n : C[h] \in State
  BY ChainUnfold
<1>3. ASSUME NEW h \in 2 .. n PROVE Grows(C[h-1], C[h])
  BY ChainStep
<1> HIDE DEF C, n
<1>4. g \in Q
  <2>1. g \in g .. n /\ g \in 1 .. n
    BY <1>1
  <2> QED
    BY <1>2, <2>1, GrowsReflexive
<1>5. ASSUME NEW h \in g .. n - 1, h \in Q
      PROVE  h + 1 \in Q
  <2>1. /\ h + 1 \in 2 .. n /\ (h + 1) - 1 = h /\ h + 1 \in g .. n
        /\ g \in 1 .. n /\ h \in 1 .. n /\ h + 1 \in 1 .. n
    BY <1>1
  <2>2. Grows(C[h], C[h+1])
    BY <1>3, <2>1
  <2>3. Grows(C[g], C[h+1])
    BY <1>2, <1>5, <2>1, <2>2, GrowsTransitive
  <2> QED
    BY <2>1, <2>3
<1>6. g .. n \subseteq Q
  <2> HIDE DEF Q
  <2>1. /\ g \in Int /\ n \in Int
        /\ \A h \in g .. n - 1 : h \in Q => h + 1 \in Q
    BY <1>1, <1>5
  <2> QED
    BY <1>4, <2>1, IntervalInduction
<1> QED
  BY <1>6 DEF C, n

\* Every validator has an account, from genesis on.
LEMMA ChainSeats ==
  ASSUME NEW bs \in Seq(Seq(Sent)), bs # <<>>, NEW h \in 1 .. Len(bs),
         NEW k \in Range(Validators)
  PROVE  Has(Chain(bs)[h], ShortIdOf[k])
<1>1. k \in Key /\ ShortIdOf[k] \in ShortId
  BY KeyAssumption DEF Range
<1>2. Has(GenesisState, ShortIdOf[k])
  <2> DEFINE sid == ShortIdOf[k]
             named == {j \in DOMAIN Allocation : ShortIdOf[j] = sid}
             seats == {i \in DOMAIN Validators : ShortIdOf[Validators[i]] = sid}
  <2>1. seats # {} /\ seats \subseteq Nat
    BY KeyAssumption DEF Range
  <2>2. CASE named # {}
    <3>1. PICK j \in named : j = CHOOSE i \in named : TRUE
      BY <2>2
    <3>2. j \in Key /\ Allocation[j] \in Amount
      BY AllocationAssumption
    <3>3. GenesisAccount(sid) = NewAccount(j, Allocation[j])
      BY <2>2, <3>1 DEF GenesisAccount
    <3>4. GenesisAccount(sid) # NoAccount
      BY <3>2, <3>3, NewAccountType
    <3> QED
      BY <1>1, <3>4 DEF GenesisState, Has
  <2>3. CASE named = {}
    <3>1. Min(seats) \in seats
      BY <2>1, MinMember
    <3>2. Validators[Min(seats)] \in Key
      BY <3>1, KeyAssumption
    <3>3. GenesisAccount(sid) = NewAccount(Validators[Min(seats)], 0)
      BY <2>1, <2>3 DEF GenesisAccount
    <3>4. 0 \in Amount
      BY NumberAssumption DEF Amount
    <3>5. GenesisAccount(sid) # NoAccount
      BY <3>2, <3>3, <3>4, NewAccountType
    <3> QED
      BY <1>1, <3>5 DEF GenesisState, Has
  <2> QED
    BY <2>2, <2>3
<1>3. Chain(bs)[1] = GenesisState /\ Chain(bs)[h] \in State
  BY ChainUnfold
<1>4. Grows(Chain(bs)[1], Chain(bs)[h])
  <2>1. 1 \in 1 .. Len(bs) /\ h \in 1 .. Len(bs)
    OBVIOUS
  <2> QED
    BY <2>1, ChainGrows
<1> QED
  BY <1>1, <1>2, <1>3, <1>4 DEF Grows

\* The states of a chain record the transactions of its blocks.
LEMMA ChainRecords ==
  ASSUME NEW bs \in Seq(Seq(Sent)), bs # <<>>, Sound(bs),
         NEW g \in 2 .. Len(bs), NEW h \in g .. Len(bs), NEW tx \in ToSet(bs[g])
  PROVE  tx \in Tx /\ Recorded(Chain(bs)[h], tx)
<1>1. bs[g] \in Seq(Sent) /\ g \in 1 .. Len(bs) /\ h \in 1 .. Len(bs)
  OBVIOUS
<1>2. PICK i \in 1 .. Len(bs[g]) : tx = bs[g][i]
  <2>1. ToSet(bs[g]) = {bs[g][i] : i \in 1 .. Len(bs[g])}
    BY <1>1, MembersOf
  <2> QED
    BY <2>1
<1>3. tx \in Tx
  BY <1>1, <1>2, KeyAssumption
<1>4. Recorded(Chain(bs)[g], tx)
  BY <1>2, ChainStep
<1>5. /\ Grows(Chain(bs)[g], Chain(bs)[h])
      /\ Chain(bs)[g] \in State /\ Chain(bs)[h] \in State
  BY <1>1, ChainGrows, ChainUnfold
<1> QED
  BY <1>3, <1>4, <1>5, RecordedPersists

\* No later block holds a transaction of an earlier one, below the last nonce.
LEMMA ChainDisjoint ==
  ASSUME NEW bs \in Seq(Seq(Sent)), bs # <<>>, Sound(bs),
         \A tx \in Sent : tx.nonce < MaxNonce,
         NEW g \in 2 .. Len(bs), NEW h \in g + 1 .. Len(bs)
  PROVE  ToSet(bs[g]) \cap ToSet(bs[h]) = {}
<1>1. /\ h \in 2 .. Len(bs) /\ h - 1 \in g .. Len(bs) /\ h - 1 \in Nat
      /\ bs[h] \in Seq(Sent)
  OBVIOUS
<1> DEFINE k == Producer(h-1)
           before == Chain(bs)[h-1]
           T == Turns(before, bs[h], k)
           n == Len(bs[h])
<1>2. before \in State /\ ApplyBlock(before, bs[h], h - 1).ok
  BY <1>1, ChainStep DEF Sound
<1>3. k \in Key /\ bs[h] \in Seq(Tx) /\ n \in Nat
  BY <1>1, Producers
<1>4. T[n].ok
  <2> HIDE DEF before
  <2> QED
    BY <1>1, <1>2, BlockFacts
<1>5. /\ \A i \in 1 .. n : T[i] = IF T[i-1].ok THEN ApplyInBlock(T[i-1].st, bs[h][i], k) ELSE T[i-1]
      /\ \A i \in 0 .. n : T[i] \in OutcomeSet
      /\ \A i \in 0 .. n : Grows(before, T[i].st)
      /\ \A i \in 1 .. n : T[i-1].ok
  <2> HIDE DEF before, k
  <2>1. /\ \A i \in 1 .. n : T[i] = IF T[i-1].ok THEN ApplyInBlock(T[i-1].st, bs[h][i], k) ELSE T[i-1]
        /\ \A i \in 0 .. n : T[i] \in OutcomeSet
    BY <1>2, <1>3, TurnsUnfold
  <2>2. \A i \in 0 .. n :
          /\ Grows(before, T[i].st)
          /\ T[i].ok => \A j \in 1 .. i : T[j-1].ok
    BY <1>2, <1>3, TurnsGrow
  <2>3. n \in 0 .. n
    BY <1>3
  <2> QED
    BY <1>4, <2>1, <2>2, <2>3
<1>6. SUFFICES ASSUME NEW tx \in ToSet(bs[g]), tx \in ToSet(bs[h])
               PROVE  FALSE
  OBVIOUS
<1>7. tx \in Tx /\ Recorded(before, tx)
  BY <1>1, ChainRecords
<1>8. PICK i \in 1 .. n : tx = bs[h][i]
  BY <1>1, <1>6, MembersOf
<1>9. tx \in Sent /\ tx.nonce < MaxNonce
  BY <1>1, <1>8
<1> HIDE DEF T, before, k, n
<1>10. T[i].ok
  <2>1. i = n \/ (i + 1 \in 1 .. n /\ (i + 1) - 1 = i)
    BY <1>3
  <2> QED
    BY <1>4, <1>5, <2>1
<1>11. i - 1 \in 0 .. n /\ i \in 0 .. n
  BY <1>3
<1>12. T[i-1].st \in State /\ Grows(before, T[i-1].st)
  BY <1>5, <1>11 DEF OutcomeSet
<1>13. CanApply(T[i-1].st, tx)
  <2>1. ApplyInBlock(T[i-1].st, tx, k).ok
    BY <1>5, <1>8, <1>10
  <2> QED
    BY <2>1 DEF ApplyInBlock, CanApply
<1>14. Recorded(T[i-1].st, tx)
  BY <1>2, <1>7, <1>12, RecordedPersists
<1> QED
  BY <1>7, <1>9, <1>12, <1>13, <1>14, SpentIsRefused

\* No supply of a chain, after a transaction or a block, reaches the last number.
ChainBelowLimit(bs) ==
  LET C == Chain(bs)
  IN  /\ \A h \in 1 .. Len(bs) : C[h].supply < MaxU64
      /\ \A h \in 2 .. Len(bs) : \A i \in 0 .. Len(bs[h]) :
           Turns(C[h-1], bs[h], Producer(h-1))[i].st.supply < MaxU64

\* Below the limit, the books of a chain are exact.
LEMMA ChainExact ==
  ASSUME NEW bs \in Seq(Seq(Sent)), bs # <<>>, Sound(bs), ChainBelowLimit(bs)
  PROVE  \A h \in 1 .. Len(bs) : Exact(Chain(bs)[h])
<1> DEFINE C == Chain(bs)
           n == Len(bs)
           Q == {h \in 1 .. n : Exact(C[h])}
<1>1. n \in Nat /\ n >= 1
  OBVIOUS
<1>2. 1 \in Q
  <2>1. C[1] = GenesisState /\ C[1].supply < MaxU64
    <3>1. 1 \in 1 .. Len(bs)
      OBVIOUS
    <3> QED
      BY <3>1, ChainUnfold DEF ChainBelowLimit
  <2>2. GenesisSupply < MaxU64
    BY <2>1 DEF GenesisState
  <2> QED
    BY <1>1, <2>1, <2>2, GenesisExact
<1>3. ASSUME NEW g \in 1 .. n - 1, g \in Q
      PROVE  g + 1 \in Q
  <2> DEFINE h == g + 1
  <2>1. h \in 2 .. n /\ h - 1 = g /\ h \in 1 .. n
    BY <1>1
  <2> HIDE DEF h
  <2> DEFINE k == Producer(h-1)
             T == Turns(C[h-1], bs[h], k)
             last == T[Len(bs[h])]
  <2>2. /\ h - 1 \in Nat /\ bs[h] \in Seq(Sent) /\ C[h-1] \in State
        /\ C[h] = ApplyBlock(C[h-1], bs[h], h - 1).st
        /\ ApplyBlock(C[h-1], bs[h], h - 1).ok
    BY <2>1, ChainStep DEF Sound
  <2>3. Exact(C[h-1]) /\ C[h].supply < MaxU64
        /\ \A i \in 0 .. Len(bs[h]) : T[i].st.supply < MaxU64
    BY <1>3, <2>1 DEF ChainBelowLimit
  <2>4. k \in Key /\ bs[h] \in Seq(Tx) /\ Len(bs[h]) \in 0 .. Len(bs[h])
    BY <2>2, Producers
  <2> HIDE DEF C, k
  <2>5. last.ok /\ C[h] = Reward(last.st, k, h - 1)
    BY <2>2, BlockFacts DEF k
  <2>6. last.st \in State /\ Exact(last.st)
    BY <2>2, <2>3, <2>4, <2>5, TurnsUnfold, TurnsExact DEF OutcomeSet
  <2>7. Covered(last.st)
    BY <2>6, TotalType DEF Covered, Exact, Amount
  <2> HIDE DEF last
  <2>8. Exact(C[h])
    BY <2>2, <2>3, <2>4, <2>5, <2>6, <2>7, RewardCovered
  <2> QED
    BY <2>1, <2>8 DEF h
<1>4. 1 .. n \subseteq Q
  <2> HIDE DEF Q, n
  <2>1. /\ 1 \in Int /\ n \in Int
        /\ \A h \in 1 .. n - 1 : h \in Q => h + 1 \in Q
    BY <1>1, <1>3
  <2> QED
    BY <1>2, <2>1, IntervalInduction
<1> QED
  BY <1>4

\* A batch of decided blocks leads to their state.
LEMMA BatchFacts ==
  ASSUME blocks \in Seq(Seq(Sent)), blocks # <<>>, Sound(blocks),
         NEW from \in 1 .. Len(blocks), NEW to \in from .. Len(blocks)
  PROVE  Batch(Chain(blocks)[from], from, to)
           = [ok |-> TRUE, st |-> Chain(blocks)[to], done |-> to]
<1> DEFINE C == Chain(blocks)
           Further(r, h) == LET b == ApplyBlock(r.st, blocks[h], h - 1)
                          IN  IF ~r.ok THEN r
                              ELSE [ok |-> b.ok, st |-> b.st,
                                    done |-> IF b.ok THEN h ELSE r.done]
           At(h) == [ok |-> TRUE, st |-> C[h], done |-> h]
           Solves(f) == f = [h \in from .. to |->
                               IF h = from THEN [ok |-> TRUE, st |-> C[from], done |-> from]
                               ELSE LET r == f[h-1]
                                        b == ApplyBlock(r.st, blocks[h], h - 1)
                                    IN  IF ~r.ok THEN r
                                        ELSE [ok |-> b.ok, st |-> b.st,
                                              done |-> IF b.ok THEN h ELSE r.done]]
           W == [h \in from .. to |-> At(h)]
           F == CHOOSE f : Solves(f)
           Q == {h \in from .. to : F[h] = At(h)}
<1>1. from \in Int /\ to \in Int /\ from >= 1 /\ from <= to /\ to <= Len(blocks)
  OBVIOUS
<1>2. ASSUME NEW h \in from + 1 .. to
      PROVE  Further(At(h-1), h) = At(h)
  <2> DEFINE b == ApplyBlock(C[h-1], blocks[h], h - 1)
  <2>1. h \in 2 .. Len(blocks)
    BY <1>1
  <2>2. /\ b \in OutcomeSet /\ b.ok /\ C[h] = b.st
    <3>1. /\ h - 1 \in Nat /\ blocks[h] \in Seq(Sent) /\ C[h-1] \in State
          /\ C[h] = b.st
      BY <2>1, ChainStep
    <3>2. b.ok
      BY <2>1 DEF Sound
    <3> HIDE DEF C
    <3> QED
      BY <3>1, <3>2, BlockFacts
  <2>3. b.ok = TRUE
    BY <2>2 DEF OutcomeSet
  <2>4. At(h-1).ok = TRUE /\ At(h-1).st = C[h-1]
    OBVIOUS
  <2>5. Further(At(h-1), h) = [ok |-> b.ok, st |-> b.st, done |-> h]
    <3> HIDE DEF At, C
    <3> QED
      BY <2>2, <2>4
  <2> HIDE DEF b
  <2> QED
    BY <2>2, <2>3, <2>5
<1> HIDE DEF C
<1>3. Solves(W)
  <2>1. ASSUME NEW h \in from .. to, h # from
        PROVE  W[h] = Further(W[h-1], h)
    <3>1. h \in from + 1 .. to /\ h - 1 \in from .. to
      BY <1>1, <2>1
    <3>2. W[h] = At(h) /\ W[h-1] = At(h-1)
      BY <3>1
    <3> HIDE DEF W, At, Further
    <3> QED
      BY <1>2, <3>1, <3>2
  <2>2. from \in from .. to /\ W[from] = At(from)
    BY <1>1
  <2>3. W = [h \in from .. to |-> IF h = from THEN At(from) ELSE Further(W[h-1], h)]
    <3>1. \A h \in from .. to : W[h] = IF h = from THEN At(from) ELSE Further(W[h-1], h)
      <4> HIDE DEF W, At, Further
      <4> QED
        BY <2>1, <2>2
    <3>2. W = [h \in from .. to |-> W[h]]
      OBVIOUS
    <3> HIDE DEF W, At, Further
    <3> QED
      BY <3>1, <3>2
  <2> HIDE DEF W
  <2> QED
    BY <2>3
<1>4. Solves(F)
  <2> HIDE DEF Solves, W
  <2> QED
    BY <1>3
<1>5. /\ F[from] = At(from)
      /\ \A h \in from + 1 .. to : F[h] = Further(F[h-1], h)
  <2> HIDE DEF F
  <2>1. /\ from \in from .. to
        /\ \A h \in from + 1 .. to : h \in from .. to /\ h # from
    BY <1>1
  <2>2. F[from] = At(from)
    BY <1>4, <2>1
  <2>3. ASSUME NEW h \in from + 1 .. to
        PROVE  F[h] = Further(F[h-1], h)
    BY <1>4, <2>1
  <2> QED
    BY <2>2, <2>3
<1>6. Batch(C[from], from, to) = F[to]
  BY DEF Batch
<1> HIDE DEF F, At, Further, Solves, W
<1>7. from \in Q
  BY <1>1, <1>5
<1>8. ASSUME NEW h \in from .. to - 1, h \in Q
      PROVE  h + 1 \in Q
  <2>1. h + 1 \in from + 1 .. to /\ (h + 1) - 1 = h /\ h + 1 \in from .. to
    BY <1>1
  <2>2. F[h+1] = Further(F[h], h + 1) /\ F[h] = At(h)
    BY <1>5, <1>8, <2>1
  <2>3. Further(At(h), h + 1) = At(h + 1)
    BY <1>2, <2>1
  <2> QED
    BY <2>1, <2>2, <2>3
<1>9. from .. to \subseteq Q
  <2> HIDE DEF Q
  <2>1. \A h \in from .. to - 1 : h \in Q => h + 1 \in Q
    BY <1>8
  <2> QED
    BY <1>1, <1>7, <2>1, IntervalInduction
<1>10. to \in from .. to
  BY <1>1
<1> QED
  BY <1>6, <1>9, <1>10 DEF At, C

\* enforce_limits and retain_valid keep a sequence of distinct transactions.
LEMMA LimitsType ==
  ASSUME NEW p \in Seq(Sent), IsInjective(p), NEW st
  PROVE  /\ RetainValid(p, st) \in Seq(Sent) /\ IsInjective(RetainValid(p, st))
         /\ EnforceLimits(p, st) \in Seq(Sent) /\ IsInjective(EnforceLimits(p, st))
<1> DEFINE q == RetainValid(p, st)
           d == DropOldest(q)
<1>1. q \in Seq(Sent) /\ IsInjective(q)
  BY RetainFacts DEF RetainValid
<1> HIDE DEF q
<1>2. ASSUME Len(q) > MaxPool
      PROVE  d \in Seq(Sent) /\ IsInjective(d)
  <2> DEFINE m == Len(q) - MaxPool + 1
  <2>1. Len(q) \in Nat /\ m \in 1 .. Len(q) + 1
    BY <1>1, <1>2, PoolAssumption
  <2>2. /\ d \in Seq(Sent) /\ Len(d) = Len(q) - m + 1
        /\ \A i \in 1 .. Len(q) - m + 1 : d[i] = q[m + i - 1]
    <3> HIDE DEF m
    <3>1. d = SubSeq(q, m, Len(q))
      BY DEF DropOldest, m
    <3>2. m <= Len(q) + 1 /\ m \in 1 .. Len(q) + 1 /\ Len(q) \in m - 1 .. Len(q)
      BY <2>1
    <3> QED
      BY <1>1, <3>1, <3>2, SubSeqProperties
  <2>3. \A i, j \in 1 .. Len(q) : q[i] = q[j] => i = j
    BY <1>1, MembersOf
  <2> HIDE DEF m
  <2>4. ASSUME NEW i \in 1 .. Len(d), NEW j \in 1 .. Len(d), d[i] = d[j]
        PROVE  i = j
    <3>1. m + i - 1 \in 1 .. Len(q) /\ m + j - 1 \in 1 .. Len(q)
      BY <2>1, <2>2
    <3>2. q[m + i - 1] = q[m + j - 1]
      BY <2>2, <2>4
    <3>3. m + i - 1 = m + j - 1
      BY <2>3, <3>1, <3>2
    <3> QED
      BY <2>1, <3>3
  <2> HIDE DEF d
  <2> QED
    BY <2>2, <2>4, MembersOf
<1>3. Len(q) \in Nat /\ MaxPool \in Nat
  BY <1>1, PoolAssumption
<1>4. EnforceLimits(p, st) \in {p, q} \/ (Len(q) > MaxPool /\ EnforceLimits(p, st) = d)
  BY <1>3 DEF EnforceLimits, q
<1> HIDE DEF d
<1> QED
  BY <1>1, <1>2, <1>4 DEF q

-----------------------------------------------------------------------------
(* The invariant: every decided block succeeds on the state the blocks     *)
(* before it leave, and every node's ledger is one of those states         *)

MInv ==
  /\ blocks \in Seq(Seq(Sent)) /\ blocks # <<>> /\ blocks[1] = <<>>
  /\ \A h \in 1 .. Len(blocks) : IsInjective(blocks[h]) /\ Len(blocks[h]) <= MaxTxs
  /\ Sound(blocks)
  /\ done \in [Node -> 1 .. Len(blocks)]
  /\ ledger \in [Node -> State]
  /\ \A n \in Node : ledger[n] = Chain(blocks)[done[n]]
  /\ pool \in [Node -> Seq(Sent)]
  /\ \A n \in Node : IsInjective(pool[n])

\* It holds after genesis.
LEMMA InitMInv == Init => MInv
<1> SUFFICES ASSUME Init PROVE MInv
  OBVIOUS
<1> DEFINE bs == << <<>> >>
<1>1. /\ bs \in Seq(Seq(Sent)) /\ bs # <<>> /\ Len(bs) = 1 /\ bs[1] = <<>>
      /\ IsInjective(<<>>) /\ Len(<<>>) = 0 /\ <<>> \in Seq(Sent)
  BY DEF IsInjective
<1>2. blocks = bs
  BY DEF Init
<1> HIDE DEF bs
<1>3. Chain(bs)[1] = GenesisState
  BY <1>1, ChainUnfold
<1>4. Sound(bs)
  BY <1>1 DEF Sound
<1>5. /\ \A h \in 1 .. Len(bs) : h = 1
      /\ 1 \in 1 .. Len(bs) /\ 0 <= MaxTxs
  BY <1>1, NumberAssumption
<1>6. /\ done = [n \in Node |-> 1] /\ ledger = [n \in Node |-> GenesisState]
      /\ pool = [n \in Node |-> <<>>]
  BY DEF Init
<1>7. \A n \in Node : done[n] = 1 /\ ledger[n] = GenesisState /\ pool[n] = <<>>
  BY <1>6
<1>8. \A h \in 1 .. Len(bs) : IsInjective(bs[h]) /\ Len(bs[h]) <= MaxTxs
  BY <1>1, <1>5
<1>9. /\ done \in [Node -> 1 .. Len(bs)] /\ ledger \in [Node -> State]
      /\ pool \in [Node -> Seq(Sent)]
  BY <1>1, <1>5, <1>6, GenesisType
<1> QED
  BY <1>1, <1>2, <1>3, <1>4, <1>7, <1>8, <1>9 DEF MInv

\* A transaction that arrives joins a mempool once, and changes nothing decided.
LEMMA ReceiveMInv ==
  ASSUME MInv, NEW n \in Node, NEW tx \in Sent, Receive(n, tx)
  PROVE  MInv'
<1>1. UNCHANGED <<blocks, done, ledger>>
  BY DEF Receive
<1>2. pool \in [Node -> Seq(Sent)] /\ \A m \in Node : IsInjective(pool[m])
  BY DEF MInv
<1>3. pool' \in [Node -> Seq(Sent)] /\ \A m \in Node : IsInjective(pool'[m])
  <2>1. CASE pool' = pool
    BY <1>2, <2>1
  <2>2. CASE pool' = [pool EXCEPT ![n] = Append(@, tx)] /\ tx \notin ToSet(pool[n])
    <3>1. Append(pool[n], tx) \in Seq(Sent) /\ IsInjective(Append(pool[n], tx))
      BY <1>2, <2>2, MembersOfAppend
    <3> QED
      BY <1>2, <2>2, <3>1
  <2> QED
    BY <2>1, <2>2 DEF Receive, Admits
<1> QED
  BY <1>1, <1>3 DEF MInv

\* What a leader packs on top of everything decided is a block that succeeds.
LEMMA ProposalSucceeds ==
  ASSUME MInv, NEW n \in Node, Len(blocks) = done[n],
         NEW p \in Seq(Sent), IsInjective(p), NEW r \in Take(p, ledger[n])
  PROVE  /\ Append(blocks, r.picked) \in Seq(Seq(Sent))
         /\ Sound(Append(blocks, r.picked))
<1> DEFINE len == Len(blocks)
           st == ledger[n]
           b == r.picked
           bs == Append(blocks, b)
           k == Producer(len)
<1>1. /\ blocks \in Seq(Seq(Sent)) /\ blocks # <<>> /\ Sound(blocks)
      /\ st = Chain(blocks)[len] /\ st \in State
      /\ len \in Nat /\ len >= 1
  BY DEF MInv
<1>2. /\ b \in Seq(Sent)
      /\ \A i \in 1 .. Len(b) : BestPick(p, st, b, i)
  BY <1>1, TakeFacts
<1>3. k \in Range(Validators) /\ k \in Key /\ b \in Seq(Tx)
  BY <1>1, <1>2, Producers
<1>4. Has(st, ShortIdOf[k])
  <2>1. len \in 1 .. Len(blocks)
    BY <1>1
  <2> QED
    BY <1>1, <1>3, <2>1, ChainSeats
<1>5. Turns(st, b, k)[Len(b)].ok
  <2>1. \A i \in 1 .. Len(b) : CanApply(Trials(st, b)[i-1], b[i])
    BY <1>2 DEF BestPick
  <2> HIDE DEF st, b, k
  <2> QED
    BY <1>1, <1>3, <1>4, <2>1, TrialSucceeds
<1>6. ApplyBlock(st, b, len).ok
  <2> HIDE DEF st, b, len
  <2> QED
    BY <1>1, <1>2, <1>5, BlockFacts
<1>7. /\ bs \in Seq(Seq(Sent)) /\ Len(bs) = len + 1 /\ bs[len + 1] = b
      /\ \A h \in 1 .. len : bs[h] = blocks[h]
  <2> HIDE DEF b
  <2> QED
    BY <1>1, <1>2, AppendProperties
<1>8. \A h \in 1 .. len : Chain(bs)[h] = Chain(blocks)[h]
  <2> HIDE DEF b
  <2> QED
    BY <1>1, <1>2, ChainAppend
<1>9. ASSUME NEW h \in 2 .. Len(bs)
      PROVE  ApplyBlock(Chain(bs)[h-1], bs[h], h - 1).ok
  <2>1. h - 1 \in 1 .. len
    BY <1>1, <1>7
  <2>2. CASE h = len + 1
    <3>1. h - 1 = len /\ bs[h] = b /\ Chain(bs)[h-1] = st
      BY <1>1, <1>7, <1>8, <2>1, <2>2
    <3> QED
      BY <1>6, <3>1
  <2>3. CASE h # len + 1
    <3>1. h \in 2 .. len /\ h \in 1 .. len
      BY <1>1, <1>7, <2>3
    <3>2. bs[h] = blocks[h] /\ Chain(bs)[h-1] = Chain(blocks)[h-1]
      BY <1>7, <1>8, <2>1, <3>1
    <3> QED
      BY <1>1, <3>1, <3>2 DEF Sound
  <2> QED
    BY <2>2, <2>3
<1> HIDE DEF bs
<1>10. Sound(bs)
  BY <1>9 DEF Sound
<1> QED
  BY <1>7, <1>10 DEF bs

\* A turn of the loop keeps mempools distinct and adds a block that succeeds.
LEMMA TurnMInv ==
  ASSUME MInv, NEW n \in Node, Turn(n)
  PROVE  MInv'
<1> DEFINE kept == EnforceLimits(pool[n], ledger[n])
<1>1. /\ pool \in [Node -> Seq(Sent)] /\ (\A m \in Node : IsInjective(pool[m]))
      /\ blocks \in Seq(Seq(Sent)) /\ blocks # <<>> /\ ledger \in [Node -> State]
      /\ done \in [Node -> 1 .. Len(blocks)]
  BY DEF MInv
<1>2. kept \in Seq(Sent) /\ IsInjective(kept)
  BY <1>1, LimitsType
<1>3. UNCHANGED <<done, ledger>>
  BY DEF Turn
<1>4. ASSUME NEW q \in Seq(Sent), IsInjective(q), pool' = [pool EXCEPT ![n] = q]
      PROVE  pool' \in [Node -> Seq(Sent)] /\ \A m \in Node : IsInjective(pool'[m])
  BY <1>1, <1>4
<1> HIDE DEF kept
<1>5. CASE Leads(n)
  <2>1. PICK take \in Take(kept, ledger[n]) :
          /\ pool' = [pool EXCEPT ![n] = take.pool]
          /\ blocks' = IF take.picked = <<>> THEN blocks ELSE Append(blocks, take.picked)
    BY <1>5 DEF Turn, kept
  <2> DEFINE b == take.picked
  <2>2. /\ take.pool \in Seq(Sent) /\ IsInjective(take.pool)
        /\ b \in Seq(Sent) /\ IsInjective(b) /\ Len(b) <= MaxTxs
    BY <1>1, <1>2, TakeFacts
  <2>3. pool' \in [Node -> Seq(Sent)] /\ \A m \in Node : IsInjective(pool'[m])
    BY <1>4, <2>1, <2>2
  <2>4. CASE b = <<>>
    <3>1. blocks' = blocks
      BY <2>1, <2>4
    <3> QED
      BY <1>3, <2>3, <3>1 DEF MInv
  <2>5. CASE b # <<>>
    <3>1. blocks' = Append(blocks, b)
      BY <2>1, <2>5
    <3>2. Len(blocks) = done[n]
      BY <1>5 DEF Leads
    <3>3. blocks' \in Seq(Seq(Sent)) /\ Sound(blocks')
      BY <1>2, <3>1, <3>2, ProposalSucceeds
    <3> HIDE DEF b
    <3>4. /\ Len(blocks') = Len(blocks) + 1 /\ blocks'[Len(blocks) + 1] = b
          /\ \A h \in 1 .. Len(blocks) : blocks'[h] = blocks[h]
          /\ Len(blocks) \in Nat /\ Len(blocks) >= 1
      BY <1>1, <2>2, <3>1, AppendProperties
    <3>5. blocks' # <<>> /\ blocks'[1] = <<>>
      BY <1>1, <3>4 DEF MInv
    <3>6. \A h \in 1 .. Len(blocks') : IsInjective(blocks'[h]) /\ Len(blocks'[h]) <= MaxTxs
      <4>1. \A h \in 1 .. Len(blocks') : h \in 1 .. Len(blocks) \/ h = Len(blocks) + 1
        BY <3>4
      <4> QED
        BY <2>2, <3>4, <4>1 DEF MInv
    <3>7. done' \in [Node -> 1 .. Len(blocks')]
      BY <1>1, <1>3, <3>4
    <3>8. \A m \in Node : ledger'[m] = Chain(blocks')[done'[m]]
      <4>1. \A h \in 1 .. Len(blocks) : Chain(blocks')[h] = Chain(blocks)[h]
        BY <1>1, <2>2, <3>1, ChainAppend
      <4> QED
        BY <1>1, <1>3, <4>1 DEF MInv
    <3> QED
      BY <1>1, <1>3, <2>3, <3>3, <3>5, <3>6, <3>7, <3>8 DEF MInv
  <2> QED
    BY <2>4, <2>5
<1>6. CASE ~Leads(n)
  <2>1. pool' = [pool EXCEPT ![n] = kept] /\ blocks' = blocks
    BY <1>6 DEF Turn, kept
  <2>2. pool' \in [Node -> Seq(Sent)] /\ \A m \in Node : IsInjective(pool'[m])
    BY <1>2, <1>4, <2>1
  <2> QED
    BY <1>3, <2>1, <2>2 DEF MInv
<1> QED
  BY <1>5, <1>6

\* The next decided block leads a node to the next state of the chain.
LEMMA ApplyNextMInv ==
  ASSUME MInv, NEW n \in Node, ApplyNext(n)
  PROVE  MInv'
<1> DEFINE h == done[n] + 1
           r == ApplyBlock(ledger[n], blocks[h], done[n])
<1>1. /\ blocks \in Seq(Seq(Sent)) /\ blocks # <<>> /\ Sound(blocks)
      /\ done \in [Node -> 1 .. Len(blocks)] /\ ledger \in [Node -> State]
      /\ done[n] \in 1 .. Len(blocks) /\ ledger[n] = Chain(blocks)[done[n]]
  BY DEF MInv
<1>2. /\ ledger' = [ledger EXCEPT ![n] = r.st]
      /\ done' = IF r.ok THEN [done EXCEPT ![n] = h] ELSE done
      /\ UNCHANGED <<blocks, pool>> /\ done[n] < Len(blocks)
  BY DEF ApplyNext
<1>3. h \in 2 .. Len(blocks) /\ h - 1 = done[n] /\ h \in 1 .. Len(blocks)
  BY <1>1, <1>2
<1>4. r.ok /\ r.st = Chain(blocks)[h] /\ r.st \in State
  <2>1. r = ApplyBlock(Chain(blocks)[h-1], blocks[h], h - 1)
    BY <1>1, <1>3
  <2> HIDE DEF r, h
  <2> QED
    BY <1>1, <1>3, <2>1, ChainStep DEF Sound
<1> HIDE DEF r, h
<1>5. done' = [done EXCEPT ![n] = h] /\ done' \in [Node -> 1 .. Len(blocks)]
  BY <1>1, <1>2, <1>3, <1>4
<1>6. ledger' \in [Node -> State]
  BY <1>1, <1>2, <1>4
<1>7. \A m \in Node : ledger'[m] = Chain(blocks)[done'[m]]
  BY <1>1, <1>2, <1>4, <1>5 DEF MInv
<1> QED
  BY <1>2, <1>5, <1>6, <1>7 DEF MInv

\* A batch leads a node to the state of its last block.
LEMMA CatchUpMInv ==
  ASSUME MInv, NEW n \in Node, NEW k \in 2 .. MaxBlocks, CatchUp(n, k)
  PROVE  MInv'
<1> DEFINE r == Batch(ledger[n], done[n], k)
<1>1. /\ blocks \in Seq(Seq(Sent)) /\ blocks # <<>> /\ Sound(blocks)
      /\ done \in [Node -> 1 .. Len(blocks)] /\ ledger \in [Node -> State]
      /\ done[n] \in 1 .. Len(blocks) /\ ledger[n] = Chain(blocks)[done[n]]
      /\ pool \in [Node -> Seq(Sent)] /\ \A m \in Node : IsInjective(pool[m])
  BY DEF MInv
<1>2. /\ done[n] < k /\ k <= Len(blocks)
      /\ ledger' = [ledger EXCEPT ![n] = r.st]
      /\ done' = [done EXCEPT ![n] = r.done]
      /\ pool' = IF r.done > done[n] THEN [pool EXCEPT ![n] = RetainValid(@, r.st)] ELSE pool
      /\ UNCHANGED blocks
  BY DEF CatchUp
<1>3. k \in done[n] .. Len(blocks) /\ k \in 1 .. Len(blocks)
  BY <1>1, <1>2
<1>4. r = [ok |-> TRUE, st |-> Chain(blocks)[k], done |-> k]
  BY <1>1, <1>3, BatchFacts
<1>5. r.st = Chain(blocks)[k] /\ r.done = k /\ r.st \in State
  BY <1>1, <1>3, <1>4, ChainUnfold
<1> HIDE DEF r
<1>6. done' = [done EXCEPT ![n] = k] /\ done' \in [Node -> 1 .. Len(blocks)]
  BY <1>1, <1>2, <1>3, <1>5
<1>7. ledger' \in [Node -> State]
  BY <1>1, <1>2, <1>5
<1>8. \A m \in Node : ledger'[m] = Chain(blocks)[done'[m]]
  BY <1>1, <1>2, <1>5, <1>6 DEF MInv
<1>9. pool' \in [Node -> Seq(Sent)] /\ \A m \in Node : IsInjective(pool'[m])
  <2> DEFINE q == RetainValid(pool[n], r.st)
  <2>1. q \in Seq(Sent) /\ IsInjective(q)
    BY <1>1, LimitsType
  <2>2. pool' \in {pool, [pool EXCEPT ![n] = q]}
    BY <1>2
  <2> HIDE DEF q
  <2> QED
    BY <1>1, <2>1, <2>2
<1> QED
  BY <1>2, <1>6, <1>7, <1>8, <1>9 DEF MInv

\* So the invariant holds in every state of every behaviour.
THEOREM BlocksSucceed == Spec => []MInv
<1>1. ASSUME MInv, [Next]_vars
      PROVE  MInv'
  <2>1. ASSUME NEW n \in Node, NEW tx \in Sent, Submit(n, tx)
        PROVE  MInv'
    BY <1>1, <2>1 DEF Submit, MInv
  <2>2. ASSUME NEW n \in Node, NEW tx \in Sent, Receive(n, tx)
        PROVE  MInv'
    BY <1>1, <2>2, ReceiveMInv
  <2>3. ASSUME NEW n \in Node, Turn(n)
        PROVE  MInv'
    BY <1>1, <2>3, TurnMInv
  <2>4. ASSUME NEW n \in Node, ApplyNext(n)
        PROVE  MInv'
    BY <1>1, <2>4, ApplyNextMInv
  <2>5. ASSUME NEW n \in Node, NEW k \in 2 .. MaxBlocks, CatchUp(n, k)
        PROVE  MInv'
    BY <1>1, <2>5, CatchUpMInv
  <2>6. CASE UNCHANGED vars
    BY <1>1, <2>6 DEF vars, MInv
  <2> QED
    BY <1>1, <2>1, <2>2, <2>3, <2>4, <2>5, <2>6 DEF Next
<1> QED
  BY <1>1, InitMInv, PTL DEF Spec

-----------------------------------------------------------------------------
(* What follows from it                                                    *)

\* A transaction is in one mempool slot and in one block: while no nonce is the
\* last one (NextNonce saturates there and would let it apply again), the
\* state refuses what it has a record of.
THEOREM IncludedOnce ==
  ASSUME \A tx \in Sent : tx.nonce < MaxNonce
  PROVE  Spec => []TypeOK
<1>1. ASSUME MInv
      PROVE  TypeOK
  <2>1. /\ blocks \in Seq(Seq(Sent)) /\ blocks # <<>> /\ blocks[1] = <<>> /\ Sound(blocks)
        /\ DOMAIN blocks = 1 .. Len(blocks)
        /\ Len(blocks) \in Nat
    BY <1>1 DEF MInv
  <2>2. ToSet(<<>>) = {}
    BY DEF ToSet
  <2>3. ASSUME NEW g \in DOMAIN blocks, NEW h \in DOMAIN blocks, g < h
        PROVE  InBlock(g) \cap InBlock(h) = {}
    <3>1. CASE g = 1
      BY <2>1, <2>2, <3>1 DEF InBlock
    <3>2. CASE g # 1
      <4>1. g \in 2 .. Len(blocks) /\ h \in g + 1 .. Len(blocks)
        BY <2>1, <2>3, <3>2
      <4> QED
        BY <2>1, <4>1, ChainDisjoint DEF InBlock
    <3> QED
      BY <3>1, <3>2
  <2>4. ASSUME NEW g \in DOMAIN blocks, NEW h \in DOMAIN blocks, g # h
        PROVE  InBlock(g) \cap InBlock(h) = {}
    <3>1. g < h \/ h < g
      BY <2>1, <2>4
    <3>2. g < h => InBlock(g) \cap InBlock(h) = {}
      BY <2>3
    <3>3. h < g => InBlock(h) \cap InBlock(g) = {}
      BY <2>3
    <3> QED
      BY <3>1, <3>2, <3>3
  <2> QED
    BY <1>1, <2>1, <2>4 DEF MInv, TypeOK
<1> QED
  BY <1>1, BlocksSucceed, PTL

\* What a leader packs on its trial copy applies at every node that reaches it.
THEOREM NoHalfBlocks == Spec => []BlocksApply
<1>1. ASSUME MInv
      PROVE  BlocksApply
  <2>1. ASSUME NEW n \in Node, done[n] < Len(blocks)
        PROVE  ApplyBlock(ledger[n], blocks[done[n] + 1], done[n]).ok
    <3>1. /\ done[n] \in 1 .. Len(blocks) /\ Len(blocks) \in Nat /\ Sound(blocks)
          /\ ledger[n] = Chain(blocks)[done[n]]
      BY <1>1 DEF MInv
    <3>2. done[n] + 1 \in 2 .. Len(blocks) /\ (done[n] + 1) - 1 = done[n]
      BY <2>1, <3>1
    <3> QED
      BY <3>1, <3>2 DEF Sound
  <2> QED
    BY <2>1 DEF BlocksApply
<1> QED
  BY <1>1, BlocksSucceed, PTL

BelowLimit == ChainBelowLimit(blocks)

\* While no supply on the way reaches 2^64 - 1 (from where additions saturate),
\* the balances of every node add up to its supply after every block.
THEOREM ValueIsConserved == Spec /\ []BelowLimit => []SupplyIsBalances
<1>1. ASSUME MInv, BelowLimit
      PROVE  SupplyIsBalances
  <2>1. ASSUME NEW n \in Node
        PROVE  TotalBalance(ledger[n]) = ledger[n].supply
    <3>1. /\ blocks \in Seq(Seq(Sent)) /\ blocks # <<>> /\ Sound(blocks)
          /\ done[n] \in 1 .. Len(blocks) /\ ledger[n] = Chain(blocks)[done[n]]
      BY <1>1 DEF MInv
    <3>2. Exact(Chain(blocks)[done[n]])
      BY <1>1, <3>1, ChainExact DEF BelowLimit
    <3> QED
      BY <3>1, <3>2 DEF Exact
  <2> QED
    BY <2>1 DEF SupplyIsBalances
<1> QED
  BY <1>1, BlocksSucceed, PTL

\* Packing is greedy: every pick pays the most of what applies at that point,
\* a block is full or nothing that applies is left, and what is not picked is
\* kept exactly if it applies before the picks or behind them.
THEOREM PackingIsGreedy == Spec => []TakeIsGreedy
<1>1. ASSUME MInv
      PROVE  TakeIsGreedy
  <2>1. ASSUME NEW n \in Node, NEW r \in Take(pool[n], ledger[n])
        PROVE  LET st   == ledger[n]
                   Left(i) == Pooled(n) \ ToSet(SubSeq(r.picked, 1, i))
                   last == Len(r.picked)
               IN  /\ \A i \in 1 .. last : \A t \in Left(i) :
                        CanApply(After(st, r.picked, i - 1), t) => Fee(r.picked[i]) >= Fee(t)
                   /\ \/ last = MaxTxs
                      \/ \A t \in Left(last) : ~CanApply(After(st, r.picked, last), t)
                   /\ ToSet(r.pool) = {t \in Left(last) :
                                         \/ CanApply(st, t)
                                         \/ CanApply(After(st, r.picked, last), t)}
    <3>1. pool[n] \in Seq(Sent) /\ IsInjective(pool[n]) /\ ledger[n] \in State
      BY <1>1 DEF MInv
    <3>2. /\ ToSet(r.pool) = KeptOf(pool[n], ledger[n], r.picked)
          /\ r.picked \in Seq(Sent)
          /\ \A i \in 1 .. Len(r.picked) : BestPick(pool[n], ledger[n], r.picked, i)
          /\ \/ Len(r.picked) = MaxTxs
             \/ \A t \in ToSet(pool[n]) \ ToSet(r.picked) :
                  ~CanApply(Trials(ledger[n], r.picked)[Len(r.picked)], t)
      BY <2>1, <3>1, TakeFacts
    <3>3. SubSeq(r.picked, 1, Len(r.picked)) = r.picked
      BY <3>2
    <3> QED
      BY <3>2, <3>3 DEF BestPick, KeptOf, After, Pooled
  <2> QED
    BY <2>1 DEF TakeIsGreedy
<1> QED
  BY <1>1, BlocksSucceed, PTL

=============================================================================
