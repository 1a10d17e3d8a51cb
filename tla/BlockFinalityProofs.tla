------------------------ MODULE BlockFinalityProofs ------------------------
(***************************************************************************)
(* Proofs about BlockFinality.  For all constants: type correctness, and   *)
(* that a validator serves what it saved.  When any two quorums share a    *)
(* validator that never restarts and no block comes later than pruning     *)
(* keeps what was signed: agreement, certification, one vote per height,   *)
(* the action properties of the files a node keeps, and that BlockFinality *)
(* implements FinalLog.                                                    *)
(***************************************************************************)
EXTENDS BlockFinality, FiniteSetTheorems, SequenceTheorems, TLAPS

-----------------------------------------------------------------------------
(* The constants.                                                          *)

\* Seats are nodes, every height has a leader and thresholds are numbers.
LEMMA Seats ==
  /\ Validator \subseteq Node /\ Observer \subseteq Node
  /\ \A n \in Observer : n \notin Validator
  /\ \A h \in Nat : Leader(h) \in Validator
  /\ \A n \in Node : Signer(n) \subseteq Validator
  /\ IsFiniteSet(Validator) /\ Cardinality(Validator) = N
  /\ Threshold \in Nat
<1>1. N \in Nat \ {0} /\ M \in Nat
  BY NetworkAssumption
<1>2. IsFiniteSet(Validator) /\ Cardinality(Validator) = N
  BY <1>1, FS_Interval DEF Validator
<1>3. \A h \in Nat : Leader(h) \in Validator
  BY <1>1 DEF Leader, Validator
<1>4. Threshold \in Nat
  BY <1>1 DEF Threshold
<1> QED
  BY <1>1, <1>2, <1>3, <1>4 DEF Validator, Observer, Node, Signer

(* Two sets of ceil(2N/3) validators share one that never restarts.        *)
LEMMA QuorumsMeet ==
  ASSUME RestartBound,
         NEW A \in SUBSET Validator, Cardinality(A) >= Threshold,
         NEW B \in SUBSET Validator, Cardinality(B) >= Threshold
  PROVE  \E v \in A \cap B : v \notin Restartable
<1> DEFINE R == Restartable \cap Validator
<1>1. /\ IsFiniteSet(A) /\ IsFiniteSet(B) /\ IsFiniteSet(R)
      /\ IsFiniteSet(A \cap B) /\ IsFiniteSet(A \cup B)
  BY Seats, FS_Subset, FS_Intersection, FS_Union
<1>2. Cardinality(A \cup B) =
        Cardinality(A) + Cardinality(B) - Cardinality(A \cap B)
  BY <1>1, FS_Union
<1>3. Cardinality(A \cup B) <= N
  BY Seats, FS_Subset, A \cup B \in SUBSET Validator
<1>4. /\ Cardinality(A) \in Nat /\ Cardinality(B) \in Nat
      /\ Cardinality(A \cap B) \in Nat /\ Cardinality(A \cup B) \in Nat
      /\ Cardinality(R) \in Nat
  BY <1>1, FS_CardinalityType
<1>5. Cardinality(A \cap B) > Cardinality(R)
  BY <1>2, <1>3, <1>4, Seats, NetworkAssumption DEF RestartBound
<1>6. ~(A \cap B \subseteq R)
  <2> SUFFICES ASSUME A \cap B \subseteq R PROVE FALSE
    OBVIOUS
  <2>1. Cardinality(A \cap B) <= Cardinality(R)
    BY <1>1, FS_Subset
  <2> QED
    BY <2>1, <1>4, <1>5
<1> QED
  BY <1>6

(* When fewer than a third of the validators may restart, any two quorums  *)
(* share one that does not.                                                *)
LEMMA ThirdSuffices ==
  ASSUME 3 * Cardinality(Restartable \cap Validator) < N
  PROVE  RestartBound
<1>1. Cardinality(Restartable \cap Validator) \in Nat
  BY Seats, FS_Subset, FS_CardinalityType, Restartable \cap Validator \in SUBSET Validator
<1> QED
  BY <1>1, NetworkAssumption DEF RestartBound, Threshold

-----------------------------------------------------------------------------
(* Type correctness.                                                       *)

\* Before the genesis seal every variable has its type.
LEMMA InitType == Init => TypeOK
  BY NetworkAssumption DEF Init, TypeOK

\* on_block keeps the type of the maps it writes.
LEMMA HandleBlockType ==
  ASSUME TypeOK, NEW n \in Node, NEW b \in Block, HandleBlock(n, b)
  PROVE  /\ pending' \in [Node -> SUBSET Block] /\ seen' \in [Node -> SUBSET Block]
         /\ todo' \in [Node -> SUBSET Block]
         /\ acks' \in [Node -> SUBSET (Block \X Validator)]
         /\ sentAcks' \in SUBSET (Block \X Validator)
<1>1. CASE Conflicts(n, b)
  BY <1>1 DEF HandleBlock, TypeOK, memory
<1>2. CASE ~Conflicts(n, b)
  <2>1. {<<b, v>> : v \in Signer(n)} \subseteq Block \X Validator
    BY Seats
  <2>2. {<<b, v>> : v \in {Leader(Height[b])} \cup Signer(n)} \subseteq Block \X Validator
    BY Seats, BlockAssumption
  <2>3. /\ seen' = [seen EXCEPT ![n] = @ \cup {b}]
        /\ pending' = [pending EXCEPT ![n] = @ \cup ({b} \ Applied(n))]
        /\ acks' = [acks EXCEPT ![n] =
                      @ \cup {<<b, v>> : v \in {Leader(Height[b])} \cup Signer(n)}]
        /\ sentAcks' = sentAcks \cup {<<b, v>> : v \in Signer(n)}
        /\ todo' = [todo EXCEPT ![n] = Try(n, pending'[n], acks'[n], b)]
    BY <1>2, Zenon DEF HandleBlock
  <2>4. Try(n, pending'[n], acks'[n], b) \in SUBSET Block
    BY DEF Try
  <2>5. acks' \in [Node -> SUBSET (Block \X Validator)]
    BY <2>2, <2>3 DEF TypeOK
  <2>6. sentAcks' \in SUBSET (Block \X Validator)
    BY <2>1, <2>3 DEF TypeOK
  <2> QED
    BY <2>3, <2>4, <2>5, <2>6 DEF TypeOK
<1> QED
  BY <1>1, <1>2

\* Every handler, crash included, keeps the type of the state.
LEMMA NextType == TypeOK /\ [Next]_vars => TypeOK'
<1> SUFFICES ASSUME TypeOK, [Next]_vars PROVE TypeOK'
  OBVIOUS
<1> USE DEF TypeOK
<1>1. ASSUME NEW n \in Node, NEW b \in Block, Propose(n, b) PROVE TypeOK'
  BY <1>1, HandleBlockType DEF Propose, files
<1>2. ASSUME NEW n \in Node, NEW b \in Block, OnBlock(n, b) PROVE TypeOK'
  BY <1>2, HandleBlockType DEF OnBlock, files
<1>3. ASSUME NEW n \in Node, NEW b \in Block, NEW v \in Validator, OnBlockAck(n, b, v)
      PROVE  TypeOK'
  BY <1>3 DEF OnBlockAck, Try, files, messages
<1>4. ASSUME NEW n \in Node, NEW b \in Block, Finalize(n, b) PROVE TypeOK'
  <2>1. Append(chain[n], b) \in Seq(Block) /\ Archived(archive[n], b) \in SUBSET Block
    BY AppendProperties DEF Archived
  <2>2. CASE Linked(n, b)
    <3>1. /\ chain' = [chain EXCEPT ![n] = Append(@, b)]
          /\ archive' = [archive EXCEPT ![n] = Archived(@, b)]
          /\ UNCHANGED todo
      BY <1>4, <2>2, Zenon DEF Finalize
    <3> QED
      BY <1>4, <2>1, <3>1 DEF Finalize, messages
  <2>3. CASE ~Linked(n, b)
    <3>1. /\ todo' = [todo EXCEPT ![n] = @ \ {b}]
          /\ UNCHANGED <<chain, archive>>
      BY <1>4, <2>3, Zenon DEF Finalize
    <3> QED
      BY <1>4, <3>1 DEF Finalize, messages
  <2> QED
    BY <2>2, <2>3
<1>5. ASSUME NEW n \in Node, SaveState(n) PROVE TypeOK'
  <2>1. CASE todo[n] = {}
    BY <1>5, <2>1 DEF SaveState, messages
  <2>2. CASE todo[n] # {}
    <3>1. /\ acks' = [acks EXCEPT ![n] = {a \in @ : a[1] # Tip(n)}]
          /\ todo' = [todo EXCEPT ![n] =
                        (@ \ {Tip(n)}) \cup NextCandidates(n, acks'[n])]
      BY <1>5, <2>2, Zenon DEF SaveState
    <3>2. NextCandidates(n, acks'[n]) \in SUBSET Block
      BY DEF NextCandidates
    <3>3. acks' \in [Node -> SUBSET (Block \X Validator)]
      BY <3>1
    <3> QED
      BY <1>5, <3>1, <3>2, <3>3 DEF SaveState, messages
  <2> QED
    BY <2>1, <2>2
<1>6. ASSUME NEW n \in Node, NEW m \in Node, NEW b \in Block, CatchUp(n, m, b)
      PROVE  TypeOK'
  <2>1. chain' \in [Node -> Seq(Block)]
    BY <1>6, AppendProperties DEF CatchUp
  <2>2. archive' \in [Node -> SUBSET Block]
    BY <1>6 DEF CatchUp, Archived
  <2> QED
    BY <1>6, <2>1, <2>2 DEF CatchUp, memory, messages
<1>7. ASSUME NEW n \in Node, NEW m \in Node, NEW k \in DOMAIN disk[m],
             AdoptSnapshot(n, m, k)
      PROVE  TypeOK'
  <2>1. SubSeq(disk[m], 1, k) \in Seq(Block)
    BY SubSeqProperties, LenProperties, ElementOfSeq
  <2> QED
    BY <1>7, <2>1 DEF AdoptSnapshot, messages
<1>8. ASSUME NEW n \in Node, PruneSeen(n) PROVE TypeOK'
  BY <1>8 DEF PruneSeen, files, messages
<1>9. ASSUME NEW n \in Node, PruneAcks(n) PROVE TypeOK'
  BY <1>9 DEF PruneAcks, files, messages
<1>10. ASSUME NEW n \in Node, Restart(n) PROVE TypeOK'
  BY <1>10, NetworkAssumption DEF Restart, files, messages
<1>11. CASE UNCHANGED vars
  BY <1>11 DEF vars, memory, files, messages
<1> QED
  BY <1>1, <1>2, <1>3, <1>4, <1>5, <1>6, <1>7, <1>8, <1>9, <1>10, <1>11
  DEF Next, GossipNext

(* Every reachable state of the network has its type, for any number of    *)
(* validators, observers, blocks and restarts.                             *)
THEOREM TypeCorrect == Spec => []TypeOK
  BY InitType, NextType, PTL DEF Spec

-----------------------------------------------------------------------------
(* Signatures are never withdrawn.                                         *)

\* Only validators sign: the signers of a block are a finite set of seats.
LEMMA SignersAreValidators ==
  ASSUME TypeOK, NEW b \in Block
  PROVE  /\ Signers(b) \in SUBSET Validator
         /\ IsFiniteSet(Signers(b)) /\ Cardinality(Signers(b)) \in Nat
<1>1. Signers(b) \in SUBSET Validator
  BY Seats, BlockAssumption DEF Signers, AckedBy
<1> QED
  BY <1>1, Seats, FS_Subset, FS_CardinalityType

\* Messages once sent stay sent, so signers and certified blocks only grow.
LEMMA SignersGrow ==
  ASSUME TypeOK, TypeOK', sentBlocks \subseteq sentBlocks', sentAcks \subseteq sentAcks'
  PROVE  /\ \A b \in Block : Signers(b) \subseteq Signers(b)'
         /\ Certified \subseteq Certified'
<1>1. ASSUME NEW b \in Block PROVE Signers(b) \subseteq Signers(b)'
  BY DEF Signers, AckedBy
<1>2. ASSUME NEW b \in Certified PROVE b \in Certified'
  <2>0. b \in Block
    BY DEF Certified
  <2>1. Signers(b)' \in SUBSET Validator
    BY <2>0, Seats, BlockAssumption DEF Signers, AckedBy
  <2>2. IsFiniteSet(Signers(b)')
    BY <2>1, Seats, FS_Subset
  <2>3. Cardinality(Signers(b)) <= Cardinality(Signers(b)')
    BY <1>1, <2>0, <2>2, FS_Subset
  <2>4. Cardinality(Signers(b)) \in Nat /\ Cardinality(Signers(b)') \in Nat
    BY <2>0, <2>2, SignersAreValidators, FS_CardinalityType
  <2> QED
    BY <2>0, <2>3, <2>4, Seats DEF Certified
<1> QED
  BY <1>1, <1>2

\* A step that sends nothing changes no signature.
LEMMA SignersStay ==
  ASSUME UNCHANGED messages
  PROVE  Certified' = Certified /\ \A b : Signers(b)' = Signers(b)
  BY DEF Certified, Signers, AckedBy, messages

\* Enough acknowledgements of signers make a block certified.
LEMMA FinalImpliesCertified ==
  ASSUME TypeOK, NEW A \in SUBSET (Block \X Validator), NEW b \in Block,
         \A a \in A : a[2] \in Signers(a[1]), IsFinal(A, b)
  PROVE  b \in Certified
<1>1. AckedBy(A, b) \subseteq Signers(b)
  BY DEF AckedBy
<1>2. /\ IsFiniteSet(Signers(b)) /\ Cardinality(Signers(b)) \in Nat
      /\ AckedBy(A, b) \in SUBSET Signers(b)
  BY <1>1, SignersAreValidators
<1>3. /\ Cardinality(AckedBy(A, b)) <= Cardinality(Signers(b))
      /\ Cardinality(AckedBy(A, b)) \in Nat
  BY <1>2, FS_Subset, FS_CardinalityType
<1> QED
  BY <1>2, <1>3, Seats DEF Certified, IsFinal

\* The next height is a number.
LEMMA ExpectedIsNat == TypeOK => \A n \in Node : Expected(n) \in Nat
  BY DEF TypeOK, Expected

(* Two certified blocks of one height are the same block.                  *)
LEMMA CertifiedUnique ==
  ASSUME RestartBound, TypeOK, VoteInv, OneVotePerHeight,
         NEW b \in Certified, NEW c \in Certified, Height[b] = Height[c]
  PROVE  b = c
<1>1. b \in Block /\ c \in Block
  BY DEF Certified
<1>2. PICK v \in Signers(b) \cap Signers(c) : v \notin Restartable
  BY <1>1, QuorumsMeet, SignersAreValidators DEF Certified
<1>3. restarts[v] = 0
  BY <1>1, <1>2, SignersAreValidators, Seats DEF VoteInv
<1> QED
  BY <1>1, <1>2, <1>3 DEF OneVotePerHeight

(* A step that adds no signature and lets no process start keeps the       *)
(* votes, when no chain gets shorter.                                      *)
LEMMA VotesKept ==
  ASSUME TypeOK, TypeOK', VoteInv, OneVotePerHeight,
         \A c \in Block : Signers(c)' = Signers(c),
         \A p \in Node : restarts'[p] = 0 => restarts[p] = 0,
         \A p \in Node \ Restartable : restarts'[p] = restarts[p],
         \A v \in Validator : restarts'[v] = 0 =>
           /\ Expected(v)' >= Expected(v)
           /\ \A c \in seen[v] : c \in seen'[v] \/ Forgettable(v, c)'
  PROVE  VoteInv' /\ OneVotePerHeight'
<1>1. \A v \in Validator : v \in Node
  BY Seats
<1>2. \A c \in Block : Signers(c) \in SUBSET Validator
  BY SignersAreValidators
<1>3. ASSUME NEW v \in Validator, NEW c \in Block, restarts'[v] = 0, v \in Signers(c)'
      PROVE  c \in seen'[v] \/ Forgettable(v, c)'
  <2>1. c \in seen[v] \/ Forgettable(v, c)
    BY <1>1, <1>3 DEF VoteInv
  <2>2. ASSUME Forgettable(v, c) PROVE Forgettable(v, c)'
    <3>1. /\ Expected(v) \in Nat /\ Expected(v)' \in Nat /\ Expected(v)' >= Expected(v)
          /\ Height[c] \in Nat /\ SeenKeep \in Nat
      BY <1>1, <1>3, BlockAssumption, CapAssumption DEF Expected, TypeOK
    <3> HIDE DEF Expected
    <3>2. ~ShortChain /\ Height[c] + SeenKeep + 1 < Expected(v)'
      BY <2>2, <3>1 DEF Forgettable
    <3> QED
      BY <3>2 DEF Forgettable
  <2> QED
    BY <1>3, <2>1, <2>2
<1>4. VoteInv'
  BY <1>3 DEF VoteInv
<1>5. OneVotePerHeight'
  BY <1>1, <1>2 DEF OneVotePerHeight
<1> QED
  BY <1>4, <1>5

\* A short chain never fills seen_at_height.
LEMMA SeenSmall ==
  ASSUME ShortChain, TypeOK, SeenInv, NEW n \in Node
  PROVE  IsFiniteSet(seen[n]) /\ Cardinality(seen[n]) <= SeenCap
<1> DEFINE f == [b \in seen[n] |-> Height[b]]
<1>1. SeenCap \in Nat
  BY CapAssumption
<1>2. \A b \in seen[n] : Height[b] \in 0 .. SeenCap - 1
  BY BlockAssumption, <1>1 DEF TypeOK, ShortChain
<1>3. f \in Injection(seen[n], 0 .. SeenCap - 1)
  BY <1>2 DEF SeenInv, Injection, IsInjective
<1>4. IsFiniteSet(0 .. SeenCap - 1) /\ Cardinality(0 .. SeenCap - 1) = SeenCap
  BY <1>1, FS_Interval
<1> QED
  BY <1>3, <1>4, FS_Injection

-----------------------------------------------------------------------------
(* The inductive invariant.                                                *)

\* The inductive invariant holds before the genesis seal.
LEMMA InitInv == Init => IInv
<1> SUFFICES ASSUME Init PROVE IInv
  OBVIOUS
<1>1. \A b \in Block : Signers(b) = {}
  BY DEF Init, Signers, AckedBy
<1>2. SeenInv /\ SentInv /\ HeldInv
  BY DEF Init, SeenInv, SentInv, HeldInv
<1>3. VoteInv /\ OneVotePerHeight
  BY <1>1, Seats DEF Init, VoteInv, OneVotePerHeight
<1> QED
  BY <1>2, <1>3, InitType DEF IInv

\* A step that changes no variable keeps the invariant.
LEMMA StutterInv == IInv /\ UNCHANGED vars => IInv'
<1> SUFFICES ASSUME IInv, UNCHANGED vars PROVE IInv'
  OBVIOUS
<1>1. UNCHANGED <<chain, pending, seen, acks, todo, disk, archive, sentBlocks, sentAcks, restarts>>
  BY DEF vars, memory, files, messages
<1>2. TypeOK'
  BY <1>1 DEF IInv, TypeOK
<1>3. Certified' = Certified /\ \A b : Signers(b)' = Signers(b)
  BY <1>1 DEF Certified, Signers, AckedBy
<1>4. \A n \in Node : Expected(n)' = Expected(n)
  BY <1>1 DEF Expected
<1>5. SeenInv' /\ SentInv'
  BY <1>1, <1>3, <1>4 DEF IInv, SeenInv, SentInv
<1>6. HeldInv'
  BY <1>1, <1>3, <1>4 DEF IInv, HeldInv
<1>7. VoteInv' /\ OneVotePerHeight'
  BY <1>1, <1>3, <1>4, Seats DEF IInv, VoteInv, OneVotePerHeight, Forgettable
<1> QED
  BY <1>2, <1>5, <1>6, <1>7 DEF IInv

\* What on_block preserves, for a block b that n has just sent or received.
LEMMA HandleBlockInv ==
  ASSUME IInv, TypeOK', NEW n \in Node, NEW b \in Block,
         HandleBlock(n, b), ~Conflicts(n, b), UNCHANGED <<chain, files, restarts>>,
         sentBlocks' = sentBlocks \cup {b},
         n \in Validator => ~Forgettable(n, b),
         b \notin sentBlocks => n = Leader(Height[b]),
         \/ b \in sentBlocks
         \/ Height[b] = 0 /\ Prev[b] = NoBlock
         \/ Prev[b] \in Certified /\ Height[b] = Height[Prev[b]] + 1
  PROVE  IInv'
<1> USE DEF IInv
<1>1. /\ seen' = [seen EXCEPT ![n] = @ \cup {b}]
      /\ pending' = [pending EXCEPT ![n] = @ \cup ({b} \ Applied(n))]
      /\ acks' = [acks EXCEPT ![n] =
                    @ \cup {<<b, v>> : v \in {Leader(Height[b])} \cup Signer(n)}]
      /\ sentAcks' = sentAcks \cup {<<b, v>> : v \in Signer(n)}
      /\ todo' = [todo EXCEPT ![n] = Try(n, pending'[n], acks'[n], b)]
  BY Zenon DEF HandleBlock
<1>2. /\ \A c \in Block : Signers(c) \subseteq Signers(c)'
      /\ Certified \subseteq Certified'
  BY <1>1, SignersGrow
<1>3. \A m \in Node : Expected(m)' = Expected(m)
  BY DEF Expected
<1>4. SeenInv'
  <2>1. Height[b] >= Expected(n) => b \notin Applied(n)
    <3> SUFFICES ASSUME NEW i \in DOMAIN chain[n], chain[n][i] = b
                 PROVE  ~(Height[b] >= Expected(n))
      BY DEF Applied
    <3>1. Height[b] = i - 1 /\ i \in 1 .. Len(chain[n]) /\ Len(chain[n]) \in Nat
      BY DEF HeldInv, TypeOK
    <3> QED
      BY <3>1 DEF Expected
  <2>2. \A c \in seen[n] : Height[c] = Height[b] => c = b
    BY DEF Conflicts
  <2> QED
    BY <1>1, <1>3, <2>1, <2>2 DEF SeenInv, TypeOK
<1>5. SentInv'
  <2>1. \A m \in Node : (pending[m] \cup todo[m] \subseteq sentBlocks)'
    BY <1>1 DEF SentInv, Try, TypeOK
  <2>2. \A v \in {Leader(Height[b])} \cup Signer(n) : v \in Signers(b)'
    BY <1>1, Seats, BlockAssumption DEF Signers, AckedBy
  <2>3. \A m \in Node : \A a \in acks'[m] : a[2] \in Signers(a[1])'
    <3> SUFFICES ASSUME NEW m \in Node, NEW a \in acks'[m]
                 PROVE  a[2] \in Signers(a[1])'
      OBVIOUS
    <3>1. CASE a \in acks[m]
      <4>1. a[1] \in Block /\ a[2] \in Signers(a[1])
        BY <3>1 DEF SentInv, TypeOK
      <4> QED
        BY <4>1, <1>2
    <3>2. CASE a \notin acks[m]
      <4>1. PICK v \in {Leader(Height[b])} \cup Signer(n) : a = <<b, v>>
        BY <3>2, <1>1 DEF TypeOK
      <4> QED
        BY <4>1, <2>2
    <3> QED
      BY <3>1, <3>2
  <2>4. \A c \in sentBlocks' :
          \/ Height[c] = 0 /\ Prev[c] = NoBlock
          \/ Prev[c] \in Certified' /\ Height[c] = Height[Prev[c]] + 1
    BY <1>2 DEF SentInv
  <2> QED
    BY <2>1, <2>3, <2>4 DEF SentInv
<1>6. HeldInv'
  <2>1. ASSUME NEW c \in Try(n, pending'[n], acks'[n], b) PROVE c \in Certified'
    <3>1. c = b /\ IsFinal(acks'[n], b)
      BY DEF Try
    <3>2. AckedBy(acks'[n], b) \subseteq Signers(b)'
      BY <1>5 DEF SentInv, AckedBy
    <3>3. IsFiniteSet(Signers(b)')
      <4>1. Signers(b)' \in SUBSET Validator
        BY Seats, BlockAssumption DEF Signers, AckedBy, TypeOK
      <4> QED
        BY <4>1, Seats, FS_Subset
    <3>4. /\ Cardinality(AckedBy(acks'[n], b)) <= Cardinality(Signers(b)')
          /\ Cardinality(AckedBy(acks'[n], b)) \in Nat
          /\ Cardinality(Signers(b)') \in Nat
      BY <3>2, <3>3, FS_Subset, FS_CardinalityType
    <3> QED
      BY <3>1, <3>4, Seats DEF Certified, IsFinal
  <2>2. \A c \in Try(n, pending'[n], acks'[n], b) : Height[c] <= Expected(n)
    BY DEF Try
  <2>3. \A m \in Node :
          /\ (todo[m] \cup archive[m] \subseteq Certified)'
          /\ \A c \in todo'[m] : Height[c] <= Expected(m)'
    <3> SUFFICES ASSUME NEW m \in Node
                 PROVE  /\ (todo[m] \cup archive[m] \subseteq Certified)'
                        /\ \A c \in todo'[m] : Height[c] <= Expected(m)'
      OBVIOUS
    <3>1. archive'[m] \subseteq Certified'
      BY <1>2 DEF HeldInv, files
    <3>2. CASE m = n
      <4>1. todo'[n] = Try(n, pending'[n], acks'[n], b)
        BY <1>1 DEF TypeOK
      <4> QED
        BY <3>1, <3>2, <4>1, <1>3, <2>1, <2>2
    <3>3. CASE m # n
      <4>1. todo'[m] = todo[m]
        BY <3>3, <1>1 DEF TypeOK
      <4> QED
        BY <3>1, <4>1, <1>2, <1>3 DEF HeldInv
    <3> QED
      BY <3>2, <3>3
  <2> QED
    BY <1>2, <2>3 DEF HeldInv, files
<1>7. \A c \in Block, v \in Validator :
        v \in Signers(c)' => v \in Signers(c) \/ (c = b /\ v = n)
  BY <1>1 DEF Signers, AckedBy, Signer
<1>8. \A v \in Validator, c \in Block : Forgettable(v, c)' <=> Forgettable(v, c)
  BY <1>3, Seats DEF Forgettable
<1>9. VoteInv'
  <2>1. ASSUME NEW v \in Validator, NEW c \in Block, restarts'[v] = 0, v \in Signers(c)'
        PROVE  c \in seen'[v] \/ Forgettable(v, c)'
    <3>1. v \in Node
      BY Seats
    <3>2. CASE v \in Signers(c)
      BY <2>1, <3>1, <3>2, <1>1, <1>8 DEF VoteInv, TypeOK
    <3>3. CASE v \notin Signers(c)
      <4>1. c = b /\ v = n
        BY <2>1, <3>3, <1>7
      <4> QED
        BY <4>1, <1>1 DEF TypeOK
    <3> QED
      BY <3>2, <3>3
  <2> QED
    BY <2>1 DEF VoteInv
<1>10. OneVotePerHeight'
  <2>1. ASSUME NEW v \in Validator, NEW c \in Block, restarts[v] = 0, v \in Signers(c),
               v = n, Height[c] = Height[b]
        PROVE  c = b
    <3>1. ~Forgettable(n, c)
      BY <2>1 DEF Forgettable
    <3>2. c \in seen[n]
      BY <2>1, <3>1 DEF VoteInv
    <3> QED
      BY <2>1, <3>2 DEF Conflicts
  <2>2. ASSUME NEW c \in Block, NEW d \in Block, NEW v \in Signers(c)' \cap Signers(d)',
               Height[c] = Height[d], restarts'[v] = 0
        PROVE  c = d
    <3>1. v \in Validator /\ restarts[v] = 0
      BY <2>2, Seats, BlockAssumption DEF Signers, AckedBy
    <3> QED
      BY <2>1, <2>2, <3>1, <1>7 DEF OneVotePerHeight
  <2> QED
    BY <2>2 DEF OneVotePerHeight
<1> QED
  BY <1>4, <1>5, <1>6, <1>9, <1>10

\* A block that links to the tip of a node is a child of a certified block.
LEMMA ProposalParent ==
  ASSUME IInv, NEW n \in Node, NEW b \in Block, Linked(n, b)
  PROVE  \/ Height[b] = 0 /\ Prev[b] = NoBlock
         \/ Prev[b] \in Certified /\ Height[b] = Height[Prev[b]] + 1
<1> USE DEF IInv
<1>1. CASE chain[n] = <<>>
  BY <1>1 DEF Linked, Tip, Expected
<1>2. CASE chain[n] # <<>>
  <2>1. Len(chain[n]) \in DOMAIN chain[n] /\ Len(chain[n]) \in Nat
    BY <1>2 DEF TypeOK
  <2>2. Prev[b] = chain[n][Len(chain[n])] /\ Height[b] = Len(chain[n])
    BY <1>2 DEF Linked, Tip, Expected
  <2> QED
    BY <2>1, <2>2 DEF HeldInv
<1> QED
  BY <1>1, <1>2

\* The leader proposes a block that it had not signed a rival of.
LEMMA ProposeInv ==
  ASSUME IInv, TypeOK', NEW n \in Node, NEW b \in Block, Propose(n, b)
  PROVE  IInv'
<1> USE DEF IInv
<1>1. /\ n \in Validator /\ Linked(n, b) /\ Leader(Height[b]) = n
      /\ \A c \in pending[n] : Height[c] # Expected(n)
      /\ sentBlocks' = sentBlocks \cup {b}
      /\ HandleBlock(n, b) /\ UNCHANGED <<chain, files, restarts>>
  BY DEF Propose
<1>2. ~Conflicts(n, b)
  <2> SUFFICES ASSUME NEW c \in seen[n], Height[c] = Height[b] PROVE FALSE
    BY DEF Conflicts
  <2>1. Height[c] = Expected(n) /\ Expected(n) \in Nat
    BY <1>1 DEF Linked, Expected, TypeOK
  <2>2. c \in pending[n]
    BY <2>1 DEF SeenInv
  <2> QED
    BY <1>1, <2>1, <2>2
<1>3. \/ Height[b] = 0 /\ Prev[b] = NoBlock
      \/ Prev[b] \in Certified /\ Height[b] = Height[Prev[b]] + 1
  BY <1>1, ProposalParent
<1>4. UNCHANGED <<chain, files, restarts>> /\ (b \notin sentBlocks => n = Leader(Height[b]))
  BY <1>1
<1>5. ~Forgettable(n, b)
  <2>1. Height[b] = Expected(n) /\ Expected(n) \in Nat /\ SeenKeep \in Nat
    BY <1>1, CapAssumption DEF Linked, Expected, TypeOK
  <2> QED
    BY <2>1 DEF Forgettable
<1> QED
  BY <1>1, <1>2, <1>3, <1>4, <1>5, HandleBlockInv

\* Receiving a block keeps the invariant.
LEMMA OnBlockInv ==
  ASSUME IInv, TypeOK', NEW n \in Node, NEW b \in Block, OnBlock(n, b),
         n \in Validator => ~Forgettable(n, b)
  PROVE  IInv'
<1>1. /\ b \in sentBlocks /\ HandleBlock(n, b)
      /\ UNCHANGED <<chain, files, sentBlocks, restarts>>
  BY DEF OnBlock
<1>2. CASE Conflicts(n, b)
  <2>1. UNCHANGED <<memory, sentAcks>>
    BY <1>1, <1>2, Zenon DEF HandleBlock
  <2>2. UNCHANGED vars
    BY <1>1, <2>1 DEF vars, messages
  <2> QED
    BY <2>2, StutterInv
<1>3. CASE ~Conflicts(n, b)
  <2>1. sentBlocks' = sentBlocks \cup {b}
    BY <1>1
  <2>2. UNCHANGED <<chain, files, restarts>>
    BY <1>1
  <2> QED
    BY <1>1, <1>3, <2>1, <2>2, HandleBlockInv
<1> QED
  BY <1>2, <1>3

\* Receiving an acknowledgement keeps the invariant.
LEMMA OnBlockAckInv ==
  ASSUME IInv, TypeOK', NEW n \in Node, NEW b \in Block, NEW v \in Validator,
         OnBlockAck(n, b, v)
  PROVE  IInv'
<1> USE DEF IInv
<1>1. /\ <<b, v>> \in sentAcks
      /\ acks' = [acks EXCEPT ![n] = @ \cup {<<b, v>>}]
      /\ todo' = [todo EXCEPT ![n] = Try(n, pending[n], acks'[n], b)]
      /\ UNCHANGED <<chain, pending, seen, files, messages, restarts>>
  BY DEF OnBlockAck
<1>2. Certified' = Certified /\ \A c : Signers(c)' = Signers(c)
  BY <1>1, SignersStay
<1>3. \A m \in Node : Expected(m)' = Expected(m)
  BY <1>1 DEF Expected
<1>4. \A m \in Node : \A a \in acks'[m] : a[2] \in Signers(a[1])
  <2>1. v \in Signers(b)
    BY <1>1 DEF Signers, AckedBy
  <2> QED
    BY <1>1, <2>1 DEF SentInv, TypeOK
<1>5. \A c \in Try(n, pending[n], acks'[n], b) :
        c \in Certified /\ c \in pending[n] /\ Height[c] <= Expected(n)
  <2>1. acks'[n] \in SUBSET (Block \X Validator)
    BY DEF TypeOK
  <2> QED
    BY <2>1, <1>4, FinalImpliesCertified DEF Try
<1>6. \A m \in Node : \A c \in todo'[m] :
        c \in Certified /\ c \in sentBlocks /\ Height[c] <= Expected(m)
  <2> SUFFICES ASSUME NEW m \in Node, NEW c \in todo'[m]
               PROVE  c \in Certified /\ c \in sentBlocks /\ Height[c] <= Expected(m)
    OBVIOUS
  <2>1. CASE m = n
    <3>1. c \in Try(n, pending[n], acks'[n], b)
      BY <2>1, <1>1 DEF TypeOK
    <3> QED
      BY <2>1, <3>1, <1>5 DEF SentInv
  <2>2. CASE m # n
    <3>1. c \in todo[m]
      BY <2>2, <1>1 DEF TypeOK
    <3> QED
      BY <3>1 DEF SentInv, HeldInv
  <2> QED
    BY <2>1, <2>2
<1>7. SeenInv'
  BY <1>1, <1>3 DEF SeenInv
<1>8. SentInv'
  BY <1>1, <1>2, <1>4, <1>6 DEF SentInv, messages
<1>9. HeldInv'
  BY <1>1, <1>2, <1>3, <1>6 DEF HeldInv, files
<1>10. VoteInv' /\ OneVotePerHeight'
  BY <1>1, <1>2, <1>3, ExpectedIsNat, Seats, VotesKept
<1> QED
  BY <1>7, <1>8, <1>9, <1>10

\* The block n is about to apply: next in height, it links to the tip.
LEMMA FinalLinks ==
  ASSUME RestartBound, IInv, NEW n \in Node, NEW b \in todo[n], Height[b] = Expected(n)
  PROVE  Linked(n, b)
<1> USE DEF IInv
<1>1. b \in sentBlocks /\ b \in Block
  BY DEF SentInv, TypeOK
<1>2. CASE Height[b] = 0 /\ Prev[b] = NoBlock
  <2>1. chain[n] = <<>>
    BY <1>2, EmptySeq DEF Expected, TypeOK
  <2> QED
    BY <1>2, <2>1 DEF Linked, Tip
<1>3. CASE Prev[b] \in Certified /\ Height[b] = Height[Prev[b]] + 1
  <2>1. Prev[b] \in Block /\ Height[Prev[b]] \in Nat
    BY <1>3, BlockAssumption DEF Certified
  <2>2. chain[n] \in Seq(Block) /\ Len(chain[n]) = Height[Prev[b]] + 1
    BY <1>3 DEF Expected, TypeOK
  <2>3. Len(chain[n]) \in 1 .. Len(chain[n]) /\ chain[n] # <<>>
    BY <2>1, <2>2
  <2>4. Tip(n) \in Certified /\ Height[Tip(n)] = Height[Prev[b]]
    <3>1. Tip(n) = chain[n][Len(chain[n])] /\ Len(chain[n]) \in DOMAIN chain[n]
      BY <2>2, <2>3 DEF Tip
    <3>2. Height[Tip(n)] = Len(chain[n]) - 1
      BY <3>1 DEF HeldInv
    <3> QED
      BY <3>1, <3>2, <2>1, <2>2 DEF HeldInv
  <2>5. Prev[b] = Tip(n)
    BY <1>3, <2>4, CertifiedUnique
  <2> QED
    BY <2>5 DEF Linked
<1> QED
  BY <1>1, <1>2, <1>3 DEF SentInv

\* Appending a certified block that links keeps a chain in order.
LEMMA AppendInOrder ==
  ASSUME IInv, NEW n \in Node, NEW b \in Certified, Linked(n, b),
         NEW C, C = Append(chain[n], b)
  PROVE  /\ Len(C) = Len(chain[n]) + 1
         /\ \A i \in DOMAIN C : C[i] \in Certified /\ Height[C[i]] = i - 1
<1>1. chain[n] \in Seq(Block) /\ b \in Block
  BY DEF IInv, TypeOK, Certified
<1>2. /\ C \in Seq(Block) /\ Len(C) = Len(chain[n]) + 1
      /\ \A i \in 1 .. Len(chain[n]) : C[i] = chain[n][i]
      /\ C[Len(chain[n]) + 1] = b
  BY <1>1, AppendProperties
<1>3. Height[b] = Len(chain[n])
  BY DEF Linked, Expected
<1> QED
  BY <1>1, <1>2, <1>3 DEF IInv, HeldInv

\* try_finalize applies a certified block that links, or drops a stale one.
LEMMA FinalizeInv ==
  ASSUME RestartBound, IInv, TypeOK', NEW n \in Node, NEW b \in Block, Finalize(n, b)
  PROVE  IInv'
<1> USE DEF IInv
<1>1. /\ b \in todo[n] /\ b \in Certified
      /\ pending' = [pending EXCEPT ![n] = @ \ {b}]
      /\ UNCHANGED <<seen, acks, disk, messages, restarts>>
  BY DEF Finalize, HeldInv
<1>2. Certified' = Certified /\ \A c : Signers(c)' = Signers(c)
  BY <1>1, SignersStay
<1>3. ASSUME \A p \in Node : Expected(p)' >= Expected(p)
      PROVE  VoteInv' /\ OneVotePerHeight'
  BY <1>1, <1>2, <1>3, Seats, VotesKept
<1>4. Expected(n) \in Nat /\ Height[b] \in Nat
  BY BlockAssumption DEF Expected, TypeOK
<1>5. CASE Linked(n, b)
  <2>1. /\ chain' = [chain EXCEPT ![n] = Append(@, b)]
        /\ archive' = [archive EXCEPT ![n] = Archived(@, b)]
        /\ todo' = todo
    BY <1>5, Zenon DEF Finalize
  <2>2. /\ Len(chain'[n]) = Len(chain[n]) + 1
        /\ \A i \in DOMAIN chain'[n] :
             chain'[n][i] \in Certified /\ Height[chain'[n][i]] = i - 1
    <3>1. chain'[n] = Append(chain[n], b)
      BY <2>1 DEF TypeOK
    <3> QED
      BY <3>1, <1>1, <1>5, AppendInOrder
  <2>3. /\ Expected(n)' = Expected(n) + 1
        /\ \A m \in Node \ {n} : chain'[m] = chain[m] /\ Expected(m)' = Expected(m)
    BY <2>1, <2>2 DEF Expected, TypeOK
  <2>4. SeenInv'
    <3>1. ASSUME NEW m \in Node, NEW c \in seen[m], Height[c] >= Expected(m)'
          PROVE  c \in pending'[m]
      <4>1. CASE m = n
        <5>1. Height[c] >= Expected(n) + 1 /\ Height[c] \in Nat
          BY <3>1, <4>1, <2>3, BlockAssumption DEF TypeOK
        <5>2. c \in pending[n] /\ c # b
          BY <3>1, <4>1, <5>1, <1>4, <1>5 DEF SeenInv, Linked
        <5> QED
          BY <4>1, <5>2, <1>1 DEF TypeOK
      <4>2. CASE m # n
        BY <3>1, <4>2, <2>3, <1>1 DEF SeenInv, TypeOK
      <4> QED
        BY <4>1, <4>2
    <3> QED
      BY <1>1, <3>1 DEF SeenInv
  <2>5. SentInv'
    BY <1>1, <1>2, <2>1 DEF SentInv, messages, TypeOK
  <2>6. HeldInv'
    <3>1. \A m \in Node : archive'[m] \subseteq Certified
      BY <1>1, <2>1 DEF HeldInv, Archived, TypeOK
    <3>2. \A m \in Node : \A c \in todo[m] : Height[c] <= Expected(m)'
      <4> SUFFICES ASSUME NEW m \in Node, NEW c \in todo[m]
                   PROVE  Height[c] <= Expected(m)'
        OBVIOUS
      <4>1. Height[c] <= Expected(m) /\ Height[c] \in Nat /\ Expected(m) \in Nat
        BY BlockAssumption DEF HeldInv, TypeOK, Expected
      <4> QED
        BY <4>1, <2>3
    <3>3. \A m \in Node : \A i \in DOMAIN chain'[m] :
            chain'[m][i] \in Certified /\ Height[chain'[m][i]] = i - 1
      BY <2>2, <2>3 DEF HeldInv
    <3> QED
      BY <1>1, <1>2, <2>1, <3>1, <3>2, <3>3 DEF HeldInv
  <2>7. VoteInv' /\ OneVotePerHeight'
    BY <1>3, <2>3, ExpectedIsNat
  <2> QED
    BY <2>4, <2>5, <2>6, <2>7
<1>6. CASE ~Linked(n, b)
  <2>1. todo' = [todo EXCEPT ![n] = @ \ {b}] /\ UNCHANGED <<chain, archive>>
    BY <1>6, Zenon DEF Finalize
  <2>2. Height[b] < Expected(n)
    BY <1>1, <1>4, <1>6, FinalLinks DEF HeldInv
  <2>3. \A m \in Node : Expected(m)' = Expected(m)
    BY <2>1 DEF Expected
  <2>4. SeenInv'
    <3>1. ASSUME NEW m \in Node, NEW c \in seen[m], Height[c] >= Expected(m)
          PROVE  c \in pending'[m]
      <4>1. m = n => c # b
        BY <3>1, <2>2, <1>4
      <4> QED
        BY <3>1, <4>1, <1>1 DEF SeenInv, TypeOK
    <3> QED
      BY <1>1, <2>3, <3>1 DEF SeenInv
  <2>5. SentInv'
    BY <1>1, <1>2, <2>1 DEF SentInv, messages, TypeOK
  <2>6. HeldInv'
    BY <1>1, <1>2, <2>1, <2>3 DEF HeldInv, TypeOK
  <2>7. VoteInv' /\ OneVotePerHeight'
    BY <1>3, <2>3, ExpectedIsNat
  <2> QED
    BY <2>4, <2>5, <2>6, <2>7
<1> QED
  BY <1>5, <1>6

\* Saving the state, and the retry of the next blocks, keep the invariant.
LEMMA SaveStateInv ==
  ASSUME IInv, TypeOK', NEW n \in Node, SaveState(n)
  PROVE  IInv'
<1> USE DEF IInv
<1>1. /\ disk' = [disk EXCEPT ![n] = chain[n]]
      /\ UNCHANGED <<chain, pending, seen, archive, messages, restarts>>
  BY DEF SaveState
<1>2. Certified' = Certified /\ \A c : Signers(c)' = Signers(c)
  BY <1>1, SignersStay
<1>3. \A m \in Node : Expected(m)' = Expected(m)
  BY <1>1 DEF Expected
<1>4. \A m \in Node : acks'[m] \subseteq acks[m]
  <2>1. CASE todo[n] = {}
    <3>1. UNCHANGED acks
      BY <2>1, Zenon DEF SaveState
    <3> QED
      BY <3>1
  <2>2. CASE todo[n] # {}
    <3>1. acks' = [acks EXCEPT ![n] = {a \in @ : a[1] # Tip(n)}]
      BY <2>2, Zenon DEF SaveState
    <3> QED
      BY <3>1 DEF TypeOK
  <2> QED
    BY <2>1, <2>2
<1>5. \A m \in Node : \A a \in acks'[m] : a[2] \in Signers(a[1])
  BY <1>4 DEF SentInv
<1>6. \A m \in Node : \A c \in todo'[m] : c \in todo[m] \cup NextCandidates(n, acks'[n])
                                       /\ (m # n => c \in todo[m])
  <2>1. CASE todo[n] = {}
    <3>1. UNCHANGED todo
      BY <2>1, Zenon DEF SaveState
    <3> QED
      BY <3>1
  <2>2. CASE todo[n] # {}
    <3>1. todo' = [todo EXCEPT ![n] =
                     (@ \ {Tip(n)}) \cup NextCandidates(n, acks'[n])]
      BY <2>2, Zenon DEF SaveState
    <3> QED
      BY <3>1 DEF TypeOK
  <2> QED
    BY <2>1, <2>2
<1>7. \A c \in NextCandidates(n, acks'[n]) :
        c \in Certified /\ c \in sentBlocks /\ Height[c] <= Expected(n)
  <2> SUFFICES ASSUME NEW c \in NextCandidates(n, acks'[n])
               PROVE  c \in Certified /\ c \in sentBlocks /\ Height[c] <= Expected(n)
    OBVIOUS
  <2>1. c \in pending[n] /\ c \in Block /\ Height[c] = Expected(n) /\ IsFinal(acks'[n], c)
    BY DEF NextCandidates, TypeOK
  <2>2. acks'[n] \in SUBSET (Block \X Validator)
    BY DEF TypeOK
  <2>3. c \in Certified
    BY <2>1, <2>2, <1>5, FinalImpliesCertified
  <2>4. Height[c] \in Nat
    BY <2>1, BlockAssumption
  <2> QED
    BY <2>1, <2>3, <2>4 DEF SentInv
<1>8. \A m \in Node : \A c \in todo'[m] :
        c \in Certified /\ c \in sentBlocks /\ Height[c] <= Expected(m)
  <2> SUFFICES ASSUME NEW m \in Node, NEW c \in todo'[m]
               PROVE  c \in Certified /\ c \in sentBlocks /\ Height[c] <= Expected(m)
    OBVIOUS
  <2>1. CASE c \in todo[m]
    BY <2>1 DEF SentInv, HeldInv
  <2>2. CASE c \notin todo[m]
    BY <2>2, <1>6, <1>7
  <2> QED
    BY <2>1, <2>2
<1>9. SeenInv'
  BY <1>1, <1>3 DEF SeenInv
<1>10. SentInv'
  BY <1>1, <1>2, <1>5, <1>8 DEF SentInv, messages
<1>11. HeldInv'
  <2>1. \A m \in Node : \A i \in DOMAIN disk'[m] :
          disk'[m][i] \in Certified /\ Height[disk'[m][i]] = i - 1
    <3> SUFFICES ASSUME NEW m \in Node, NEW i \in DOMAIN disk'[m]
                 PROVE  disk'[m][i] \in Certified /\ Height[disk'[m][i]] = i - 1
      OBVIOUS
    <3>1. disk'[m] = chain[m] \/ disk'[m] = disk[m]
      BY <1>1 DEF TypeOK
    <3> QED
      BY <3>1 DEF HeldInv
  <2>2. \A m \in Node : (todo[m] \cup archive[m] \subseteq Certified)'
    BY <1>1, <1>2, <1>8 DEF HeldInv
  <2> QED
    BY <1>1, <1>2, <1>3, <1>8, <2>1, <2>2 DEF HeldInv
<1>12. VoteInv' /\ OneVotePerHeight'
  BY <1>1, <1>2, <1>3, ExpectedIsNat, Seats, VotesKept
<1> QED
  BY <1>9, <1>10, <1>11, <1>12

\* Applying an archived block of another node keeps the invariant.
LEMMA CatchUpInv ==
  ASSUME IInv, TypeOK', NEW n \in Node, NEW m \in Node, NEW b \in Block,
         CatchUp(n, m, b)
  PROVE  IInv'
<1> USE DEF IInv
<1>1. /\ b \in Certified /\ Linked(n, b) /\ todo[n] = {}
      /\ chain' = [chain EXCEPT ![n] = Append(@, b)]
      /\ archive' = [archive EXCEPT ![n] = Archived(@, b)]
      /\ UNCHANGED <<memory, disk, messages, restarts>>
  BY DEF CatchUp, HeldInv
<1>2. Certified' = Certified /\ \A c : Signers(c)' = Signers(c)
  BY <1>1, SignersStay
<1>3. /\ Len(chain'[n]) = Len(chain[n]) + 1
      /\ \A i \in DOMAIN chain'[n] :
           chain'[n][i] \in Certified /\ Height[chain'[n][i]] = i - 1
  <2>1. chain'[n] = Append(chain[n], b)
    BY <1>1 DEF TypeOK
  <2> QED
    BY <2>1, <1>1, AppendInOrder
<1>4. /\ Expected(n)' = Expected(n) + 1 /\ Expected(n) \in Nat
      /\ \A p \in Node \ {n} : chain'[p] = chain[p] /\ Expected(p)' = Expected(p)
  BY <1>1, <1>3 DEF Expected, TypeOK
<1>5. SeenInv'
  <2>1. ASSUME NEW p \in Node, NEW c \in seen[p], Height[c] >= Expected(p)'
        PROVE  c \in pending[p]
    <3>1. Height[c] \in Nat
      BY BlockAssumption DEF TypeOK
    <3>2. Height[c] >= Expected(p)
      BY <2>1, <3>1, <1>4
    <3> QED
      BY <3>2 DEF SeenInv
  <2> QED
    BY <1>1, <2>1 DEF SeenInv, memory
<1>6. SentInv'
  BY <1>1, <1>2 DEF SentInv, memory, messages
<1>7. HeldInv'
  <2>1. \A p \in Node : archive'[p] \subseteq Certified
    BY <1>1 DEF HeldInv, Archived, TypeOK
  <2>2. \A p \in Node : \A c \in todo[p] : Height[c] <= Expected(p)'
    BY <1>1, <1>4 DEF HeldInv
  <2>3. \A p \in Node : \A i \in DOMAIN chain'[p] :
          chain'[p][i] \in Certified /\ Height[chain'[p][i]] = i - 1
    BY <1>3, <1>4 DEF HeldInv
  <2> QED
    BY <1>1, <1>2, <2>1, <2>2, <2>3 DEF HeldInv, memory
<1>8. VoteInv' /\ OneVotePerHeight'
  <2>1. UNCHANGED <<seen, restarts>> /\ \A p \in Node : Expected(p)' >= Expected(p)
    BY <1>1, <1>4, ExpectedIsNat DEF memory
  <2> QED
    BY <1>2, <2>1, Seats, VotesKept
<1> QED
  BY <1>5, <1>6, <1>7, <1>8

\* An observer that adopts a saved state keeps the invariant.
LEMMA AdoptSnapshotInv ==
  ASSUME IInv, TypeOK', NEW n \in Node, NEW m \in Node, NEW k \in DOMAIN disk[m],
         AdoptSnapshot(n, m, k)
  PROVE  IInv'
<1> USE DEF IInv
<1>1. /\ n \in Observer /\ todo[n] = {}
      /\ chain' = [chain EXCEPT ![n] = SubSeq(disk[m], 1, k)]
      /\ disk' = [disk EXCEPT ![n] = chain'[n]]
      /\ pending' = [pending EXCEPT ![n] = {}]
      /\ seen' = [seen EXCEPT ![n] = {}]
      /\ acks' = [acks EXCEPT ![n] = {}]
      /\ UNCHANGED <<todo, archive, messages, restarts>>
  BY DEF AdoptSnapshot, Idle
<1>2. Certified' = Certified /\ \A c : Signers(c)' = Signers(c)
  BY <1>1, SignersStay
<1>3. \A p \in Node \ {n} :
        /\ chain'[p] = chain[p] /\ disk'[p] = disk[p] /\ pending'[p] = pending[p]
        /\ seen'[p] = seen[p] /\ acks'[p] = acks[p] /\ Expected(p)' = Expected(p)
  BY <1>1 DEF TypeOK, Expected
<1>4. /\ seen'[n] = {} /\ pending'[n] = {} /\ acks'[n] = {}
      /\ chain'[n] = SubSeq(disk[m], 1, k) /\ disk'[n] = chain'[n]
  BY <1>1 DEF TypeOK
<1>5. \A i \in DOMAIN chain'[n] :
        chain'[n][i] \in Certified /\ Height[chain'[n][i]] = i - 1
  <2>1. disk[m] \in Seq(Block) /\ k \in 1 .. Len(disk[m]) /\ Len(disk[m]) \in Nat
    BY DEF TypeOK
  <2>2. DOMAIN chain'[n] = 1 .. k /\ \A i \in 1 .. k : chain'[n][i] = disk[m][i]
    BY <1>4, <2>1
  <2> QED
    BY <2>1, <2>2 DEF HeldInv
<1>6. SeenInv'
  BY <1>3, <1>4 DEF SeenInv
<1>7. SentInv'
  <2>1. \A p \in Node : pending'[p] \subseteq pending[p] /\ acks'[p] \subseteq acks[p]
    BY <1>3, <1>4
  <2> QED
    BY <1>1, <1>2, <2>1 DEF SentInv, messages
<1>8. HeldInv'
  <2>1. \A p \in Node : \A c \in todo'[p] : Height[c] <= Expected(p)'
    <3>1. todo[n] = {} /\ todo' = todo
      BY <1>1
    <3> QED
      BY <3>1, <1>3 DEF HeldInv
  <2>2. \A p \in Node : \A i \in DOMAIN disk'[p] :
          disk'[p][i] \in Certified /\ Height[disk'[p][i]] = i - 1
    <3> SUFFICES ASSUME NEW p \in Node, NEW i \in DOMAIN disk'[p]
                 PROVE  disk'[p][i] \in Certified /\ Height[disk'[p][i]] = i - 1
      OBVIOUS
    <3>1. CASE p = n
      BY <3>1, <1>4, <1>5
    <3>2. CASE p # n
      <4>1. disk'[p] = disk[p]
        BY <3>2, <1>3
      <4> QED
        BY <4>1 DEF HeldInv
    <3> QED
      BY <3>1, <3>2
  <2>3. \A p \in Node : \A i \in DOMAIN chain'[p] :
          chain'[p][i] \in Certified /\ Height[chain'[p][i]] = i - 1
    BY <1>3, <1>5 DEF HeldInv
  <2>4. \A p \in Node : (todo[p] \cup archive[p] \subseteq Certified)'
    BY <1>1, <1>2 DEF HeldInv
  <2> QED
    BY <1>2, <2>1, <2>2, <2>3, <2>4 DEF HeldInv
<1>9. VoteInv' /\ OneVotePerHeight'
  <2>1. \A v \in Validator : seen'[v] = seen[v] /\ Expected(v)' >= Expected(v)
    BY <1>1, <1>3, Seats, ExpectedIsNat
  <2> QED
    BY <1>1, <1>2, <2>1, VotesKept
<1> QED
  BY <1>6, <1>7, <1>8, <1>9

\* Pruning the tracker forgets acknowledgements and nothing else.
LEMMA PruneAcksInv ==
  ASSUME IInv, TypeOK', NEW n \in Node, PruneAcks(n)
  PROVE  IInv'
<1> USE DEF IInv
<1>1. UNCHANGED <<chain, pending, seen, todo, files, messages, restarts>>
  BY DEF PruneAcks
<1>2. \A m \in Node : acks'[m] \subseteq acks[m]
  <2>1. PICK D : acks' = [acks EXCEPT ![n] = {a \in @ : a[1] \notin D}]
    BY DEF PruneAcks
  <2> QED
    BY <2>1 DEF TypeOK
<1>3. Certified' = Certified /\ \A c : Signers(c)' = Signers(c)
  BY <1>1, SignersStay
<1>4. \A m \in Node : Expected(m)' = Expected(m)
  BY <1>1 DEF Expected
<1>5. SeenInv' /\ VoteInv' /\ OneVotePerHeight'
  <2>1. SeenInv'
    BY <1>1, <1>4 DEF SeenInv
  <2> QED
    BY <1>1, <1>3, <1>4, <2>1, ExpectedIsNat, Seats, VotesKept
<1>6. SentInv'
  BY <1>1, <1>2, <1>3 DEF SentInv, messages
<1>7. HeldInv'
  BY <1>1, <1>3, <1>4 DEF HeldInv, files
<1> QED
  BY <1>5, <1>6, <1>7

\* A restart loses memory; the votes of the restarted node are not counted on.
LEMMA RestartInv ==
  ASSUME IInv, TypeOK', NEW n \in Node, Restart(n)
  PROVE  IInv'
<1> USE DEF IInv
<1>1. /\ n \in Restartable
      /\ restarts' = [restarts EXCEPT ![n] = @ + 1]
      /\ chain' = [chain EXCEPT ![n] = disk[n]]
      /\ pending' = [pending EXCEPT ![n] = {}]
      /\ seen' = [seen EXCEPT ![n] = {}]
      /\ acks' = [acks EXCEPT ![n] = {}]
      /\ todo' = [todo EXCEPT ![n] = {}]
      /\ UNCHANGED <<files, messages>>
  BY DEF Restart
<1>2. Certified' = Certified /\ \A c : Signers(c)' = Signers(c)
  BY <1>1, SignersStay
<1>3. \A p \in Node \ {n} :
        /\ chain'[p] = chain[p] /\ pending'[p] = pending[p] /\ todo'[p] = todo[p]
        /\ seen'[p] = seen[p] /\ acks'[p] = acks[p] /\ restarts'[p] = restarts[p]
        /\ Expected(p)' = Expected(p)
  BY <1>1 DEF TypeOK, Expected
<1>4. /\ seen'[n] = {} /\ pending'[n] = {} /\ acks'[n] = {} /\ todo'[n] = {}
      /\ chain'[n] = disk[n] /\ restarts'[n] # 0
  <2>1. restarts[n] \in Nat
    BY NetworkAssumption DEF TypeOK
  <2> QED
    BY <1>1, <2>1 DEF TypeOK
<1>5. SeenInv'
  BY <1>3, <1>4 DEF SeenInv
<1>6. SentInv'
  <2>1. \A p \in Node : /\ pending'[p] \subseteq pending[p]
                        /\ acks'[p] \subseteq acks[p] /\ todo'[p] \subseteq todo[p]
    BY <1>3, <1>4
  <2> QED
    BY <1>1, <1>2, <2>1 DEF SentInv, messages
<1>7. HeldInv'
  <2>1. \A p \in Node : \A c \in todo'[p] : c \in Certified /\ Height[c] <= Expected(p)'
    BY <1>3, <1>4 DEF HeldInv
  <2>2. \A p \in Node : \A i \in DOMAIN chain'[p] :
          chain'[p][i] \in Certified /\ Height[chain'[p][i]] = i - 1
    BY <1>3, <1>4 DEF HeldInv
  <2> QED
    BY <1>1, <1>2, <2>1, <2>2 DEF HeldInv, files
<1>8. VoteInv' /\ OneVotePerHeight'
  <2>1. \A v \in Validator : restarts'[v] = 0 => v \in Node \ {n}
    BY <1>4, Seats
  <2>2. \A p \in Node : restarts'[p] = 0 => restarts[p] = 0
    BY <1>3, <1>4
  <2>3. \A p \in Node \ Restartable : restarts'[p] = restarts[p]
    BY <1>1, <1>3
  <2> QED
    BY <1>2, <1>3, <2>1, <2>2, <2>3, ExpectedIsNat, VotesKept
<1> QED
  BY <1>5, <1>6, <1>7, <1>8

\* Pruning drops what was seen at heights that no timely block has.
LEMMA PruneSeenInv ==
  ASSUME IInv, TypeOK', NEW n \in Node, PruneSeen(n)
  PROVE  IInv'
<1> USE DEF IInv
<1>1. /\ seen' = [seen EXCEPT ![n] = {b \in @ : Height[b] >= SeenFloor(n)}]
      /\ UNCHANGED <<chain, pending, acks, todo, files, messages, restarts>>
  BY DEF PruneSeen
<1>2. ~ShortChain
  <2> SUFFICES ASSUME ShortChain PROVE FALSE
    OBVIOUS
  <2>1. Cardinality(seen[n]) <= SeenCap /\ Cardinality(seen[n]) > SeenCap
    BY SeenSmall DEF PruneSeen
  <2>2. Cardinality(seen[n]) \in Nat /\ SeenCap \in Nat
    BY SeenSmall, FS_CardinalityType, CapAssumption
  <2> QED
    BY <2>1, <2>2
<1>3. Certified' = Certified /\ \A c : Signers(c)' = Signers(c)
  BY <1>1, SignersStay
<1>4. \A p \in Node : Expected(p)' = Expected(p) /\ seen'[p] \subseteq seen[p]
  BY <1>1 DEF Expected, TypeOK
<1>5. \A p \in Node : \A c \in seen[p] : c \in seen'[p] \/ Forgettable(p, c)'
  <2> SUFFICES ASSUME NEW p \in Node, NEW c \in seen[p], c \notin seen'[p]
               PROVE  Forgettable(p, c)'
    OBVIOUS
  <2>1. p = n /\ ~(Height[c] >= SeenFloor(n))
    BY <1>1 DEF TypeOK
  <2>2. Height[c] \in Nat /\ Expected(n) \in Nat /\ SeenKeep \in Nat
    BY <2>1, BlockAssumption, CapAssumption, ExpectedIsNat DEF TypeOK
  <2>3. Height[c] + SeenKeep + 1 < Expected(n)
    BY <2>1, <2>2 DEF SeenFloor
  <2> QED
    BY <1>2, <1>4, <2>1, <2>3 DEF Forgettable
<1>6. SeenInv'
  BY <1>1, <1>4 DEF SeenInv
<1>7. SentInv'
  BY <1>1, <1>3 DEF SentInv, messages
<1>8. HeldInv'
  BY <1>1, <1>3, <1>4 DEF HeldInv, files
<1>9. VoteInv' /\ OneVotePerHeight'
  BY <1>1, <1>3, <1>4, <1>5, ExpectedIsNat, Seats, VotesKept
<1> QED
  BY <1>6, <1>7, <1>8, <1>9

(* IInv is inductive while blocks are timely and quorums share a validator *)
(* that does not restart.                                                  *)
LEMMA NextInv ==
  ASSUME RestartBound
  PROVE  IInv /\ [Next]_vars /\ [Timely]_vars => IInv'
<1> SUFFICES ASSUME IInv, [Next]_vars, [Timely]_vars PROVE IInv'
  OBVIOUS
<1>1. TypeOK'
  BY NextType DEF IInv
<1>2. ASSUME NEW n \in Node, NEW b \in Block, OnBlock(n, b) PROVE IInv'
  <2>1. CASE UNCHANGED vars
    BY <2>1, StutterInv
  <2>2. CASE Timely
    BY <1>1, <1>2, <2>2, OnBlockInv DEF Timely
  <2> QED
    BY <2>1, <2>2
<1> QED
  BY <1>1, <1>2, ProposeInv, OnBlockAckInv, FinalizeInv, SaveStateInv, CatchUpInv,
     AdoptSnapshotInv, PruneSeenInv, PruneAcksInv, RestartInv, StutterInv
  DEF Next, GossipNext

-----------------------------------------------------------------------------
(* What the invariant gives.                                               *)

(* No two nodes ever finalize different blocks at one height, for chains   *)
(* of any length and with pruned maps, when quorums share a validator that *)
(* does not restart and blocks are timely.                                 *)
THEOREM NoFork ==
  ASSUME RestartBound
  PROVE  Spec /\ [][Timely]_vars => []Agreement
<1>1. IInv => Agreement
  <2> SUFFICES ASSUME IInv, NEW n \in Node, NEW m \in Node,
                      NEW i \in DOMAIN chain[n] \cap DOMAIN chain[m]
               PROVE  chain[n][i] = chain[m][i]
    BY DEF Agreement
  <2>1. /\ chain[n][i] \in Certified /\ chain[m][i] \in Certified
        /\ Height[chain[n][i]] = Height[chain[m][i]]
    BY DEF IInv, HeldInv
  <2> QED
    BY <2>1, CertifiedUnique DEF IInv
<1> QED
  BY <1>1, InitInv, NextInv, PTL DEF Spec

(* Every applied or archived block carries ceil(2N/3) signatures, also in  *)
(* the middle of a handler and after a crash.                              *)
THEOREM FinalCertified ==
  ASSUME RestartBound
  PROVE  Spec /\ [][Timely]_vars => []FinalIsCertified
<1>1. IInv => FinalIsCertified
  BY DEF IInv, HeldInv, FinalIsCertified, Applied, Certified
<1> QED
  BY <1>1, InitInv, NextInv, PTL DEF Spec

(* A validator that never restarted signed at most one block of a height.  *)
THEOREM OneVote ==
  ASSUME RestartBound
  PROVE  Spec /\ [][Timely]_vars => []OneVotePerHeight
<1>1. IInv => OneVotePerHeight
  BY DEF IInv
<1> QED
  BY <1>1, InitInv, NextInv, PTL DEF Spec

-----------------------------------------------------------------------------
(* Files lag behind memory.                                                *)

\* LagInv holds initially: nothing is saved or acknowledged.
LEMMA InitLag == Init => LagInv
  BY DEF Init, LagInv

(* No step saves a longer chain than the one in memory, or acknowledges a  *)
(* block that was not sent.                                                *)
LEMMA NextLag == TypeOK /\ LagInv /\ [Next]_vars => LagInv'
<1> SUFFICES ASSUME TypeOK, LagInv, [Next]_vars PROVE LagInv'
  OBVIOUS
<1> USE DEF LagInv
<1>1. ASSUME UNCHANGED chain, UNCHANGED disk, UNCHANGED messages PROVE LagInv'
  BY <1>1 DEF messages
<1>2. ASSUME NEW n \in Node, NEW b \in Block, HandleBlock(n, b),
             sentBlocks' = sentBlocks \cup {b}, UNCHANGED <<chain, files>>
      PROVE  LagInv'
  <2>1. CASE Conflicts(n, b)
    <3>1. UNCHANGED sentAcks
      BY <1>2, <2>1, Zenon DEF HandleBlock
    <3> QED
      BY <1>2, <3>1 DEF files
  <2>2. CASE ~Conflicts(n, b)
    <3>1. sentAcks' = sentAcks \cup {<<b, v>> : v \in Signer(n)}
      BY <1>2, <2>2, Zenon DEF HandleBlock
    <3> QED
      BY <1>2, <3>1 DEF files
  <2> QED
    BY <2>1, <2>2
<1>3. ASSUME NEW n \in Node, NEW b \in Block, chain' = [chain EXCEPT ![n] = Append(@, b)],
             UNCHANGED disk, UNCHANGED messages
      PROVE  LagInv'
  <2>1. chain[n] \in Seq(Block) /\ chain'[n] = Append(chain[n], b)
    BY <1>3 DEF TypeOK
  <2>2. Len(chain'[n]) >= Len(chain[n])
    BY <2>1
  <2>3. Len(disk'[n]) <= Len(chain'[n])
    <3>1. /\ Len(chain[n]) \in Nat /\ Len(disk[n]) \in Nat /\ Len(chain'[n]) \in Nat
      BY <2>1 DEF TypeOK
    <3> QED
      BY <1>3, <2>2, <3>1
  <2>4. \A p \in Node \ {n} : chain'[p] = chain[p]
    BY <1>3 DEF TypeOK
  <2> QED
    BY <1>3, <2>3, <2>4 DEF messages
<1>4. ASSUME NEW n \in Node, NEW b \in Block, Propose(n, b) PROVE LagInv'
  BY <1>2, <1>4 DEF Propose
<1>5. ASSUME NEW n \in Node, NEW b \in Block, OnBlock(n, b) PROVE LagInv'
  <2>1. HandleBlock(n, b) /\ UNCHANGED <<chain, files>> /\ sentBlocks' = sentBlocks \cup {b}
    BY <1>5 DEF OnBlock
  <2> QED
    BY <1>2, <2>1
<1>6. ASSUME NEW n \in Node, NEW b \in Block, NEW v \in Validator, OnBlockAck(n, b, v)
      PROVE  LagInv'
  BY <1>1, <1>6 DEF OnBlockAck, files
<1>7. ASSUME NEW n \in Node, NEW b \in Block, Finalize(n, b) PROVE LagInv'
  <2>1. UNCHANGED disk /\ UNCHANGED messages
    BY <1>7 DEF Finalize
  <2>2. UNCHANGED chain \/ chain' = [chain EXCEPT ![n] = Append(@, b)]
    BY <1>7, Zenon DEF Finalize
  <2> QED
    BY <1>1, <1>3, <2>1, <2>2
<1>8. ASSUME NEW n \in Node, SaveState(n) PROVE LagInv'
  <2>1. /\ disk' = [disk EXCEPT ![n] = chain[n]]
        /\ UNCHANGED chain /\ UNCHANGED messages
    BY <1>8 DEF SaveState
  <2>2. \A p \in Node : disk'[p] = chain[p] \/ disk'[p] = disk[p]
    BY <2>1 DEF TypeOK
  <2>3. \A p \in Node : Len(chain[p]) \in Nat
    BY DEF TypeOK
  <2> QED
    BY <2>1, <2>2, <2>3 DEF messages
<1>9. ASSUME NEW n \in Node, NEW m \in Node, NEW b \in Block, CatchUp(n, m, b)
      PROVE  LagInv'
  BY <1>3, <1>9 DEF CatchUp
<1>10. ASSUME NEW n \in Node, NEW m \in Node, NEW k \in DOMAIN disk[m],
              AdoptSnapshot(n, m, k)
       PROVE  LagInv'
  <2>1. /\ chain' = [chain EXCEPT ![n] = SubSeq(disk[m], 1, k)]
        /\ disk' = [disk EXCEPT ![n] = chain'[n]] /\ UNCHANGED messages
    BY <1>10 DEF AdoptSnapshot
  <2>2. disk'[n] = chain'[n] /\ chain'[n] \in Seq(Block)
    <3>1. TypeOK'
      BY NextType
    <3> QED
      BY <2>1, <3>1 DEF TypeOK
  <2>3. \A p \in Node \ {n} : disk'[p] = disk[p] /\ chain'[p] = chain[p]
    BY <2>1 DEF TypeOK
  <2>4. Len(disk'[n]) <= Len(chain'[n])
    BY <2>2
  <2> QED
    BY <2>1, <2>3, <2>4 DEF messages
<1>11. ASSUME NEW n \in Node, PruneSeen(n) \/ PruneAcks(n) PROVE LagInv'
  BY <1>1, <1>11 DEF PruneSeen, PruneAcks, files
<1>12. ASSUME NEW n \in Node, Restart(n) PROVE LagInv'
  <2>1. chain' = [chain EXCEPT ![n] = disk[n]] /\ UNCHANGED disk /\ UNCHANGED messages
    BY <1>12 DEF Restart, files
  <2>2. \A p \in Node : chain'[p] = disk[p] \/ chain'[p] = chain[p]
    BY <2>1 DEF TypeOK
  <2>3. \A p \in Node : Len(disk[p]) \in Nat
    BY DEF TypeOK
  <2> QED
    BY <2>1, <2>2, <2>3 DEF messages
<1>13. CASE UNCHANGED vars
  BY <1>1, <1>13 DEF vars, files
<1> QED
  BY <1>4, <1>5, <1>6, <1>7, <1>8, <1>9, <1>10, <1>11, <1>12, <1>13
  DEF Next, GossipNext

-----------------------------------------------------------------------------
(* Chains of certified blocks.                                             *)

\* A certified block was sent, and its parent is certified.
LEMMA CertifiedParent ==
  ASSUME IInv, LagInv, NEW b \in Certified
  PROVE  /\ b \in sentBlocks /\ b \in Block
         /\ \/ Height[b] = 0 /\ Prev[b] = NoBlock
            \/ Prev[b] \in Certified /\ Height[b] = Height[Prev[b]] + 1
<1>1. b \in Block /\ Cardinality(Signers(b)) >= Threshold
  BY DEF Certified
<1>2. Signers(b) # {}
  <2>1. Threshold \in Nat /\ Threshold >= 1
    BY NetworkAssumption DEF Threshold
  <2> QED
    BY <1>1, <2>1, FS_EmptySet
<1>3. b \in sentBlocks
  BY <1>1, <1>2 DEF Signers, AckedBy, LagInv
<1> QED
  BY <1>1, <1>3 DEF IInv, SentInv

\* Two chains of certified blocks, ordered by height, agree where both are
\* defined; the shorter is a prefix of the longer.
LEMMA ShorterIsPrefix ==
  ASSUME RestartBound, IInv, NEW C \in Seq(Block), NEW D \in Seq(Block),
         \A i \in DOMAIN C : C[i] \in Certified /\ Height[C[i]] = i - 1,
         \A i \in DOMAIN D : D[i] \in Certified /\ Height[D[i]] = i - 1,
         Len(C) <= Len(D)
  PROVE  Log!IsPrefixOf(C, D)
<1>1. \A i \in DOMAIN C : i \in DOMAIN D
  OBVIOUS
<1>2. \A i \in DOMAIN C : C[i] = D[i]
  BY <1>1, CertifiedUnique DEF IInv
<1> QED
  BY <1>2 DEF Log!IsPrefixOf

\* A chain of certified blocks ordered by height is linked by prev_hash.
LEMMA OrderedIsLinked ==
  ASSUME RestartBound, IInv, LagInv, NEW C \in Seq(Block),
         \A i \in DOMAIN C : C[i] \in Certified /\ Height[C[i]] = i - 1
  PROVE  Log!ChainOf(C)
<1> SUFFICES ASSUME NEW i \in DOMAIN C
             PROVE  Prev[C[i]] = IF i = 1 THEN NoBlock ELSE C[i-1]
  BY DEF Log!ChainOf
<1>1. /\ C[i] \in Certified /\ Height[C[i]] = i - 1 /\ i \in 1 .. Len(C)
      /\ Len(C) \in Nat
  OBVIOUS
<1>2. CASE i = 1
  <2>1. ASSUME Prev[C[i]] \in Certified, Height[C[i]] = Height[Prev[C[i]]] + 1
        PROVE  FALSE
    <3>1. Height[Prev[C[i]]] \in Nat
      BY <2>1, BlockAssumption DEF Certified
    <3> QED
      BY <2>1, <3>1, <1>1, <1>2
  <2> QED
    BY <1>1, <1>2, <2>1, CertifiedParent
<1>3. CASE i # 1
  <2>1. i - 1 \in DOMAIN C /\ C[i-1] \in Certified /\ Height[C[i-1]] = i - 2
    BY <1>1, <1>3
  <2>2. Prev[C[i]] \in Certified /\ Height[C[i]] = Height[Prev[C[i]]] + 1
    BY <1>1, <1>3, CertifiedParent
  <2>3. Height[Prev[C[i]]] = i - 2
    <3>1. Height[Prev[C[i]]] \in Nat
      BY <2>2, BlockAssumption DEF Certified
    <3> QED
      BY <1>1, <2>2, <3>1
  <2> QED
    BY <1>3, <2>1, <2>2, <2>3, CertifiedUnique DEF IInv
<1> QED
  BY <1>2, <1>3

-----------------------------------------------------------------------------
(* Every step of the protocol is a step of the log, or none.               *)

\* A handled block makes at most one block certified: the block handled.
LEMMA HandleBlockDecides ==
  ASSUME RestartBound, IInv, LagInv, IInv', LagInv',
         NEW n \in Node, NEW b \in Block, HandleBlock(n, b),
         sentBlocks' = sentBlocks \cup {b}, UNCHANGED chain,
         \/ b \in sentBlocks
         \/ Height[b] = 0 /\ Prev[b] = NoBlock
         \/ Prev[b] \in Certified /\ Height[b] = Height[Prev[b]] + 1
  PROVE  UNCHANGED <<Certified, chain>> \/ Log!Decide(b)
<1>1. sentAcks \subseteq sentAcks' /\ \A a \in sentAcks' \ sentAcks : a[1] = b
  <2>1. CASE Conflicts(n, b)
    <3>1. UNCHANGED sentAcks
      BY <2>1, Zenon DEF HandleBlock
    <3> QED
      BY <3>1
  <2>2. CASE ~Conflicts(n, b)
    <3>1. sentAcks' = sentAcks \cup {<<b, v>> : v \in Signer(n)}
      BY <2>2, Zenon DEF HandleBlock
    <3> QED
      BY <3>1
  <2> QED
    BY <2>1, <2>2
<1>2. \A c \in Block \ {b} : Signers(c)' = Signers(c)
  BY <1>1 DEF Signers, AckedBy
<1>3. Certified \subseteq Certified'
  BY <1>1, SignersGrow DEF IInv
<1>4. Certified' \subseteq Certified \cup {b}
  <2> SUFFICES ASSUME NEW c \in Certified', c # b PROVE c \in Certified
    OBVIOUS
  <2>1. c \in Block /\ Cardinality(Signers(c)') >= Threshold
    BY DEF Certified
  <2>2. Signers(c)' = Signers(c)
    BY <1>2, <2>1
  <2> QED
    BY <2>1, <2>2 DEF Certified
<1>5. CASE Certified' = Certified
  BY <1>5
<1>6. CASE Certified' # Certified
  <2>1. b \in Certified' /\ b \notin Certified /\ Certified' = Certified \cup {b}
    BY <1>3, <1>4, <1>6
  <2>2. \A c \in Certified : Height[c] # Height[b]
    <3> SUFFICES ASSUME NEW c \in Certified, Height[c] = Height[b] PROVE FALSE
      OBVIOUS
    <3>1. c \in Certified' /\ c # b
      BY <1>3, <2>1
    <3>2. PICK v \in Signers(b)' \cap Signers(c)' : v \notin Restartable
      <4>1. /\ Signers(b)' \in SUBSET Validator /\ Signers(c)' \in SUBSET Validator
            /\ Cardinality(Signers(b)') >= Threshold
            /\ Cardinality(Signers(c)') >= Threshold
        BY <2>1, <3>1, Seats, BlockAssumption DEF Certified, Signers, AckedBy, IInv, TypeOK
      <4> QED
        BY <4>1, QuorumsMeet
    <3>3. restarts'[v] = 0
      <4>1. Signers(b)' \in SUBSET Validator
        BY Seats, BlockAssumption DEF Signers, AckedBy, IInv, TypeOK
      <4> QED
        BY <3>2, <4>1, Seats DEF IInv, VoteInv
    <3>4. b \in Block /\ c \in Block
      BY DEF Certified
    <3> QED
      BY <3>1, <3>2, <3>3, <3>4 DEF IInv, OneVotePerHeight
  <2>3. \/ Height[b] = 0 /\ Prev[b] = NoBlock
        \/ Prev[b] \in Certified /\ Height[b] = Height[Prev[b]] + 1
    BY DEF IInv, SentInv
  <2> QED
    BY <2>1, <2>2, <2>3 DEF Log!Decide
<1> QED
  BY <1>5, <1>6

\* A node that appends the next block, or adopts a longer chain, extends its
\* view of the log.
LEMMA LongerExtends ==
  ASSUME RestartBound, IInv, LagInv, IInv', UNCHANGED messages,
         NEW n \in Node, NEW C, chain' = [chain EXCEPT ![n] = C],
         Len(C) >= Len(chain[n])
  PROVE  Log!Extend(n)
<1>1. UNCHANGED Certified
  BY SignersStay
<1>2. chain'[n] = C /\ C \in Seq(Block) /\ chain[n] \in Seq(Block)
  BY DEF IInv, TypeOK
<1>3. /\ \A i \in DOMAIN C : C[i] \in Certified /\ Height[C[i]] = i - 1
      /\ \A i \in DOMAIN chain[n] : chain[n][i] \in Certified /\ Height[chain[n][i]] = i - 1
  BY <1>1, <1>2 DEF IInv, HeldInv
<1>4. Log!IsPrefixOf(chain[n], C)
  BY <1>2, <1>3, ShorterIsPrefix
<1>5. Log!ChainOf(C)
  BY <1>2, <1>3, OrderedIsLinked
<1> QED
  BY <1>1, <1>2, <1>4, <1>5 DEF Log!Extend

\* Every step of the network maps to a step of FinalLog or to a stutter.
LEMMA StepRefines ==
  ASSUME RestartBound, IInv, LagInv, IInv', LagInv', [Next]_vars
  PROVE  [Log!Next]_<<Certified, chain>>
<1> USE DEF Log!Next
<1>1. ASSUME UNCHANGED chain, UNCHANGED messages PROVE UNCHANGED <<Certified, chain>>
  BY <1>1, SignersStay
<1>2. ASSUME NEW n \in Node, NEW b \in Block, Propose(n, b)
      PROVE  UNCHANGED <<Certified, chain>> \/ Log!Decide(b)
  <2>1. /\ HandleBlock(n, b) /\ sentBlocks' = sentBlocks \cup {b} /\ UNCHANGED chain
        /\ Linked(n, b)
    BY <1>2 DEF Propose
  <2>2. \/ Height[b] = 0 /\ Prev[b] = NoBlock
        \/ Prev[b] \in Certified /\ Height[b] = Height[Prev[b]] + 1
    BY <2>1, ProposalParent
  <2> QED
    BY <2>1, <2>2, HandleBlockDecides
<1>3. ASSUME NEW n \in Node, NEW b \in Block, OnBlock(n, b)
      PROVE  UNCHANGED <<Certified, chain>> \/ Log!Decide(b)
  <2>1. /\ HandleBlock(n, b) /\ sentBlocks' = sentBlocks \cup {b} /\ UNCHANGED chain
        /\ b \in sentBlocks
    BY <1>3 DEF OnBlock
  <2> QED
    BY <2>1, HandleBlockDecides
<1>4. ASSUME NEW n \in Node, NEW b \in Block, NEW v \in Validator, OnBlockAck(n, b, v)
      PROVE  UNCHANGED <<Certified, chain>>
  BY <1>1, <1>4 DEF OnBlockAck
<1>5. ASSUME NEW n \in Node, NEW b \in Block,
             chain' = [chain EXCEPT ![n] = Append(@, b)], UNCHANGED messages
      PROVE  Log!Extend(n)
  <2>1. chain[n] \in Seq(Block)
    BY DEF IInv, TypeOK
  <2>2. Len(Append(chain[n], b)) >= Len(chain[n])
    BY <2>1
  <2>3. chain' = [chain EXCEPT ![n] = Append(chain[n], b)]
    BY <1>5
  <2> QED
    BY <1>5, <2>2, <2>3, LongerExtends
<1>6. ASSUME NEW n \in Node, NEW b \in Block, Finalize(n, b)
      PROVE  UNCHANGED <<Certified, chain>> \/ Log!Extend(n)
  <2>1. UNCHANGED messages
    BY <1>6 DEF Finalize
  <2>2. UNCHANGED chain \/ chain' = [chain EXCEPT ![n] = Append(@, b)]
    BY <1>6, Zenon DEF Finalize
  <2> QED
    BY <1>1, <1>5, <2>1, <2>2
<1>7. ASSUME NEW n \in Node, SaveState(n) PROVE UNCHANGED <<Certified, chain>>
  BY <1>1, <1>7 DEF SaveState
<1>8. ASSUME NEW n \in Node, NEW m \in Node, NEW b \in Block, CatchUp(n, m, b)
      PROVE  Log!Extend(n)
  BY <1>5, <1>8 DEF CatchUp
<1>9. ASSUME NEW n \in Node, NEW m \in Node, NEW k \in DOMAIN disk[m],
             AdoptSnapshot(n, m, k)
      PROVE  Log!Extend(n)
  <2>1. /\ chain' = [chain EXCEPT ![n] = SubSeq(disk[m], 1, k)]
        /\ UNCHANGED messages /\ k > Len(chain[n])
    BY <1>9 DEF AdoptSnapshot, Accepts, Expected
  <2>2. disk[m] \in Seq(Block) /\ k \in 1 .. Len(disk[m])
    BY DEF IInv, TypeOK
  <2>3. Len(SubSeq(disk[m], 1, k)) = k
    BY <2>2
  <2>4. Len(chain[n]) \in Nat
    BY DEF IInv, TypeOK
  <2>5. Len(SubSeq(disk[m], 1, k)) >= Len(chain[n])
    BY <2>1, <2>2, <2>3, <2>4
  <2> QED
    BY <2>1, <2>5, LongerExtends
<1>10. ASSUME NEW n \in Node, PruneSeen(n) \/ PruneAcks(n)
       PROVE  UNCHANGED <<Certified, chain>>
  BY <1>1, <1>10 DEF PruneSeen, PruneAcks
<1>11. ASSUME NEW n \in Node, Restart(n) PROVE Log!FallBack(n)
  <2>1. chain' = [chain EXCEPT ![n] = disk[n]] /\ UNCHANGED messages
    BY <1>11 DEF Restart
  <2>2. chain'[n] = disk[n] /\ disk[n] \in Seq(Block) /\ chain[n] \in Seq(Block)
    BY <2>1 DEF IInv, TypeOK
  <2>3. Log!IsPrefixOf(disk[n], chain[n])
    BY <2>2, ShorterIsPrefix DEF IInv, HeldInv, LagInv
  <2>4. UNCHANGED Certified
    BY <2>1, SignersStay
  <2> QED
    BY <2>1, <2>2, <2>3, <2>4 DEF Log!FallBack
<1>12. CASE UNCHANGED vars
  BY <1>1, <1>12 DEF vars
<1> QED
  BY <1>2, <1>3, <1>4, <1>6, <1>7, <1>8, <1>9, <1>10, <1>11, <1>12
  DEF Next, GossipNext

-----------------------------------------------------------------------------
(* Theorems.                                                               *)

(* The protocol implements the log: certified blocks form one chain, and   *)
(* finalization, catch-up, snapshots and restarts only move each node      *)
(* along it.                                                               *)
THEOREM LogRefinement ==
  ASSUME RestartBound
  PROVE  Spec /\ [][Timely]_vars => ImplementsFinalLog
<1>1. Init => Log!Init
  <2> SUFFICES ASSUME Init PROVE Log!Init
    OBVIOUS
  <2>1. \A b \in Block : Signers(b) = {}
    BY DEF Init, Signers, AckedBy
  <2>2. Threshold \in Nat /\ Threshold >= 1
    BY NetworkAssumption DEF Threshold
  <2>3. Certified = {}
    BY <2>1, <2>2, FS_EmptySet DEF Certified
  <2> QED
    BY <2>3 DEF Log!Init, Init
<1>2. IInv /\ LagInv /\ IInv' /\ LagInv' /\ [Next]_vars
        => [Log!Next]_<<Certified, chain>>
  BY StepRefines
<1>3. IInv /\ LagInv /\ [Next]_vars /\ [Timely]_vars => IInv' /\ LagInv'
  BY NextInv, NextLag DEF IInv
<1>4. Init => IInv /\ LagInv
  BY InitInv, InitLag
<1> QED
  BY <1>1, <1>2, <1>3, <1>4, PTL DEF Spec, ImplementsFinalLog, Log!Spec

(* The saved chain only grows: no restart, catch-up, late block or adopted *)
(* snapshot takes a saved block back.                                      *)
THEOREM SavedOnlyGrows ==
  ASSUME RestartBound
  PROVE  Spec /\ [][Timely]_vars => NeverRewinds
<1> DEFINE Grows(n) == /\ Len(disk'[n]) >= Len(disk[n])
                       /\ \A i \in DOMAIN disk[n] : disk'[n][i] = disk[n][i]
<1>1. ASSUME IInv, LagInv, [Next]_vars, NEW n \in Node PROVE Grows(n)
  <2>1. disk[n] \in Seq(Block) /\ chain[n] \in Seq(Block) /\ Len(disk[n]) <= Len(chain[n])
    BY <1>1 DEF IInv, TypeOK, LagInv
  <2>2. CASE disk'[n] = disk[n]
    BY <2>1, <2>2
  <2>3. CASE disk'[n] = chain[n]
    <3>1. Log!IsPrefixOf(disk[n], chain[n])
      BY <1>1, <2>1, ShorterIsPrefix DEF IInv, HeldInv
    <3> QED
      BY <2>3, <3>1 DEF Log!IsPrefixOf
  <2>4. ASSUME NEW p \in Node, NEW m \in Node, NEW k \in DOMAIN disk[m],
               AdoptSnapshot(p, m, k)
        PROVE  Grows(n)
    <3>1. /\ disk' = [disk EXCEPT ![p] = chain'[p]]
          /\ chain' = [chain EXCEPT ![p] = SubSeq(disk[m], 1, k)]
          /\ disk[p] = chain[p] /\ k > Len(chain[p])
      BY <2>4 DEF AdoptSnapshot, Accepts, Expected, Idle
    <3>2. CASE p # n
      BY <1>1, <2>2, <3>1, <3>2 DEF IInv, TypeOK
    <3>3. CASE p = n
      <4>1. disk[m] \in Seq(Block) /\ k \in 1 .. Len(disk[m])
        BY <1>1 DEF IInv, TypeOK
      <4>2. disk'[n] = SubSeq(disk[m], 1, k)
        BY <1>1, <3>1, <3>3 DEF IInv, TypeOK
      <4>3. /\ disk'[n] \in Seq(Block) /\ Len(disk'[n]) = k
            /\ \A i \in 1 .. k : disk'[n][i] = disk[m][i]
        BY <4>1, <4>2
      <4>4. \A i \in DOMAIN disk'[n] :
              disk'[n][i] \in Certified /\ Height[disk'[n][i]] = i - 1
        <5>1. \A i \in 1 .. Len(disk[m]) :
                disk[m][i] \in Certified /\ Height[disk[m][i]] = i - 1
          BY <1>1, <4>1 DEF IInv, HeldInv
        <5>2. DOMAIN disk'[n] = 1 .. k /\ 1 .. k \subseteq 1 .. Len(disk[m])
          BY <4>1, <4>3
        <5> QED
          BY <4>3, <5>1, <5>2
      <4>5. Len(disk[n]) <= Len(disk'[n])
        BY <2>1, <3>1, <3>3, <4>1, <4>3
      <4>6. Log!IsPrefixOf(disk[n], disk'[n])
        BY <1>1, <2>1, <4>3, <4>4, <4>5, ShorterIsPrefix DEF IInv, HeldInv
      <4> QED
        BY <4>6, <2>1, <4>3 DEF Log!IsPrefixOf
    <3> QED
      BY <3>2, <3>3
  <2>5. ASSUME NEW p \in Node, SaveState(p) PROVE disk'[n] = disk[n] \/ disk'[n] = chain[n]
    BY <1>1, <2>5 DEF SaveState, IInv, TypeOK
  <2>6. ASSUME UNCHANGED disk PROVE Grows(n)
    BY <2>2, <2>6
  <2> HIDE DEF Grows
  <2> QED
    BY <1>1, <2>2, <2>3, <2>4, <2>5, <2>6
    DEF Next, GossipNext, vars, files, Propose, OnBlock, OnBlockAck, Finalize, CatchUp,
        PruneSeen, PruneAcks, Restart
<1>2. IInv /\ LagInv /\ [Next]_vars => [\A n \in Node : Grows(n)]_vars
  BY <1>1
<1>3. IInv /\ LagInv /\ [Next]_vars /\ [Timely]_vars => IInv' /\ LagInv'
  BY NextInv, NextLag DEF IInv
<1>4. Init => IInv /\ LagInv
  BY InitInv, InitLag
<1> QED
  BY <1>2, <1>3, <1>4, PTL DEF Spec, NeverRewinds

(* The block archive is append-only, crashes included: blocks are archived *)
(* again only over themselves.                                             *)
THEOREM ArchiveOnlyGrows ==
  ASSUME RestartBound
  PROVE  Spec /\ [][Timely]_vars => ArchiveAppendOnly
<1>1. ASSUME IInv, NEW n \in Node, NEW b \in Certified
      PROVE  archive[n] \subseteq Archived(archive[n], b)
  BY <1>1, CertifiedUnique DEF IInv, HeldInv, Archived
<1>2. ASSUME IInv, [Next]_vars, NEW n \in Node PROVE archive[n] \subseteq archive'[n]
  <2>1. ASSUME UNCHANGED archive PROVE archive[n] \subseteq archive'[n]
    BY <2>1
  <2>2. ASSUME NEW p \in Node, NEW b \in Certified,
               archive' = [archive EXCEPT ![p] = Archived(@, b)]
        PROVE  archive[n] \subseteq archive'[n]
    BY <1>1, <1>2, <2>2 DEF IInv, TypeOK
  <2>3. ASSUME NEW p \in Node, NEW b \in Block, Finalize(p, b)
        PROVE  archive[n] \subseteq archive'[n]
    <3>1. b \in Certified
      BY <1>2, <2>3 DEF Finalize, IInv, HeldInv
    <3>2. UNCHANGED archive \/ archive' = [archive EXCEPT ![p] = Archived(@, b)]
      BY <2>3, Zenon DEF Finalize
    <3> QED
      BY <2>1, <2>2, <3>1, <3>2
  <2>4. ASSUME NEW p \in Node, NEW m \in Node, NEW b \in Block, CatchUp(p, m, b)
        PROVE  archive[n] \subseteq archive'[n]
    <3>1. b \in Certified /\ archive' = [archive EXCEPT ![p] = Archived(@, b)]
      BY <1>2, <2>4 DEF CatchUp, IInv, HeldInv
    <3> QED
      BY <2>2, <3>1
  <2> QED
    BY <1>2, <2>1, <2>3, <2>4
    DEF Next, GossipNext, vars, files, Propose, OnBlock, OnBlockAck, SaveState,
        AdoptSnapshot, PruneSeen, PruneAcks, Restart
<1>3. IInv /\ [Next]_vars => [\A n \in Node : archive[n] \subseteq archive'[n]]_vars
  BY <1>2
<1> QED
  BY <1>3, InitInv, NextInv, PTL DEF Spec, ArchiveAppendOnly

-----------------------------------------------------------------------------
(* The archive that nodes serve to each other.                             *)

(* The blocks of a chain, in memory and in its file, have their heights,   *)
(* and a validator has each of them in its archive.                        *)
ServedInv ==
  /\ \A n \in Node :
       /\ \A i \in DOMAIN chain[n] : Height[chain[n][i]] = i - 1
       /\ \A i \in DOMAIN disk[n] : Height[disk[n][i]] = i - 1
  /\ \A v \in Validator :
       /\ \A i \in DOMAIN chain[v] : chain[v][i] \in archive[v]
       /\ \A i \in DOMAIN disk[v] : disk[v][i] \in archive[v]

\* A block that is applied next to a chain is archived over no block of the
\* chain or of its file, which is no longer.
LEMMA AppendServed ==
  ASSUME TypeOK, LagInv, ServedInv, NEW n \in Node, NEW b \in Block, Linked(n, b),
         chain' = [chain EXCEPT ![n] = Append(@, b)],
         archive' = [archive EXCEPT ![n] = Archived(@, b)],
         UNCHANGED disk
  PROVE  ServedInv'
<1>1. /\ chain[n] \in Seq(Block) /\ disk[n] \in Seq(Block)
      /\ Len(disk[n]) <= Len(chain[n]) /\ Height[b] = Len(chain[n])
  BY DEF TypeOK, LagInv, Linked, Expected
<1>2. /\ chain'[n] = Append(chain[n], b) /\ archive'[n] = Archived(archive[n], b)
      /\ \A p \in Node \ {n} : chain'[p] = chain[p] /\ archive'[p] = archive[p]
  BY DEF TypeOK
<1>3. /\ Len(chain'[n]) = Len(chain[n]) + 1 /\ chain'[n] \in Seq(Block)
      /\ \A i \in 1 .. Len(chain[n]) : chain'[n][i] = chain[n][i]
      /\ chain'[n][Len(chain[n]) + 1] = b
  BY <1>1, <1>2, AppendProperties
<1>4. \A i \in DOMAIN chain'[n] : i \in 1 .. Len(chain[n]) \/ i = Len(chain[n]) + 1
  BY <1>1, <1>3
<1>5. \A i \in DOMAIN chain'[n] : Height[chain'[n][i]] = i - 1
  BY <1>1, <1>3, <1>4 DEF ServedInv
<1>6. \A c \in archive[n] : Height[c] # Height[b] => c \in archive'[n]
  BY <1>2 DEF Archived
<1>7. b \in archive'[n]
  BY <1>2 DEF Archived
<1>8. ASSUME n \in Validator, NEW i \in DOMAIN chain'[n]
      PROVE  chain'[n][i] \in archive'[n]
  <2>1. CASE i = Len(chain[n]) + 1
    BY <1>3, <1>7, <2>1
  <2>2. CASE i \in 1 .. Len(chain[n])
    <3>1. /\ chain[n][i] \in archive[n] /\ Height[chain[n][i]] = i - 1
          /\ chain'[n][i] = chain[n][i]
      BY <1>1, <1>3, <1>8, <2>2 DEF ServedInv
    <3>2. i - 1 # Len(chain[n])
      BY <1>1, <2>2
    <3> QED
      BY <1>1, <1>6, <3>1, <3>2
  <2> QED
    BY <1>4, <1>8, <2>1, <2>2
<1>9. ASSUME n \in Validator, NEW i \in DOMAIN disk[n]
      PROVE  disk[n][i] \in archive'[n]
  <2>1. /\ disk[n][i] \in archive[n] /\ Height[disk[n][i]] = i - 1
    BY <1>9 DEF ServedInv
  <2>2. i - 1 # Len(chain[n])
    BY <1>1, <1>9
  <2> QED
    BY <1>1, <1>6, <2>1, <2>2
<1>10. ASSUME NEW p \in Node
       PROVE  /\ \A i \in DOMAIN chain'[p] : Height[chain'[p][i]] = i - 1
              /\ \A i \in DOMAIN disk'[p] : Height[disk'[p][i]] = i - 1
  BY <1>2, <1>5 DEF ServedInv
<1>11. ASSUME NEW v \in Validator
       PROVE  /\ \A i \in DOMAIN chain'[v] : chain'[v][i] \in archive'[v]
              /\ \A i \in DOMAIN disk'[v] : disk'[v][i] \in archive'[v]
  <2>1. v \in Node
    BY Seats
  <2>2. CASE v = n
    BY <1>8, <1>9, <1>11, <2>2
  <2>3. CASE v # n
    BY <1>2, <2>1, <2>3 DEF ServedInv
  <2> QED
    BY <2>2, <2>3
<1> QED
  BY <1>10, <1>11 DEF ServedInv

\* Nothing is archived over a block that a restart would come back to.
LEMMA NextServed == TypeOK /\ LagInv /\ ServedInv /\ [Next]_vars => ServedInv'
<1> SUFFICES ASSUME TypeOK, LagInv, ServedInv, [Next]_vars PROVE ServedInv'
  OBVIOUS
<1>1. ASSUME UNCHANGED chain, UNCHANGED disk, UNCHANGED archive PROVE ServedInv'
  BY <1>1 DEF ServedInv
<1>2. ASSUME NEW n \in Node, NEW b \in Block, Finalize(n, b) PROVE ServedInv'
  <2>1. CASE Linked(n, b)
    BY <1>2, <2>1, AppendServed DEF Finalize
  <2>2. CASE ~Linked(n, b)
    <3>1. UNCHANGED chain /\ UNCHANGED disk /\ UNCHANGED archive
      BY <1>2, <2>2 DEF Finalize
    <3> QED
      BY <1>1, <3>1
  <2> QED
    BY <2>1, <2>2
<1>3. ASSUME NEW n \in Node, NEW m \in Node, NEW b \in Block, CatchUp(n, m, b)
      PROVE  ServedInv'
  BY <1>3, AppendServed DEF CatchUp
<1>4. ASSUME NEW n \in Node, SaveState(n) PROVE ServedInv'
  <2>1. disk' = [disk EXCEPT ![n] = chain[n]] /\ UNCHANGED chain /\ UNCHANGED archive
    BY <1>4 DEF SaveState
  <2>2. \A p \in Node : disk'[p] = chain[p] \/ disk'[p] = disk[p]
    BY <2>1 DEF TypeOK
  <2>3. \A v \in Validator : v \in Node
    BY Seats
  <2> QED
    BY <2>1, <2>2, <2>3 DEF ServedInv
<1>5. ASSUME NEW n \in Node, Restart(n) PROVE ServedInv'
  <2>1. chain' = [chain EXCEPT ![n] = disk[n]] /\ UNCHANGED disk /\ UNCHANGED archive
    BY <1>5 DEF Restart, files
  <2>2. \A p \in Node : chain'[p] = disk[p] \/ chain'[p] = chain[p]
    BY <2>1 DEF TypeOK
  <2>3. \A v \in Validator : v \in Node
    BY Seats
  <2> QED
    BY <2>1, <2>2, <2>3 DEF ServedInv
<1>6. ASSUME NEW n \in Node, NEW m \in Node, NEW k \in DOMAIN disk[m],
             AdoptSnapshot(n, m, k)
      PROVE  ServedInv'
  <2>1. /\ chain' = [chain EXCEPT ![n] = SubSeq(disk[m], 1, k)]
        /\ disk' = [disk EXCEPT ![n] = chain'[n]] /\ UNCHANGED archive
        /\ n \in Observer
    BY <1>6 DEF AdoptSnapshot
  <2>2. /\ disk[m] \in Seq(Block) /\ k \in 1 .. Len(disk[m])
        /\ chain'[n] = SubSeq(disk[m], 1, k) /\ disk'[n] = chain'[n]
    BY <2>1 DEF TypeOK
  <2>3. /\ DOMAIN chain'[n] = 1 .. k /\ \A i \in 1 .. k : chain'[n][i] = disk[m][i]
        /\ 1 .. k \subseteq DOMAIN disk[m]
    BY <2>2
  <2>4. \A i \in DOMAIN chain'[n] : Height[chain'[n][i]] = i - 1
    BY <2>3 DEF ServedInv
  <2>5. \A p \in Node \ {n} : disk'[p] = disk[p] /\ chain'[p] = chain[p]
    BY <2>1 DEF TypeOK
  <2>6. \A v \in Validator : v \in Node /\ v # n
    BY <2>1, NetworkAssumption, Seats DEF Observer, Validator
  <2>7. ASSUME NEW p \in Node
        PROVE  /\ \A i \in DOMAIN chain'[p] : Height[chain'[p][i]] = i - 1
               /\ \A i \in DOMAIN disk'[p] : Height[disk'[p][i]] = i - 1
    <3>1. CASE p = n
      <4>1. disk'[p] = chain'[p] /\ chain'[p] = chain'[n]
        BY <2>2, <3>1
      <4> QED
        BY <2>4, <4>1
    <3>2. CASE p # n
      <4>1. disk'[p] = disk[p] /\ chain'[p] = chain[p]
        BY <2>5, <3>2
      <4> QED
        BY <4>1 DEF ServedInv
    <3> QED
      BY <3>1, <3>2
  <2>8. ASSUME NEW v \in Validator
        PROVE  /\ \A i \in DOMAIN chain'[v] : chain'[v][i] \in archive'[v]
               /\ \A i \in DOMAIN disk'[v] : disk'[v][i] \in archive'[v]
    BY <2>1, <2>5, <2>6 DEF ServedInv
  <2> QED
    BY <2>7, <2>8 DEF ServedInv
<1> QED
  BY <1>1, <1>2, <1>3, <1>4, <1>5, <1>6
  DEF Next, GossipNext, vars, files, Propose, OnBlock, OnBlockAck, PruneSeen, PruneAcks

(* A validator has every block of its saved chain in its archive, also     *)
(* after a crash between the two files, and whatever quorums share.        *)
THEOREM ServesWhatItSaved == Spec => []SavedIsServed
<1>1. Init => TypeOK /\ LagInv /\ ServedInv
  <2>1. Init => ServedInv
    BY Seats DEF Init, ServedInv
  <2> QED
    BY <2>1, InitType, InitLag
<1>2. TypeOK /\ LagInv /\ ServedInv /\ [Next]_vars => (TypeOK /\ LagInv /\ ServedInv)'
  BY NextType, NextLag, NextServed
<1>3. ServedInv => SavedIsServed
  BY DEF ServedInv, SavedIsServed
<1> QED
  BY <1>1, <1>2, <1>3, PTL DEF Spec

-----------------------------------------------------------------------------
(* Blocks and acknowledgements alone.                                      *)

(* A final pending block that is the next one has its call to try_finalize *)
(* left to run, or the handler that saves the block before it will find it.*)
ReadyInv ==
  \A n \in Node :
    /\ disk[n] # chain[n] => todo[n] # {}
    /\ disk[n] = chain[n] =>
         \A b \in pending[n] : IsFinal(acks[n], b) /\ Linked(n, b) => b \in todo[n]

\* A block that comes with its signers, or an acknowledgement, changes the
\* standing of that block only, and try_finalize is called for it.
LEMMA TryReady ==
  ASSUME TypeOK, ReadyInv, NEW n \in Node, NEW b \in Block, Idle(n),
         NEW V \in SUBSET Validator,
         TypeOK', UNCHANGED <<chain, disk>>,
         pending' = [pending EXCEPT ![n] = pending'[n]],
         pending'[n] \subseteq pending[n] \cup {b},
         acks' = [acks EXCEPT ![n] = @ \cup {<<b, v>> : v \in V}],
         todo' = [todo EXCEPT ![n] = Try(n, pending'[n], acks'[n], b)]
  PROVE  ReadyInv'
<1>1. /\ todo[n] = {} /\ disk[n] = chain[n]
      /\ chain'[n] = chain[n] /\ disk'[n] = disk[n]
      /\ acks'[n] = acks[n] \cup {<<b, v>> : v \in V}
      /\ todo'[n] = Try(n, pending'[n], acks'[n], b)
  BY DEF Idle, TypeOK
<1>2. \A p \in Node \ {n} : /\ chain'[p] = chain[p] /\ disk'[p] = disk[p]
                            /\ pending'[p] = pending[p] /\ acks'[p] = acks[p]
                            /\ todo'[p] = todo[p]
  BY DEF TypeOK
<1>3. ASSUME NEW c \in pending'[n], IsFinal(acks'[n], c), Linked(n, c)
      PROVE  c \in todo'[n]
  <2>1. CASE c = b
    <3>1. Height[c] <= Expected(n)
      <4>1. chain[n] \in Seq(Block)
        BY DEF TypeOK
      <4> QED
        BY <1>3, <4>1 DEF Linked, Expected
    <3> QED
      BY <1>1, <1>3, <2>1, <3>1 DEF Try
  <2>2. CASE c # b
    <3>1. AckedBy(acks'[n], c) = AckedBy(acks[n], c)
      BY <1>1, <2>2 DEF AckedBy
    <3>2. c \in pending[n] /\ IsFinal(acks[n], c)
      BY <1>3, <2>2, <3>1 DEF IsFinal
    <3> QED
      BY <1>1, <1>3, <3>2 DEF ReadyInv
  <2> QED
    BY <2>1, <2>2
<1>4. \A p \in Node : \A c : Linked(p, c)' <=> Linked(p, c)
  BY <1>1, <1>2 DEF Linked, Expected, Tip
<1>5. ASSUME NEW p \in Node
      PROVE  /\ disk'[p] # chain'[p] => todo'[p] # {}
             /\ disk'[p] = chain'[p] =>
                  \A c \in pending'[p] :
                    IsFinal(acks'[p], c) /\ Linked(p, c)' => c \in todo'[p]
  <2>1. CASE p = n
    BY <1>1, <1>3, <1>4, <2>1
  <2>2. CASE p # n
    BY <1>2, <1>4, <2>2 DEF ReadyInv
  <2> QED
    BY <2>1, <2>2
<1> QED
  BY <1>5 DEF ReadyInv, IsFinal, AckedBy

\* No handler ends with a ready block left behind.
LEMMA GossipReady == TypeOK /\ ReadyInv /\ [GossipNext]_vars => ReadyInv'
<1> SUFFICES ASSUME TypeOK, ReadyInv, [GossipNext]_vars PROVE ReadyInv'
  OBVIOUS
<1>1. TypeOK'
  BY NextType DEF Next
<1>2. CASE UNCHANGED vars
  BY <1>2 DEF vars, memory, files, ReadyInv, Linked, Expected, Tip
<1>3. ASSUME NEW n \in Node, NEW b \in Block, Idle(n), HandleBlock(n, b),
             UNCHANGED <<chain, disk>>
      PROVE  ReadyInv'
  <2>1. CASE Conflicts(n, b)
    <3>1. UNCHANGED memory
      BY <1>3, <2>1 DEF HandleBlock
    <3> QED
      BY <1>3, <3>1 DEF memory, ReadyInv, Linked, Expected, Tip
  <2>2. CASE ~Conflicts(n, b)
    <3> DEFINE V == {Leader(Height[b])} \cup Signer(n)
    <3>1. /\ pending' = [pending EXCEPT ![n] = @ \cup ({b} \ Applied(n))]
          /\ acks' = [acks EXCEPT ![n] = @ \cup {<<b, v>> : v \in V}]
          /\ todo' = [todo EXCEPT ![n] = Try(n, pending'[n], acks'[n], b)]
      BY <1>3, <2>2, Zenon DEF HandleBlock
    <3>2. V \in SUBSET Validator
      <4>1. Leader(Height[b]) \in Validator
        BY Seats, BlockAssumption
      <4>2. Signer(n) \subseteq Validator
        BY DEF Signer
      <4> QED
        BY <4>1, <4>2
    <3>3. pending'[n] \subseteq pending[n] \cup {b}
      BY <3>1 DEF TypeOK
    <3>4. pending' = [pending EXCEPT ![n] = pending'[n]]
      BY <3>1 DEF TypeOK
    <3> HIDE DEF V
    <3> QED
      BY <1>1, <1>3, <3>1, <3>2, <3>3, <3>4, TryReady
  <2> QED
    BY <2>1, <2>2
<1>4. ASSUME NEW n \in Node, NEW b \in Block, Propose(n, b) PROVE ReadyInv'
  BY <1>3, <1>4 DEF Propose, files
<1>5. ASSUME NEW n \in Node, NEW b \in Block, OnBlock(n, b) PROVE ReadyInv'
  BY <1>3, <1>5 DEF OnBlock, files
<1>6. ASSUME NEW n \in Node, NEW b \in Block, NEW v \in Validator, OnBlockAck(n, b, v)
      PROVE  ReadyInv'
  <2> DEFINE V == {v}
  <2>1. {<<b, w>> : w \in V} = {<<b, v>>} /\ V \in SUBSET Validator
    OBVIOUS
  <2>2. /\ acks' = [acks EXCEPT ![n] = @ \cup {<<b, w>> : w \in V}]
        /\ todo' = [todo EXCEPT ![n] = Try(n, pending'[n], acks'[n], b)]
        /\ Idle(n) /\ UNCHANGED <<chain, disk>> /\ pending' = pending
    BY <1>6, <2>1 DEF OnBlockAck, files
  <2>3. pending' = [pending EXCEPT ![n] = pending'[n]] /\ pending'[n] \subseteq pending[n] \cup {b}
    BY <2>2 DEF TypeOK
  <2> HIDE DEF V
  <2> QED
    BY <1>1, <2>1, <2>2, <2>3, TryReady
<1>7. ASSUME NEW n \in Node, NEW b \in Block, Finalize(n, b) PROVE ReadyInv'
  <2>1. /\ b \in todo[n] /\ disk[n] = chain[n]
        /\ pending'[n] = pending[n] \ {b}
        /\ UNCHANGED acks /\ UNCHANGED disk
    BY <1>7 DEF Finalize, TypeOK
  <2>2. \A p \in Node \ {n} : /\ chain'[p] = chain[p] /\ disk'[p] = disk[p]
                              /\ pending'[p] = pending[p] /\ acks'[p] = acks[p]
                              /\ todo'[p] = todo[p]
    BY <1>7, Zenon DEF Finalize, TypeOK
  <2>3. CASE Linked(n, b)
    <3>1. chain'[n] = Append(chain[n], b) /\ todo'[n] = todo[n]
      BY <1>7, <2>3 DEF Finalize, TypeOK
    <3>2. disk'[n] # chain'[n]
      <4>1. chain[n] \in Seq(Block)
        BY DEF TypeOK
      <4>2. Len(chain'[n]) = Len(chain[n]) + 1 /\ Len(chain[n]) \in Nat
        BY <3>1, <4>1
      <4> QED
        BY <2>1, <4>2
    <3> QED
      BY <2>1, <2>2, <3>1, <3>2 DEF ReadyInv, Linked, Expected, Tip
  <2>4. CASE ~Linked(n, b)
    <3>1. chain' = chain /\ todo'[n] = todo[n] \ {b}
      BY <1>7, <2>4 DEF Finalize, TypeOK
    <3> QED
      BY <2>1, <2>2, <3>1 DEF ReadyInv, Linked, Expected, Tip
  <2> QED
    BY <2>3, <2>4
<1>8. ASSUME NEW n \in Node, SaveState(n) PROVE ReadyInv'
  <2>1. todo[n] # {}
    BY <1>8 DEF SaveState, ReadyInv
  <2>2. /\ acks'[n] = {a \in acks[n] : a[1] # Tip(n)}
        /\ todo'[n] = (todo[n] \ {Tip(n)}) \cup NextCandidates(n, acks'[n])
        /\ disk'[n] = chain[n] /\ UNCHANGED chain /\ UNCHANGED pending
    BY <1>8, <2>1 DEF SaveState, TypeOK
  <2>3. \A p \in Node \ {n} : disk'[p] = disk[p] /\ acks'[p] = acks[p] /\ todo'[p] = todo[p]
    BY <1>8, <2>1 DEF SaveState, TypeOK
  <2>4. \A c \in pending[n] : IsFinal(acks'[n], c) /\ Linked(n, c) => c \in todo'[n]
    BY <2>2 DEF NextCandidates, Linked
  <2>5. \A p, c : Linked(p, c)' <=> Linked(p, c)
    BY <2>2 DEF Linked, Expected, Tip
  <2> QED
    BY <2>2, <2>3, <2>4, <2>5 DEF ReadyInv
<1> QED
  BY <1>2, <1>4, <1>5, <1>6, <1>7, <1>8 DEF GossipNext

(* While blocks and acknowledgements are all that moves the chain, no node *)
(* is idle with a final pending block that is the next one of its chain,   *)
(* in whatever order they came.                                            *)
THEOREM ReadyIsFinalized == GossipSpec => []NoReadyBlockLeft
<1>1. Init => TypeOK /\ ReadyInv
  <2>1. Init => ReadyInv
    BY DEF Init, ReadyInv
  <2> QED
    BY <2>1, InitType
<1>2. TypeOK /\ ReadyInv /\ [GossipNext]_vars => (TypeOK /\ ReadyInv)'
  <2>1. [GossipNext]_vars => [Next]_vars
    BY DEF Next
  <2> QED
    BY <2>1, NextType, GossipReady
<1>3. TypeOK /\ ReadyInv => NoReadyBlockLeft
  BY DEF ReadyInv, NoReadyBlockLeft, Idle
<1> QED
  BY <1>1, <1>2, <1>3, PTL DEF GossipSpec

=============================================================================
