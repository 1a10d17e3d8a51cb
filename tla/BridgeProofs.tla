---------------------------- MODULE BridgeProofs ----------------------------
(***************************************************************************)
(* Proofs about Bridge, for every set of keys, wallets, assets and amounts:*)
(* widths and types, that an unlock by more attestors than are careless is *)
(* of a final burn that no other unlock used, that a deposit is minted at  *)
(* most once and as it was locked, the books (what was unlocked of each    *)
(* record, and that the vault covers every claim) and the peg.             *)
(***************************************************************************)
EXTENDS Bridge, DataProofs, SequenceTheorems

-----------------------------------------------------------------------------
(* Numbers *)

\* The first of several sequence numbers is one of them.
LEMMA MinMember ==
  ASSUME NEW S \in SUBSET Nat, S # {}
  PROVE  Min(S) \in S
<1>1. PICK x \in S : \A y \in S : ~ (<<y, x>> \in OpToRel(<, Nat))
  BY NatLessThanWellFounded, WFMin
<1>2. ASSUME NEW y \in S, y < x
      PROVE  FALSE
  <2>1. OpToRel(<, Nat) = {ss \in Nat \X Nat : ss[1] < ss[2]}
    BY Zenon DEF OpToRel
  <2>2. <<y, x>> \in {ss \in Nat \X Nat : ss[1] < ss[2]}
    BY <1>2
  <2> QED
    BY <1>1, <2>1, <2>2
<1>3. \A y \in S : x <= y
  BY <1>2
<1> QED
  BY <1>3 DEF Min

LEMMA TimesBound ==
  ASSUME NEW x \in Nat, NEW bps \in 0 .. 10000
  PROVE  x * bps \in Nat /\ x * bps <= x * 10000
OBVIOUS

LEMMA DivBound ==
  ASSUME NEW p \in Nat, NEW x \in Nat, p <= x * 10000
  PROVE  p \div 10000 \in 0 .. x
OBVIOUS

\* A fee of at most 10000 basis points is between nothing and the amount.
LEMMA FeeBound ==
  ASSUME NEW x \in Nat, NEW bps \in BasisPoints
  PROVE  MulBps(x, bps) \in 0 .. x
<1> DEFINE p == x * bps
<1>1. p \in Nat /\ p <= x * 10000
  BY TimesBound DEF BasisPoints
<1> HIDE DEF p
<1>2. p \div 10000 \in 0 .. x
  BY <1>1, DivBound
<1> QED
  BY <1>2 DEF p, MulBps

LEMMA Widths ==
  /\ MaxU64 \in Nat /\ MaxAttestors \in Nat /\ MaxDeposits \in Nat
  /\ Amount \subseteq Nat /\ Amount \subseteq U64
  /\ U64 \subseteq Nat /\ \A x \in Nat : x <= MaxU64 => x \in U64
<1>1. MaxU64 \in Nat /\ MaxAttestors \in Nat /\ MaxDeposits \in Nat
  BY VaultAssumption
<1>2. \A x \in U64 : x \in Nat
  BY <1>1 DEF U64
<1>3. \A x \in Nat : x <= MaxU64 => x \in U64
  BY <1>1 DEF U64
<1>4. Amount \subseteq U64
  BY VaultAssumption
<1> QED
  BY <1>1, <1>2, <1>3, <1>4

LEMMA Rates == \A f \in Bps : f <= 10000 => f \in BasisPoints
<1>1. \A f \in Bps : f \in U16
  BY VaultAssumption
<1>2. \A f \in U16 : f \in Nat
  BY DEF U16
<1>3. \A f \in Nat : f <= 10000 => f \in BasisPoints
  BY DEF BasisPoints
<1> QED
  BY <1>1, <1>2, <1>3

-----------------------------------------------------------------------------
(* Records *)

LEMMA ConfigFields ==
  ASSUME config \in BridgeConfig
  PROVE  /\ config.fee \in BasisPoints /\ config.wfee \in BasisPoints
         /\ config.hybrid \in BOOLEAN /\ config.min \in 0 .. MaxAttestors
         /\ config.totalIn \in U64 /\ config.totalOut \in U64
BY DEF BridgeConfig

\* Neither total is part of the policy.
LEMMA TotalsChange ==
  ASSUME config \in BridgeConfig, NEW x \in U64
  PROVE  /\ [config EXCEPT !.totalIn = x] \in BridgeConfig
         /\ [config EXCEPT !.totalOut = x] \in BridgeConfig
         /\ [config EXCEPT !.totalIn = x].attestors = config.attestors
         /\ [config EXCEPT !.totalOut = x].attestors = config.attestors
BY DEF BridgeConfig

LEMMA RecordTypes ==
  ASSUME TypeOK
  PROVE  /\ deposits \in Seq(DepositRecord) /\ Len(deposits) \in Nat
         /\ DOMAIN deposits = 1 .. Len(deposits)
         /\ \A i \in DOMAIN deposits :
              /\ deposits[i] \in DepositRecord /\ i \in Nat
              /\ deposits[i].meshId \in MeshId /\ deposits[i].asset \in Asset
              /\ deposits[i].net \in U64 /\ deposits[i].unlocked \in U64
              /\ deposits[i].net \in Nat /\ deposits[i].unlocked \in Nat
              /\ deposits[i].gross \in Nat
<1>1. deposits \in Seq(DepositRecord)
  BY DEF TypeOK
<1>2. \A i \in DOMAIN deposits : deposits[i] \in DepositRecord
  BY <1>1
<1>3. \A r \in DepositRecord : /\ r.meshId \in MeshId /\ r.asset \in Asset
                               /\ r.net \in U64 /\ r.unlocked \in U64 /\ r.gross \in U64
  BY DEF DepositRecord
<1>4. \A x \in U64 : x \in Nat
  BY Widths
<1>5. Len(deposits) \in Nat /\ DOMAIN deposits = 1 .. Len(deposits)
  BY <1>1
<1> QED
  BY <1>1, <1>2, <1>3, <1>4, <1>5

\* Taking from a record changes what was taken from it, and only that.
LEMMA RecordTaken ==
  ASSUME TypeOK, NEW i \in DOMAIN deposits, NEW x \in U64,
         deposits' = [deposits EXCEPT ![i].unlocked = x]
  PROVE  /\ deposits' \in Seq(DepositRecord)
         /\ DOMAIN deposits' = DOMAIN deposits /\ Len(deposits') = Len(deposits)
         /\ deposits'[i].unlocked = x
         /\ \A j \in DOMAIN deposits :
              /\ deposits'[j].meshId = deposits[j].meshId /\ deposits'[j].net = deposits[j].net
              /\ deposits'[j].asset = deposits[j].asset
              /\ deposits'[j].gross = deposits[j].gross
              /\ j # i => deposits'[j] = deposits[j]
<1> DEFINE r == [deposits[i] EXCEPT !.unlocked = x]
<1>1. r \in DepositRecord
  BY RecordTypes DEF DepositRecord
<1>2. /\ r.unlocked = x
      /\ r.meshId = deposits[i].meshId /\ r.net = deposits[i].net
      /\ r.asset = deposits[i].asset /\ r.gross = deposits[i].gross
  BY RecordTypes DEF DepositRecord
<1>3. deposits' = [deposits EXCEPT ![i] = r]
  OBVIOUS
<1> HIDE DEF r
<1>4. /\ deposits' \in Seq(DepositRecord)
      /\ DOMAIN deposits' = DOMAIN deposits /\ Len(deposits') = Len(deposits)
      /\ deposits'[i] = r
      /\ \A j \in DOMAIN deposits : j # i => deposits'[j] = deposits[j]
  BY <1>1, <1>3, RecordTypes
<1> QED
  BY <1>2, <1>4

\* Signers are counted, and more of them than there are careless attestors
\* have a careful one among them.
LEMMA ManyAttest ==
  ASSUME VaultInv, config \in BridgeConfig, NEW S
  PROVE  /\ Attestations(S) \in Nat
         /\ Attestations(S) > Cardinality(Attestor \ Careful) => S \cap Careful # {}
<1>1. IsFiniteSet(Listed)
  <2> DEFINE list == config.attestors
             places == 1 .. Len(list)
  <2>1. list \in Seq(Key)
    BY DEF BridgeConfig
  <2>2. DOMAIN list = places /\ Len(list) \in Nat
    BY <2>1
  <2>3. list \in Surjection(places, Listed)
    <3>1. list = [i \in places |-> list[i]]
      BY <2>1, <2>2
    <3>2. \A i \in places : list[i] \in Listed
      BY <2>2 DEF Listed
    <3>3. \A k \in Listed : \E i \in places : list[i] = k
      BY <2>2 DEF Listed
    <3> HIDE DEF list, places
    <3> QED
      BY <3>1, <3>2, <3>3 DEF Surjection
  <2>4. IsFiniteSet(places)
    BY <2>2, FS_Interval
  <2> HIDE DEF list, places
  <2> QED
    BY <2>3, <2>4, FS_Surjection
<1>2. AttestorSigners(S) \in Nat
  BY <1>1, FS_Subset, FS_CardinalityType DEF AttestorSigners
<1>3. Cardinality(Attestor \ Careful) \in Nat
  BY BridgeAssumption, FS_CardinalityType
<1>4. ASSUME S \cap Careful = {}
      PROVE  AttestorSigners(S) <= Cardinality(Attestor \ Careful)
  <2>1. S \cap Listed \in SUBSET (Attestor \ Careful)
    BY <1>4 DEF VaultInv
  <2> QED
    BY <2>1, BridgeAssumption, FS_Subset DEF AttestorSigners
<1>5. Attestations(S) = AttestorSigners(S) \/ Attestations(S) = 0
  BY DEF Attestations
<1> QED
  BY <1>2, <1>3, <1>4, <1>5

-----------------------------------------------------------------------------
(* The invariant in the initial states and over the vault's instructions   *)

LEMMA InitInv == Init => IInv
<1> SUFFICES ASSUME Init PROVE IInv
  OBVIOUS
<1>1. PICK k \in Key, f \in Bps, w \in Bps, h \in BOOLEAN, m \in 0 .. MaxAttestors :
        f <= 10000 /\ w <= 10000 /\ config = FirstConfig(k, f, w, h, m)
  BY SMT DEF Init, InitVault
<1>2. deposits = <<>> /\ unlocks = {}
      /\ vault = [s \in Asset |-> IF s = Sol THEN MinRent ELSE 0]
  BY DEF Init, InitVault
<1>3. TypeOK
  <2>1. f \in BasisPoints /\ w \in BasisPoints
    BY <1>1, Rates
  <2>2. 0 \in U64 /\ MinRent \in U64
    BY VaultAssumption, Widths
  <2>3. <<>> \in Seq(Key)
    OBVIOUS
  <2>4. config \in BridgeConfig
    BY <1>1, <2>1, <2>2, <2>3 DEF BridgeConfig, FirstConfig
  <2>5. vault \in [Asset -> U64]
    BY <1>2, <2>2
  <2>6. mesh \in MeshLedger
    BY DEF Init, InitBridge, MeshLedger
  <2> QED
    BY <1>2, <2>4, <2>5, <2>6, BridgeAssumption DEF TypeOK, Init, InitBridge
<1>4. VaultInv
  <2>1. config.attestors = <<>>
    BY <1>1 DEF FirstConfig
  <2> QED
    BY <1>2, <2>1, Widths DEF VaultInv, Listed
<1>5. RelayerInv /\ MintInv /\ UnlockIsBurned
  BY <1>2 DEF Init, InitBridge, RelayerInv, MintInv, UnlockIsBurned, Pending
<1> QED
  BY <1>3, <1>4, <1>5 DEF IInv

\* The authority changes the policy and nothing else, and never lists a key
\* that is no witness.
LEMMA PolicyChange ==
  ASSUME config \in BridgeConfig, VaultInv, Administer
  PROVE  /\ UNCHANGED <<deposits, unlocks, vault>>
         /\ config' \in BridgeConfig
         /\ Listed' \subseteq Attestor
<1> DEFINE Kept == /\ UNCHANGED <<deposits, unlocks, vault>>
                   /\ config' \in BridgeConfig
                   /\ Listed' \subseteq Attestor
<1>1. ASSUME config'.attestors = config.attestors
      PROVE  Listed' \subseteq Attestor
  BY <1>1 DEF Listed, VaultInv
<1>2. ASSUME NEW k \in Key, SetRelayer(k) PROVE Kept
  <2>1. config' \in BridgeConfig /\ config'.attestors = config.attestors
    BY <1>2 DEF SetRelayer, BridgeConfig
  <2> QED
    BY <1>1, <1>2, <2>1 DEF SetRelayer
<1>3. ASSUME NEW p \in BOOLEAN, SetPaused(p) PROVE Kept
  <2>1. config' \in BridgeConfig /\ config'.attestors = config.attestors
    BY <1>3 DEF SetPaused, BridgeConfig
  <2> QED
    BY <1>1, <1>3, <2>1 DEF SetPaused
<1>4. ASSUME NEW f \in Bps, NEW w \in Bps, SetFees(f, w) PROVE Kept
  <2>1. f \in BasisPoints /\ w \in BasisPoints
    BY <1>4, Rates DEF SetFees
  <2>2. config' = [config EXCEPT !.fee = f, !.wfee = w]
    BY <1>4 DEF SetFees
  <2>3. config' \in BridgeConfig /\ config'.attestors = config.attestors
    BY <2>1, <2>2 DEF BridgeConfig
  <2> QED
    BY <1>1, <1>4, <2>3 DEF SetFees
<1>5. ASSUME NEW h \in BOOLEAN, NEW m \in 0 .. 255, SetHybrid(h, m) PROVE Kept
  <2>1. m \in 0 .. MaxAttestors
    BY <1>5, Widths DEF SetHybrid, ValidPolicy
  <2>2. config' = [config EXCEPT !.hybrid = h, !.min = m]
    BY <1>5 DEF SetHybrid
  <2>3. config' \in BridgeConfig /\ config'.attestors = config.attestors
    BY <2>1, <2>2 DEF BridgeConfig
  <2> QED
    BY <1>1, <1>5, <2>3 DEF SetHybrid
<1>6. ASSUME NEW list \in Witnesses, SetAttestors(list) PROVE Kept
  <2>1. list \in Seq(Key) /\ \A i \in DOMAIN list : list[i] \in Attestor
    BY VaultAssumption, BridgeAssumption
  <2>2. config' = [config EXCEPT !.attestors = list]
    BY <1>6 DEF SetAttestors
  <2>3. config' \in BridgeConfig /\ config'.attestors = list
    BY <2>1, <2>2 DEF BridgeConfig
  <2> QED
    BY <1>6, <2>1, <2>3 DEF SetAttestors, Listed
<1> QED
  BY <1>2, <1>3, <1>4, <1>5, <1>6 DEF Administer

\* Mints and unlocks of records that are still there stay accounted for.
LEMMA RecordsStay ==
  ASSUME IInv, UNCHANGED bridgeVars,
         DOMAIN deposits' = 1 .. Len(deposits'), Len(deposits') \in Nat,
         Len(deposits) <= Len(deposits'),
         \A i \in DOMAIN deposits : /\ deposits'[i].meshId = deposits[i].meshId
                                    /\ deposits'[i].net = deposits[i].net
  PROVE  /\ RelayerInv' /\ MintInv'
         /\ file' \subseteq DOMAIN deposits' /\ DOMAIN deposits \subseteq DOMAIN deposits'
         /\ unlocks' = unlocks => UnlockIsBurned'
<1> USE DEF bridgeVars
<1>1. DOMAIN deposits \subseteq DOMAIN deposits'
  BY RecordTypes DEF IInv
<1>2. RelayerInv'
  <2>1. SUFFICES ASSUME relayer # Idle
                 PROVE  relayer.count <= Len(deposits') /\ relayer.seq <= relayer.count
    BY DEF RelayerInv, Idle
  <2>2. relayer \in Scan
    BY <2>1 DEF IInv, TypeOK
  <2>3. relayer.count \in Nat
    BY <2>2, Widths DEF Scan, Seq1
  <2> QED
    BY <2>1, <2>3, RecordTypes DEF IInv, RelayerInv
<1>3. MintInv'
  BY <1>1 DEF IInv, MintInv, Pending
<1>4. file' \subseteq DOMAIN deposits'
  BY <1>1 DEF IInv, TypeOK
<1>5. unlocks' = unlocks => UnlockIsBurned'
  BY <1>1 DEF IInv, UnlockIsBurned, Vouched, VaultInv
<1> QED
  BY <1>1, <1>2, <1>3, <1>4, <1>5

\* What reaches the vault from outside is added to what it has.
LEMMA GivingKeeps ==
  ASSUME IInv, Giving
  PROVE  IInv'
<1>1. PICK s \in Asset, x \in Amount : Donate(s, x)
  BY DEF Giving
<1>2. UNCHANGED bridgeVars /\ UNCHANGED <<config, deposits, unlocks>>
  BY <1>1 DEF Giving, Donate
<1>3. vault' \in [Asset -> U64]
  <2>1. vault \in [Asset -> U64]
    BY DEF IInv, TypeOK
  <2>2. vault[s] \in Nat /\ x \in Nat
    BY <2>1, Widths
  <2>3. vault[s] + x \in U64
    BY <1>1, <2>2, Widths DEF Donate
  <2> QED
    BY <1>1, <2>1, <2>3 DEF Donate
<1>4. TypeOK'
  BY <1>2, <1>3 DEF IInv, TypeOK, bridgeVars
<1>5. VaultInv' /\ RelayerInv' /\ MintInv' /\ UnlockIsBurned'
  BY <1>2 DEF IInv, VaultInv, RelayerInv, MintInv, UnlockIsBurned, Vouched, Listed,
              Pending, Idle, bridgeVars
<1> QED
  BY <1>4, <1>5 DEF IInv

LEMMA GoverningKeeps ==
  ASSUME IInv, Governing
  PROVE  IInv'
<1>1. /\ UNCHANGED <<deposits, unlocks, vault>> /\ config' \in BridgeConfig
      /\ Listed' \subseteq Attestor
  BY PolicyChange DEF IInv, TypeOK, Governing
<1>2. UNCHANGED bridgeVars
  BY DEF Governing
<1>3. RelayerInv' /\ MintInv' /\ UnlockIsBurned'
  BY <1>1, <1>2, RecordTypes, RecordsStay DEF IInv
<1>4. TypeOK'
  BY <1>1, <1>2 DEF IInv, TypeOK, bridgeVars
<1>5. VaultInv'
  BY <1>1 DEF IInv, VaultInv
<1> QED
  BY <1>3, <1>4, <1>5 DEF IInv

\* What the books need to know of a deposit and of an unlock.
Locks(rec) ==
  /\ rec \in DepositRecord /\ rec.unlocked = 0
  /\ deposits' = Append(deposits, rec) /\ unlocks' = unlocks
  /\ vault' = [vault EXCEPT ![rec.asset] = @ + rec.gross]

Takes(new) ==
  /\ new \in WithdrawRecord /\ new.deposit \in DOMAIN deposits
  /\ new \notin unlocks /\ unlocks' = unlocks \cup {new}
  /\ deposits[new.deposit].unlocked + new.amount \in U64
  /\ deposits' = [deposits EXCEPT ![new.deposit].unlocked =
                                     deposits[new.deposit].unlocked + new.amount]
  /\ vault' = [vault EXCEPT ![new.asset] = @ - new.out]

\* A deposit appends a record.
LEMMA LockingKeeps ==
  ASSUME IInv, Locking
  PROVE  IInv' /\ \E rec : Locks(rec)
<1>1. PICK s \in Asset, id \in MeshId, x \in Amount : Deposit(s, id, x)
  BY DEF Locking
<1>2. UNCHANGED bridgeVars
  BY DEF Locking
<1> DEFINE fee == MulBps(x, config.fee)
           rec == [meshId |-> id, asset |-> s, gross |-> x, net |-> x - fee, unlocked |-> 0]
<1>3. config \in BridgeConfig /\ vault \in [Asset -> U64] /\ unlocks \subseteq WithdrawRecord
  BY DEF IInv, TypeOK
<1>4. x \in U64 /\ x \in Nat /\ fee \in Nat /\ x - fee \in U64 /\ 0 \in U64
  <2>1. x \in U64 /\ x \in Nat /\ x <= MaxU64
    BY Widths DEF U64
  <2>2. fee \in 0 .. x
    BY <2>1, <1>3, FeeBound, ConfigFields
  <2>3. fee \in Nat /\ x - fee \in Nat /\ x - fee <= MaxU64
    BY <2>1, <2>2, Widths
  <2> QED
    BY <2>1, <2>3, Widths
<1>5. rec \in DepositRecord
  BY <1>4 DEF DepositRecord
<1>6. rec.unlocked <= rec.net
  BY <1>1, <1>4, Widths DEF Deposit
<1>7. deposits' = Append(deposits, rec) /\ unlocks' = unlocks /\ Len(deposits) < MaxDeposits
  BY <1>1 DEF Deposit, Recorded
<1> HIDE DEF rec, fee
<1>8. /\ deposits' \in Seq(DepositRecord)
      /\ Len(deposits') = Len(deposits) + 1 /\ DOMAIN deposits' = 1 .. Len(deposits')
      /\ \A i \in DOMAIN deposits : i \in DOMAIN deposits' /\ deposits'[i] = deposits[i]
      /\ deposits'[Len(deposits) + 1] = rec
  BY <1>5, <1>7, RecordTypes DEF IInv
<1>9. RelayerInv' /\ MintInv' /\ UnlockIsBurned' /\ file' \subseteq DOMAIN deposits'
  BY <1>2, <1>7, <1>8, RecordTypes, RecordsStay DEF IInv
<1>10. vault' \in [Asset -> U64]
  <2>1. vault[s] + x \in U64
    BY <1>1, <1>3, <1>4, Widths DEF Deposit
  <2> QED
    BY <1>1, <1>3, <2>1 DEF Deposit
<1>11. config' \in BridgeConfig /\ config'.attestors = config.attestors
  <2>1. CASE s = Sol
    <3>1. config.totalIn + x \in U64
      <4>1. config.totalIn \in Nat
        BY <1>3, ConfigFields, Widths
      <4>2. config.totalIn + x <= MaxU64
        BY <1>1, <2>1 DEF Deposit
      <4> QED
        BY <1>4, <4>1, <4>2, Widths
    <3>2. config' = [config EXCEPT !.totalIn = config.totalIn + x]
      BY <1>1, <2>1 DEF Deposit
    <3> QED
      BY <1>3, <3>1, <3>2, TotalsChange
  <2>2. CASE s # Sol
    <3>1. config' = [config EXCEPT !.totalIn = config.totalIn]
      BY <1>1, <2>2 DEF Deposit
    <3> QED
      BY <1>3, <3>1, TotalsChange, ConfigFields
  <2> QED
    BY <2>1, <2>2
<1>12. TypeOK'
  BY <1>2, <1>3, <1>7, <1>8, <1>9, <1>10, <1>11 DEF IInv, TypeOK, bridgeVars
<1>13. VaultInv'
  <2>1. Listed' \subseteq Attestor
    BY <1>11 DEF IInv, VaultInv, Listed
  <2>2. Len(deposits') <= MaxDeposits
    BY <1>7, <1>8, RecordTypes, Widths DEF IInv
  <2>3. \A i \in DOMAIN deposits' : deposits'[i].unlocked <= deposits'[i].net
    <3>1. ASSUME NEW i \in DOMAIN deposits', i \notin DOMAIN deposits
          PROVE  i = Len(deposits) + 1
      BY <1>8, <3>1, RecordTypes DEF IInv
    <3> QED
      BY <1>6, <1>8, <3>1 DEF IInv, VaultInv
  <2> QED
    BY <1>7, <1>8, <2>1, <2>2, <2>3 DEF IInv, VaultInv
<1>14. Locks(rec)
  <2>1. rec.asset = s /\ rec.gross = x /\ rec.unlocked = 0
    BY DEF rec
  <2>2. vault' = [vault EXCEPT ![s] = @ + x]
    BY <1>1 DEF Deposit
  <2> QED
    BY <1>5, <1>7, <2>1, <2>2 DEF Locks
<1> QED
  BY <1>9, <1>12, <1>13, <1>14 DEF IInv

\* An unlock takes from one record, and pays out no more than the vault has.
LEMMA UnlockingKeeps ==
  ASSUME IInv, Unlocking
  PROVE  IInv' /\ \E new : Takes(new)
<1>1. PICK i \in DOMAIN deposits, burn \in BurnId, x \in Amount, S \in SUBSET Key :
        /\ S \cap Careful # {} => Attested(i, burn, x)
        /\ \E r \in S : Withdraw(i, burn, x, S, r)
  BY DEF Unlocking
<1>2. PICK r \in S : Withdraw(i, burn, x, S, r)
  BY <1>1
<1>3. UNCHANGED bridgeVars
  BY DEF Unlocking
<1>4. PICK id \in MeshId, s \in Asset : Unlock(i, id, burn, x, s, S, r)
  BY <1>2 DEF Withdraw, WithdrawSol, WithdrawSpl, Asset
<1> DEFINE fee == MulBps(x, config.wfee)
           out == x - fee
           new == [burn |-> burn, deposit |-> i, asset |-> s, amount |-> x, out |-> out,
                   attested |-> Attestations(S)]
<1>5. config \in BridgeConfig /\ vault \in [Asset -> U64] /\ unlocks \subseteq WithdrawRecord
  BY DEF IInv, TypeOK
<1>6. x \in U64 /\ x \in Nat /\ out \in Nat /\ out \in U64
  <2>1. x \in U64 /\ x \in Nat /\ x <= MaxU64
    BY Widths DEF U64
  <2>2. fee \in 0 .. x
    BY <2>1, <1>5, FeeBound, ConfigFields
  <2>3. out \in Nat /\ out <= MaxU64
    BY <2>1, <2>2, Widths
  <2> QED
    BY <2>1, <2>3, Widths
<1>7. /\ vault' = [vault EXCEPT ![s] = vault[s] - out] /\ vault[s] >= out
      /\ deposits' = [deposits EXCEPT ![i].unlocked = Taken(@, x)]
      /\ unlocks' = unlocks \cup {new}
      /\ x <= deposits[i].net - deposits[i].unlocked
      /\ Authorized(S, r) /\ FreshBurn(burn)
  BY <1>4 DEF Unlock, WithinClaim
<1>8. IF s = Sol
      THEN config.totalOut + out <= MaxU64
           /\ config' = [config EXCEPT !.totalOut = config.totalOut + out]
      ELSE UNCHANGED config
  BY <1>4 DEF Unlock
<1> HIDE DEF out, fee
<1>9. config' \in BridgeConfig /\ config'.attestors = config.attestors
  <2>1. CASE s = Sol
    <3>1. config.totalOut \in Nat
      BY <1>5, ConfigFields, Widths
    <3>2. config.totalOut + out \in U64
      <4>1. config.totalOut + out <= MaxU64
        BY <1>8, <2>1
      <4> QED
        BY <1>6, <3>1, <4>1, Widths
    <3>3. config' = [config EXCEPT !.totalOut = config.totalOut + out]
      BY <1>8, <2>1
    <3> QED
      BY <1>5, <3>2, <3>3, TotalsChange
  <2> QED
    BY <1>5, <1>8, <2>1
<1>10. vault' \in [Asset -> U64]
  <2>1. vault[s] \in Nat /\ vault[s] \in U64 /\ vault[s] <= MaxU64
    BY <1>5, Widths DEF U64
  <2>2. vault[s] - out \in U64
    BY <1>6, <1>7, <2>1, Widths
  <2> QED
    BY <1>5, <1>7, <2>2
<1> DEFINE now == deposits[i].unlocked + x
<1>11. now \in U64 /\ now <= deposits[i].net
  <2>1. /\ deposits[i].unlocked \in Nat /\ deposits[i].net \in Nat
        /\ deposits[i].net <= MaxU64
    BY RecordTypes DEF IInv, U64
  <2> QED
    BY <1>6, <1>7, <2>1, Widths
<1>12. deposits' = [deposits EXCEPT ![i].unlocked = now]
  BY <1>7 DEF Taken
<1> HIDE DEF now
<1>13. /\ deposits' \in Seq(DepositRecord)
       /\ DOMAIN deposits' = DOMAIN deposits /\ Len(deposits') = Len(deposits)
       /\ deposits'[i].unlocked = now
       /\ \A j \in DOMAIN deposits :
            /\ deposits'[j].meshId = deposits[j].meshId /\ deposits'[j].net = deposits[j].net
            /\ j # i => deposits'[j] = deposits[j]
  BY <1>11, <1>12, RecordTaken DEF IInv
<1>14. RelayerInv' /\ MintInv' /\ file' \subseteq DOMAIN deposits'
  BY <1>3, <1>13, RecordTypes, RecordsStay DEF IInv
<1>15. new \in WithdrawRecord
  <2>1. i \in 1 .. MaxDeposits /\ Attestations(S) \in Nat
    BY <1>5, ManyAttest, RecordTypes, Widths DEF IInv, VaultInv
  <2> QED
    BY <1>6, <2>1 DEF WithdrawRecord
<1>16. TypeOK'
  BY <1>3, <1>5, <1>7, <1>9, <1>10, <1>13, <1>14, <1>15 DEF IInv, TypeOK, bridgeVars
<1>17. VaultInv'
  <2>1. Listed' \subseteq Attestor /\ Len(deposits') <= MaxDeposits
    BY <1>9, <1>13 DEF IInv, VaultInv, Listed
  <2>2. \A j \in DOMAIN deposits' : deposits'[j].unlocked <= deposits'[j].net
    BY <1>11, <1>13 DEF IInv, VaultInv
  <2>3. \A u \in unlocks' : u.deposit \in DOMAIN deposits'
    BY <1>7, <1>13 DEF IInv, VaultInv
  <2>4. \A u, w \in unlocks' : u.burn = w.burn => u = w
    BY <1>7 DEF IInv, VaultInv, FreshBurn
  <2> QED
    BY <2>1, <2>2, <2>3, <2>4 DEF VaultInv
<1>18. UnlockIsBurned'
  <2>1. mesh' = mesh
    BY <1>3 DEF bridgeVars
  <2>2. ASSUME Vouched(new)
        PROVE  burn \in mesh.burns /\ burn.amount = x /\ burn.from = deposits[i].meshId
    <3>1. Attestations(S) > Cardinality(Attestor \ Careful)
      BY <2>2 DEF Vouched
    <3>2. S \cap Careful # {}
      BY <1>5, <3>1, ManyAttest DEF IInv
    <3> QED
      BY <1>1, <3>2 DEF Attested
  <2>3. \A u \in unlocks : /\ u.deposit \in DOMAIN deposits /\ u.burn # burn
                           /\ deposits'[u.deposit].meshId = deposits[u.deposit].meshId
    BY <1>7, <1>13 DEF IInv, VaultInv, FreshBurn
  <2>4. ASSUME NEW u \in unlocks', Vouched(u)
        PROVE  /\ u.burn \in mesh.burns
               /\ u.burn.amount = u.amount /\ u.burn.from = deposits'[u.deposit].meshId
    <3>1. CASE u = new
      BY <1>13, <2>2, <2>4, <3>1
    <3>2. CASE u \in unlocks
      BY <2>3, <2>4, <3>2 DEF IInv, UnlockIsBurned
    <3> QED
      BY <1>7, <3>1, <3>2
  <2> QED
    BY <1>17, <2>1, <2>4 DEF UnlockIsBurned, VaultInv, Vouched
<1>19. Takes(new)
  <2>1. new.deposit = i /\ new.asset = s /\ new.amount = x /\ new.out = out /\ new.burn = burn
    OBVIOUS
  <2>2. new \notin unlocks
    BY <1>7, <2>1 DEF FreshBurn
  <2>3. deposits[i].unlocked + x \in U64
    BY <1>11 DEF now
  <2> HIDE DEF new
  <2> QED
    BY <1>7, <1>15, <2>1, <2>2, <2>3 DEF Takes, Taken
<1> QED
  BY <1>14, <1>16, <1>17, <1>18, <1>19 DEF IInv

-----------------------------------------------------------------------------
(* The relayer *)

LEMMA RelayerTypes ==
  ASSUME IInv, relayer # Idle
  PROVE  /\ relayer \in Scan
         /\ relayer.count \in Nat /\ relayer.seq \in Nat /\ relayer.seq \in Seq1
         /\ relayer.done \subseteq Seq1
         /\ relayer.seq \in DOMAIN deposits /\ relayer.count <= Len(deposits)
<1>1. relayer \in Scan
  BY DEF IInv, TypeOK
<1>2. /\ relayer.count \in Seq1 /\ relayer.seq \in Seq1 /\ relayer.done \subseteq Seq1
  BY <1>1 DEF Scan
<1>3. relayer.count \in Nat /\ relayer.seq \in Nat /\ 1 <= relayer.seq
  BY <1>2, Widths DEF Seq1
<1>4. relayer.count <= Len(deposits) /\ relayer.seq <= relayer.count
  BY DEF IInv, RelayerInv
<1> QED
  BY <1>1, <1>2, <1>3, <1>4, RecordTypes DEF IInv

\* A poll goes to deposits that exist.
LEMMA ScanStarts ==
  ASSUME IInv, NEW seq \in DOMAIN deposits
  PROVE  [pc |-> "deposit", count |-> Len(deposits), done |-> file, seq |-> seq] \in Scan
<1>1. DOMAIN deposits \subseteq Seq1 /\ Len(deposits) \in Seq1
  BY RecordTypes, Widths DEF IInv, VaultInv, Seq1
<1>2. file \subseteq Seq1
  BY <1>1 DEF IInv, TypeOK
<1> QED
  BY <1>1, <1>2 DEF Scan

LEMMA ScanGoesOn ==
  ASSUME IInv, relayer # Idle, NEW seq \in Nat \ {0}
  PROVE  /\ At(seq) \in {Idle} \cup Scan
         /\ At(seq) # Idle => At(seq).count <= Len(deposits) /\ At(seq).seq <= At(seq).count
<1> DEFINE left == {i \in seq .. relayer.count : i \notin relayer.done}
<1>1. CASE left = {}
  BY <1>1 DEF At
<1>2. CASE left # {}
  <2>1. Min(left) \in left
    <3>1. left \in SUBSET Nat
      BY RelayerTypes
    <3> HIDE DEF left
    <3> QED
      BY <1>2, <3>1, MinMember
  <2>2. Min(left) \in Nat /\ 1 <= Min(left) /\ Min(left) <= relayer.count
    <3>1. Min(left) \in seq .. relayer.count
      BY <2>1
    <3>2. relayer.count \in Nat
      BY RelayerTypes
    <3> QED
      BY <3>1, <3>2
  <2>3. At(seq) = [pc |-> "deposit", count |-> relayer.count, done |-> relayer.done,
                   seq |-> Min(left)]
    BY <1>2 DEF At
  <2>4. relayer.count \in Seq1 /\ relayer.done \in SUBSET Seq1
    BY RelayerTypes DEF Scan
  <2>5. Min(left) \in Seq1
    <3>1. \A j \in Seq1, k \in Nat : 1 <= k /\ k <= j => k \in Seq1
      <4>1. MaxDeposits \in Nat
        BY Widths
      <4> QED
        BY <4>1 DEF Seq1
    <3> QED
      BY <2>2, <2>4, <3>1
  <2> QED
    BY <2>2, <2>3, <2>4, <2>5, RelayerTypes DEF Scan
<1> QED
  BY <1>1, <1>2

\* What the relayer does that sends nothing.
LEMMA RelayerMoves ==
  ASSUME IInv, UNCHANGED <<vaultVars, mesh, wire, pool, losses>>,
         file' \subseteq DOMAIN deposits, crashes' \in 0 .. MaxCrashes,
         relayer' \in {Idle} \cup Scan,
         relayer' # Idle => relayer'.count <= Len(deposits) /\ relayer'.seq <= relayer'.count
  PROVE  IInv'
<1> USE DEF vaultVars
<1>1. TypeOK'
  BY DEF IInv, TypeOK
<1>2. RelayerInv'
  BY DEF RelayerInv
<1>3. VaultInv' /\ MintInv' /\ UnlockIsBurned'
  BY DEF IInv, VaultInv, MintInv, UnlockIsBurned, Vouched, Pending, Listed
<1> QED
  BY <1>1, <1>2, <1>3 DEF IInv

\* A transaction is sent: what counts is that a mint was signed from its record.
LEMMA Sending ==
  ASSUME IInv, UNCHANGED <<vaultVars, mesh, pool, losses, file, crashes>>,
         NEW tx \in MintTx \cup BurnTx, wire' = wire \cup {tx},
         \/ UNCHANGED relayer
         \/ relayer # Idle /\ relayer' = [relayer EXCEPT !.pc = "sent"],
         tx.kind = "mint" /\ tx.ref \in Seq1 =>
           /\ tx.ref \in DOMAIN deposits
           /\ tx.to = deposits[tx.ref].meshId /\ tx.amount = deposits[tx.ref].net
  PROVE  IInv'
<1> USE DEF vaultVars
<1>1. relayer' \in {Idle} \cup Scan /\ RelayerInv'
  <2>1. CASE UNCHANGED relayer
    BY <2>1 DEF IInv, TypeOK, RelayerInv, Idle
  <2>2. CASE relayer # Idle /\ relayer' = [relayer EXCEPT !.pc = "sent"]
    <3>1. relayer \in Scan
      BY <2>2, RelayerTypes
    <3>2. relayer' \in Scan /\ relayer'.count = relayer.count /\ relayer'.seq = relayer.seq
      BY <2>2, <3>1 DEF Scan
    <3> QED
      BY <2>2, <3>2 DEF IInv, RelayerInv
  <2> QED
    BY <2>1, <2>2
<1>2. TypeOK'
  BY <1>1 DEF IInv, TypeOK
<1>3. MintInv'
  BY DEF IInv, MintInv, Pending
<1>4. VaultInv' /\ UnlockIsBurned'
  BY DEF IInv, VaultInv, UnlockIsBurned, Vouched, Listed
<1> QED
  BY <1>1, <1>2, <1>3, <1>4 DEF IInv

LEMMA LocalNonces ==
  ASSUME IInv
  PROVE  mesh.nonce \in Nat /\ LocalNonce \subseteq Nat
<1>1. mesh.nonce \in Nat
  BY DEF IInv, TypeOK, MeshLedger
<1> QED
  BY <1>1 DEF LocalNonce

LEMMA RelayingKeeps ==
  ASSUME IInv, Relaying
  PROVE  IInv'
<1>1. crashes \in 0 .. MaxCrashes /\ file \subseteq DOMAIN deposits /\ MaxCrashes \in Nat
  BY BridgeAssumption DEF IInv, TypeOK
<1>2. ASSUME Poll PROVE IInv'
  <2> DEFINE new == {i \in DOMAIN deposits : i \notin file}
  <2>1. new # {} /\ new \in SUBSET Nat
    BY <1>2, RecordTypes DEF Poll, IInv
  <2> HIDE DEF new
  <2>2. Min(new) \in new
    BY <2>1, MinMember
  <2>3. Min(new) \in DOMAIN deposits
    BY <2>2 DEF new
  <2>4. relayer' = [pc |-> "deposit", count |-> Len(deposits), done |-> file, seq |-> Min(new)]
    BY <1>2 DEF Poll, new
  <2>5. relayer' \in Scan /\ relayer'.count <= Len(deposits) /\ relayer'.seq <= relayer'.count
    BY <2>3, <2>4, ScanStarts, RecordTypes DEF IInv
  <2> QED
    BY <1>1, <1>2, <2>5, RelayerMoves DEF Poll
<1>3. ASSUME relayer.pc # "idle"
      PROVE  /\ relayer # Idle /\ relayer.seq + 1 \in Nat \ {0}
             /\ relayer.seq \in DOMAIN deposits
             /\ At(relayer.seq + 1) \in {Idle} \cup Scan
             /\ At(relayer.seq + 1) # Idle =>
                  /\ At(relayer.seq + 1).count <= Len(deposits)
                  /\ At(relayer.seq + 1).seq <= At(relayer.seq + 1).count
  <2>1. relayer # Idle
    BY <1>3 DEF Idle
  <2>2. relayer.seq \in Nat /\ relayer.seq \in DOMAIN deposits
    BY <2>1, RelayerTypes
  <2>3. relayer.seq + 1 \in Nat \ {0}
    BY <2>2
  <2> QED
    BY <2>1, <2>2, <2>3, ScanGoesOn
<1>4. ASSUME Defer PROVE IInv'
  BY <1>1, <1>3, <1>4, RelayerMoves DEF Defer
<1>5. ASSUME SendMint PROVE IInv'
  <2> DEFINE i == relayer.seq
  <2>1. relayer # Idle /\ i \in DOMAIN deposits /\ i \in Seq1
    BY <1>3, <1>5, RelayerTypes DEF SendMint
  <2>2. PICK n \in LocalNonce :
          wire' = wire \cup {SignMint(i, n, deposits[i].meshId, deposits[i].net)}
    BY <1>5 DEF SendMint
  <2> DEFINE tx == SignMint(i, n, deposits[i].meshId, deposits[i].net)
  <2>3. tx.kind = "mint" /\ tx.ref = i /\ tx.to = deposits[i].meshId /\ tx.amount = deposits[i].net
    BY DEF SignMint
  <2>4. tx \in MintTx
    <3>1. n \in Nat
      BY LocalNonces
    <3>2. deposits[i].meshId \in MeshId /\ deposits[i].net \in Nat
      BY <2>1, RecordTypes DEF IInv
    <3> QED
      BY <2>1, <3>1, <3>2 DEF SignMint, MintTx
  <2>5. /\ wire' = wire \cup {tx} /\ relayer' = [relayer EXCEPT !.pc = "sent"]
        /\ UNCHANGED <<vaultVars, mesh, pool, losses, file, crashes>>
    BY <1>5, <2>2 DEF SendMint
  <2> HIDE DEF tx, i
  <2> QED
    BY <2>1, <2>3, <2>4, <2>5, Sending
<1>6. ASSUME MintFails PROVE IInv'
  BY <1>1, <1>3, <1>6, RelayerMoves DEF MintFails
<1>7. ASSUME Record PROVE IInv'
  BY <1>1, <1>3, <1>7, RelayerMoves DEF Record
<1>8. ASSUME Crash PROVE IInv'
  <2>1. crashes' \in 0 .. MaxCrashes /\ file' \subseteq DOMAIN deposits
    BY <1>1, <1>8 DEF Crash
  <2> QED
    BY <1>1, <1>8, <2>1, RelayerMoves DEF Crash
<1> QED
  BY <1>2, <1>4, <1>5, <1>6, <1>7, <1>8 DEF Relaying

-----------------------------------------------------------------------------
(* The mesh *)

\* The ledger grows by transactions that were on their way, each mint of
\* another reference.
LEMMA LedgerMoves ==
  ASSUME IInv, UNCHANGED <<vaultVars, file, relayer, crashes>>, losses' \in 0 .. MaxLosses,
         wire' \subseteq wire, pool' \subseteq wire \cup pool,
         mesh' \in MeshLedger, mesh.burns \subseteq mesh'.burns,
         \A m \in mesh'.mints : m \in mesh.mints \/ (m \in Pending /\ m.kind = "mint"),
         \A m \in mesh'.mints : m.nonce < mesh'.nonce,
         \A m, k \in mesh'.mints : m.ref = k.ref => m = k
  PROVE  IInv'
<1> USE DEF vaultVars
<1>1. TypeOK'
  BY DEF IInv, TypeOK
<1>2. MintInv'
  BY DEF IInv, MintInv, Pending
<1>3. VaultInv' /\ UnlockIsBurned' /\ RelayerInv'
  BY DEF IInv, VaultInv, UnlockIsBurned, Vouched, RelayerInv, Listed, Idle
<1> QED
  BY <1>1, <1>2, <1>3 DEF IInv

LEMMA MeshStepKeeps ==
  ASSUME IInv, MeshStep
  PROVE  IInv'
<1>1. mesh \in MeshLedger /\ wire \subseteq MintTx \cup BurnTx /\ pool \subseteq MintTx \cup BurnTx
  BY DEF IInv, TypeOK
<1>2. /\ mesh.nonce \in Nat /\ mesh.mints \subseteq MintTx /\ mesh.burns \subseteq BurnTx
      /\ mesh.known \subseteq MeshId
      /\ mesh.bal \in [MeshId -> Nat] /\ mesh.next \in [MeshId -> Nat]
  BY <1>1 DEF MeshLedger
<1>3. /\ \A m, k \in mesh.mints : m.ref = k.ref => m = k
      /\ \A m \in mesh.mints : m.nonce < mesh.nonce
      /\ losses \in 0 .. MaxLosses /\ MaxLosses \in Nat
  BY BridgeAssumption DEF IInv, TypeOK, MintInv
<1>4. ASSUME NEW id \in MeshId, Register(id) PROVE IInv'
  <2>1. mesh' = [mesh EXCEPT !.known = mesh.known \cup {id}]
    BY <1>4 DEF Register
  <2>2. mesh' \in MeshLedger /\ mesh'.burns = mesh.burns
      /\ mesh'.mints = mesh.mints /\ mesh'.nonce = mesh.nonce
    BY <1>1, <1>2, <2>1 DEF MeshLedger
  <2> QED
    BY <1>3, <1>4, <2>2, LedgerMoves DEF Register
<1>5. ASSUME NEW d \in Drip, NEW n \in LocalNonce, NEW id \in MeshId, SendDrip(d, n, id)
      PROVE  IInv'
  <2> DEFINE tx == SignMint(d, n, id, DripAmount)
  <2>1. tx \in MintTx /\ tx.ref = d
    BY LocalNonces, BridgeAssumption DEF SignMint, MintTx
  <2>2. d \notin Seq1
    BY BridgeAssumption DEF Seq1
  <2>3. wire' = wire \cup {tx} /\ UNCHANGED <<vaultVars, mesh, pool, losses, file, relayer, crashes>>
    BY <1>5 DEF SendDrip
  <2> HIDE DEF tx
  <2> QED
    BY <2>1, <2>2, <2>3, Sending
<1>6. ASSUME NEW id \in MeshId, NEW n \in 0 .. mesh.next[id], NEW x \in Amount, SendBurn(id, n, x)
      PROVE  IInv'
  <2> DEFINE tx == [kind |-> "burn", nonce |-> n, from |-> id, amount |-> x]
  <2>1. tx \in BurnTx /\ tx.kind = "burn"
    <3>1. n \in Nat
      BY <1>2
    <3> QED
      BY <3>1, Widths DEF BurnTx
  <2>2. wire' = wire \cup {tx} /\ UNCHANGED <<vaultVars, mesh, pool, losses, file, relayer, crashes>>
    BY <1>6 DEF SendBurn
  <2> HIDE DEF tx
  <2> QED
    BY <2>1, <2>2, Sending
<1>7. ASSUME NEW tx \in wire, Receive(tx) PROVE IInv'
  <2>1. wire' \subseteq wire /\ pool' \subseteq wire \cup pool
    BY <1>7 DEF Receive
  <2> QED
    BY <1>1, <1>3, <1>7, <2>1, LedgerMoves DEF Receive
<1>8. ASSUME NEW tx \in wire \cup pool, Lose(tx) PROVE IInv'
  <2>1. /\ wire' \subseteq wire /\ pool' \subseteq wire \cup pool
        /\ losses' \in 0 .. MaxLosses
    BY <1>3, <1>8 DEF Lose
  <2> QED
    BY <1>1, <1>3, <1>8, <2>1, LedgerMoves DEF Lose
<1>9. ASSUME NEW tx \in pool, Include(tx) PROVE IInv'
  <2>1. CanApply(tx) /\ mesh' = Applied(tx) /\ pool' \subseteq pool
    BY <1>9 DEF Include
  <2>2. CASE tx \in MintTx
    <3>1. tx.kind = "mint" /\ tx.to \in MeshId /\ tx.amount \in Nat
      BY <2>2 DEF MintTx
    <3>2. tx.nonce = mesh.nonce /\ \A m \in mesh.mints : m.ref # tx.ref
      BY <1>3, <2>1, <3>1 DEF CanApply, FreshRef
    <3> DEFINE bal == [mesh.bal EXCEPT ![tx.to] = mesh.bal[tx.to] + tx.amount]
    <3>3. mesh' = [mesh EXCEPT !.nonce = mesh.nonce + 1, !.mints = mesh.mints \cup {tx},
                               !.known = mesh.known \cup {tx.to}, !.bal = bal]
      BY <2>1, <3>1 DEF Applied
    <3>4. bal \in [MeshId -> Nat]
      BY <1>2, <3>1
    <3> HIDE DEF bal
    <3>5. mesh' \in MeshLedger
      <4> DEFINE n == mesh.nonce + 1
                 ms == mesh.mints \cup {tx}
                 ks == mesh.known \cup {tx.to}
      <4>1. n \in Nat /\ ms \in SUBSET MintTx /\ ks \in SUBSET MeshId
        BY <1>2, <2>2, <3>1
      <4>2. mesh' = [mesh EXCEPT !.nonce = n, !.mints = ms, !.known = ks, !.bal = bal]
        BY <3>3
      <4> HIDE DEF n, ms, ks
      <4> QED
        BY <1>1, <3>4, <4>1, <4>2 DEF MeshLedger
    <3>6. /\ mesh'.burns = mesh.burns /\ mesh'.mints = mesh.mints \cup {tx}
          /\ mesh'.nonce = mesh.nonce + 1
      BY <1>1, <3>3 DEF MeshLedger
    <3>7. \A m, k \in mesh'.mints : m.ref = k.ref => m = k
      BY <1>3, <3>2, <3>6
    <3>8. \A m \in mesh'.mints : m.nonce < mesh'.nonce
      <4>1. \A m \in mesh.mints : m.nonce \in Nat
        BY <1>2 DEF MintTx
      <4> QED
        BY <1>2, <1>3, <3>2, <3>6, <4>1
    <3>9. \A m \in mesh'.mints : m \in mesh.mints \/ (m \in Pending /\ m.kind = "mint")
      BY <3>1, <3>6 DEF Pending
    <3>10. mesh.burns \subseteq mesh'.burns /\ wire' = wire /\ pool' \subseteq wire \cup pool
      BY <1>9, <2>1, <3>6 DEF Include
    <3>11. UNCHANGED <<vaultVars, losses, file, relayer, crashes>>
      BY <1>9 DEF Include
    <3> QED
      BY <1>3, <3>5, <3>7, <3>9, <3>10, <3>11, <3>8, LedgerMoves
  <2>3. CASE tx \in BurnTx
    <3>1. tx.kind = "burn" /\ tx.from \in MeshId /\ tx.amount \in Nat
      BY <2>3 DEF BurnTx
    <3>2. tx.amount <= mesh.bal[tx.from]
      BY <2>1, <3>1 DEF CanApply
    <3> DEFINE bal == [mesh.bal EXCEPT ![tx.from] = mesh.bal[tx.from] - tx.amount]
               next == [mesh.next EXCEPT ![tx.from] = mesh.next[tx.from] + 1]
    <3>3. mesh' = [mesh EXCEPT !.next = next, !.burns = mesh.burns \cup {tx}, !.bal = bal]
      BY <2>1, <3>1 DEF Applied
    <3>4. bal \in [MeshId -> Nat] /\ next \in [MeshId -> Nat]
      BY <1>2, <3>1, <3>2
    <3> HIDE DEF bal, next
    <3>5. mesh' \in MeshLedger
      BY <1>1, <1>2, <2>3, <3>3, <3>4 DEF MeshLedger
    <3>6. /\ mesh.burns \subseteq mesh'.burns /\ mesh'.mints = mesh.mints
          /\ mesh'.nonce = mesh.nonce
      BY <1>1, <3>3 DEF MeshLedger
    <3> QED
      BY <1>3, <1>9, <2>1, <3>5, <3>6, LedgerMoves DEF Include
  <2> QED
    BY <1>1, <2>2, <2>3
<1> QED
  BY <1>4, <1>5, <1>6, <1>7, <1>9, <1>8 DEF MeshStep

LEMMA StutterKeeps ==
  ASSUME IInv, UNCHANGED vars
  PROVE  IInv'
BY DEF vars, vaultVars, bridgeVars, IInv, TypeOK, VaultInv, RelayerInv, MintInv,
       UnlockIsBurned, Vouched, Pending, Listed

-----------------------------------------------------------------------------
(* The books of the vault *)

\* The records are finitely many and in whole numbers.
LEMMA BookTypes ==
  ASSUME IInv, BooksInv
  PROVE  /\ IsFiniteSet(DOMAIN deposits)
         /\ \A s : IsFiniteSet(LockedIn(s)) /\ IsFiniteSet(PaidIn(s))
         /\ \A i : IsFiniteSet(UnlocksOf(i))
         /\ \A i \in DOMAIN deposits : /\ deposits[i].net \in Int
                                       /\ deposits[i].gross \in Int
                                       /\ deposits[i].unlocked \in Int
         /\ \A u \in unlocks : /\ u.amount \in Int /\ u.out \in Int
                               /\ u.deposit \in DOMAIN deposits
<1>1. IsFiniteSet(DOMAIN deposits)
  BY RecordTypes, FS_Interval DEF IInv
<1>2. \A s : LockedIn(s) \in SUBSET DOMAIN deposits /\ PaidIn(s) \in SUBSET unlocks
  BY DEF LockedIn, PaidIn
<1>3. \A i : UnlocksOf(i) \in SUBSET unlocks
  BY DEF UnlocksOf
<1>4. \A u \in WithdrawRecord : u.amount \in Nat /\ u.out \in Nat
  BY Widths DEF WithdrawRecord
<1> QED
  BY <1>1, <1>2, <1>3, <1>4, FS_Subset, RecordTypes DEF IInv, TypeOK, VaultInv, BooksInv

LEMMA SumsOfBooks ==
  ASSUME IInv, BooksInv, NEW s
  PROVE  Claims(s) \in Int /\ Fees(s) \in Int
<1> DEFINE c == [i \in LockedIn(s) |-> deposits[i].net - deposits[i].unlocked]
           e == [i \in LockedIn(s) |-> deposits[i].gross - deposits[i].net]
           p == [u \in PaidIn(s) |-> u.amount - u.out]
<1>0. /\ LockedIn(s) \subseteq DOMAIN deposits /\ IsFiniteSet(LockedIn(s))
      /\ PaidIn(s) \subseteq unlocks /\ IsFiniteSet(PaidIn(s))
  BY BookTypes DEF LockedIn, PaidIn
<1>1. /\ IsFiniteSet(DOMAIN c) /\ \A j \in DOMAIN c : c[j] \in Int
      /\ IsFiniteSet(DOMAIN e) /\ \A j \in DOMAIN e : e[j] \in Int
      /\ IsFiniteSet(DOMAIN p) /\ \A u \in DOMAIN p : p[u] \in Int
  BY <1>0, BookTypes
<1> HIDE DEF c, e, p
<1>2. SumFunction(c) \in Int /\ SumFunction(e) \in Int /\ SumFunction(p) \in Int
  BY <1>1, SumSplits
<1> QED
  BY <1>2 DEF c, e, p, Claims, Fees

LEMMA BooksOpen == Init => BooksInv
<1> SUFFICES ASSUME Init PROVE BooksInv
  OBVIOUS
<1>1. deposits = <<>> /\ unlocks = {}
      /\ vault = [s \in Asset |-> IF s = Sol THEN MinRent ELSE 0]
  BY DEF Init, InitVault
<1>2. ASSUME NEW s \in Asset
      PROVE  Claims(s) = 0 /\ Fees(s) = 0
  <2>1. LockedIn(s) = {} /\ PaidIn(s) = {}
    BY <1>1 DEF LockedIn, PaidIn
  <2>2. Claims(s) = 0
    BY <2>1, SumEmpty DEF Claims
  <2>3. /\ SumFunction([i \in LockedIn(s) |-> deposits[i].gross - deposits[i].net]) = 0
        /\ SumFunction([u \in PaidIn(s) |-> u.amount - u.out]) = 0
    BY <2>1, SumEmpty
  <2>4. Fees(s) = 0
    BY <2>3 DEF Fees
  <2> QED
    BY <2>2, <2>4
<1>3. MinRent \in Nat
  BY VaultAssumption, Widths
<1>4. Solvent
  BY <1>1, <1>2, <1>3 DEF Solvent
<1>5. WithinNet
  BY <1>1 DEF WithinNet
<1>6. IsFiniteSet(unlocks)
  BY <1>1, FS_EmptySet
<1> QED
  BY <1>4, <1>5, <1>6 DEF BooksInv

\* A deposit opens a claim of what is left after the fee.
LEMMA LocksBooks ==
  ASSUME IInv, IInv', BooksInv, NEW rec, Locks(rec)
  PROVE  BooksInv'
<1>0. PICK n \in Nat : n = Len(deposits) + 1
  BY RecordTypes DEF IInv
<1>1. /\ DOMAIN deposits' = DOMAIN deposits \cup {n} /\ n \notin DOMAIN deposits
      /\ deposits'[n] = rec /\ \A i \in DOMAIN deposits : deposits'[i] = deposits[i]
  BY <1>0, RecordTypes DEF Locks, IInv
<1>2. rec.net \in Int /\ rec.gross \in Int /\ rec.unlocked = 0 /\ rec.asset \in Asset
  <2>1. /\ rec.net \in U64 /\ rec.gross \in U64 /\ rec.unlocked = 0 /\ rec.asset \in Asset
    BY DEF Locks, DepositRecord
  <2>2. \A k \in U64 : k \in Int
    BY Widths
  <2> QED
    BY <2>1, <2>2
<1>3. /\ unlocks' = unlocks
      /\ vault' = [vault EXCEPT ![rec.asset] = vault[rec.asset] + rec.gross]
      /\ vault \in [Asset -> U64]
  BY DEF Locks, IInv, TypeOK
<1>4. /\ \A s : PaidIn(s)' = PaidIn(s)
      /\ \A i : UnlocksOf(i)' = UnlocksOf(i)
  BY <1>3 DEF PaidIn, UnlocksOf
<1>5. WithinNet'
  <2>1. ASSUME NEW i \in DOMAIN deposits
        PROVE  Unlocked(i)' = deposits'[i].unlocked
    BY <1>1, <1>4 DEF Unlocked, BooksInv, WithinNet
  <2>2. Unlocked(n)' = 0
    <3>1. UnlocksOf(n)' = {}
      BY <1>1, <1>4, BookTypes DEF UnlocksOf
    <3> QED
      BY <3>1, SumEmpty DEF Unlocked
  <2>3. \A i \in DOMAIN deposits' : deposits'[i].unlocked <= deposits'[i].net
    BY DEF IInv, VaultInv
  <2> QED
    BY <1>1, <1>2, <2>1, <2>2, <2>3 DEF WithinNet
<1>6. ASSUME NEW s \in Asset,
             vault[s] >= (IF s = Sol THEN MinRent ELSE 0) + Claims(s) + Fees(s)
      PROVE  vault'[s] >= (IF s = Sol THEN MinRent ELSE 0) + Claims(s)' + Fees(s)'
  <2> DEFINE c == [i \in LockedIn(s) |-> deposits[i].net - deposits[i].unlocked]
             d == [i \in LockedIn(s)' |-> deposits'[i].net - deposits'[i].unlocked]
             e == [i \in LockedIn(s) |-> deposits[i].gross - deposits[i].net]
             f == [i \in LockedIn(s)' |-> deposits'[i].gross - deposits'[i].net]
             paid == SumFunction([u \in PaidIn(s) |-> u.amount - u.out])
  <2>1. /\ Claims(s) = SumFunction(c) /\ Claims(s)' = SumFunction(d)
        /\ Fees(s) = SumFunction(e) + paid
        /\ Fees(s)' = SumFunction(f) + SumFunction([u \in PaidIn(s)' |-> u.amount - u.out])
    BY DEF Claims, Fees
  <2>2. Fees(s)' = SumFunction(f) + paid
    BY <1>4, <2>1
  <2>3. LockedIn(s) \subseteq DOMAIN deposits /\ IsFiniteSet(LockedIn(s))
    BY BookTypes DEF LockedIn
  <2>4. SumFunction(c) \in Int /\ SumFunction(e) \in Int /\ paid \in Int
    <3>1. /\ IsFiniteSet(DOMAIN c) /\ \A i \in DOMAIN c : c[i] \in Int
          /\ IsFiniteSet(DOMAIN e) /\ \A i \in DOMAIN e : e[i] \in Int
      BY <2>3, BookTypes
    <3> DEFINE p == [u \in PaidIn(s) |-> u.amount - u.out]
    <3>2. IsFiniteSet(DOMAIN p) /\ \A u \in DOMAIN p : p[u] \in Int
      BY BookTypes DEF PaidIn
    <3> HIDE DEF c, e, p
    <3>3. SumFunction(c) \in Int /\ SumFunction(e) \in Int /\ SumFunction(p) \in Int
      BY <3>1, <3>2, SumSplits
    <3> QED
      BY <3>3 DEF p
  <2>5. vault[s] \in Int /\ MinRent \in Int
    <3>1. vault[s] \in U64 /\ MinRent \in U64
      BY <1>3, VaultAssumption
    <3>2. \A k \in U64 : k \in Int
      BY Widths
    <3> QED
      BY <3>1, <3>2
  <2>6. CASE s = rec.asset
    <3>1. LockedIn(s)' = LockedIn(s) \cup {n} /\ n \notin LockedIn(s)
      BY <1>1, <2>6 DEF LockedIn
    <3>2. /\ DOMAIN c = LockedIn(s) /\ DOMAIN d = DOMAIN c \cup {n} /\ n \notin DOMAIN c
          /\ c = [i \in DOMAIN c |-> c[i]] /\ d[n] = rec.net
          /\ \A i \in DOMAIN c : c[i] \in Int /\ d[i] = c[i]
      BY <1>1, <1>2, <2>3, <3>1, BookTypes
    <3>3. /\ DOMAIN e = LockedIn(s) /\ DOMAIN f = DOMAIN e \cup {n} /\ n \notin DOMAIN e
          /\ e = [i \in DOMAIN e |-> e[i]] /\ f[n] = rec.gross - rec.net
          /\ \A i \in DOMAIN e : e[i] \in Int /\ f[i] = e[i]
      BY <1>1, <1>2, <2>3, <3>1, BookTypes
    <3>4. vault'[s] = vault[s] + rec.gross
      BY <1>3, <2>6
    <3> HIDE DEF c, d, e, f, paid
    <3>5. SumFunction(d) = SumFunction(c) + rec.net
      BY <1>2, <2>3, <3>2, SumGrows
    <3>6. SumFunction(f) = SumFunction(e) + (rec.gross - rec.net)
      BY <1>2, <2>3, <3>3, SumGrows
    <3> QED
      BY <1>2, <1>6, <2>1, <2>2, <2>4, <2>5, <3>4, <3>5, <3>6
  <2>7. CASE s # rec.asset
    <3>1. LockedIn(s)' = LockedIn(s)
      BY <1>1, <2>7 DEF LockedIn
    <3>2. d = c /\ f = e
      BY <1>1, <2>3, <3>1
    <3>3. vault'[s] = vault[s]
      BY <1>3, <2>7
    <3> HIDE DEF c, d, e, f, paid
    <3> QED
      BY <1>6, <2>1, <2>2, <3>2, <3>3
  <2> QED
    BY <2>6, <2>7
<1>7. Solvent'
  <2>1. \A u \in unlocks : deposits'[u.deposit] = deposits[u.deposit]
    BY <1>1, BookTypes
  <2> QED
    BY <1>3, <1>6, <2>1 DEF Solvent, BooksInv
<1> QED
  BY <1>3, <1>5, <1>7 DEF BooksInv

\* An unlock closes part of one claim; its fee stays in the vault.
LEMMA TakesBooks ==
  ASSUME IInv, IInv', BooksInv, NEW new, Takes(new)
  PROVE  BooksInv'
<1> DEFINE i == new.deposit
           x == deposits[i].unlocked + new.amount
<1>1. i \in DOMAIN deposits /\ x \in U64 /\ deposits' = [deposits EXCEPT ![i].unlocked = x]
  BY DEF Takes
<1>2. /\ DOMAIN deposits' = DOMAIN deposits /\ deposits'[i].unlocked = x
      /\ \A j \in DOMAIN deposits :
           /\ deposits'[j].net = deposits[j].net /\ deposits'[j].gross = deposits[j].gross
           /\ deposits'[j].asset = deposits[j].asset
           /\ j # i => deposits'[j] = deposits[j]
  <2> HIDE DEF i, x
  <2> QED
    BY <1>1, RecordTaken DEF IInv
<1>3. new.amount \in Int /\ new.out \in Int /\ new.asset \in Asset
  BY Widths DEF Takes, WithdrawRecord
<1>4. /\ new \notin unlocks /\ unlocks' = unlocks \cup {new}
      /\ vault' = [vault EXCEPT ![new.asset] = vault[new.asset] - new.out]
      /\ vault \in [Asset -> U64]
  BY DEF Takes, IInv, TypeOK
<1>5. deposits[i].unlocked \in Int /\ deposits[i].net \in Int /\ x = deposits[i].unlocked + new.amount
  BY <1>1, BookTypes
<1> HIDE DEF x
<1>6. WithinNet'
  <2>1. ASSUME NEW j \in DOMAIN deposits
        PROVE  Unlocked(j)' = deposits'[j].unlocked
    <3> DEFINE a == [u \in UnlocksOf(j) |-> u.amount]
               b == [u \in UnlocksOf(j)' |-> u.amount]
    <3>1. /\ Unlocked(j) = SumFunction(a) /\ Unlocked(j)' = SumFunction(b)
          /\ SumFunction(a) = deposits[j].unlocked
      BY DEF Unlocked, BooksInv, WithinNet
    <3>2. CASE j = i
      <4>1. UnlocksOf(j)' = UnlocksOf(j) \cup {new} /\ new \notin UnlocksOf(j)
        BY <1>4, <3>2 DEF UnlocksOf
      <4>2. /\ DOMAIN a = UnlocksOf(j) /\ DOMAIN b = DOMAIN a \cup {new} /\ new \notin DOMAIN a
            /\ a = [u \in DOMAIN a |-> a[u]] /\ b[new] = new.amount
            /\ \A u \in DOMAIN a : a[u] \in Int /\ b[u] = a[u]
        BY <4>1, BookTypes DEF UnlocksOf
      <4>3. IsFiniteSet(DOMAIN a)
        BY <4>2, BookTypes
      <4> HIDE DEF a, b
      <4>4. SumFunction(b) = SumFunction(a) + new.amount
        BY <1>3, <4>2, <4>3, SumGrows
      <4> QED
        BY <1>2, <1>5, <3>1, <3>2, <4>4
    <3>3. CASE j # i
      <4>1. UnlocksOf(j)' = UnlocksOf(j)
        BY <1>4, <3>3 DEF UnlocksOf
      <4> QED
        BY <1>2, <3>1, <3>3, <4>1
    <3> QED
      BY <3>2, <3>3
  <2>2. \A j \in DOMAIN deposits' : deposits'[j].unlocked <= deposits'[j].net
    BY DEF IInv, VaultInv
  <2> QED
    BY <1>2, <2>1, <2>2 DEF WithinNet
<1>7. ASSUME NEW s \in Asset, new.asset = deposits[i].asset,
             vault[s] >= (IF s = Sol THEN MinRent ELSE 0) + Claims(s) + Fees(s)
      PROVE  vault'[s] >= (IF s = Sol THEN MinRent ELSE 0) + Claims(s)' + Fees(s)'
  <2> DEFINE c == [j \in LockedIn(s) |-> deposits[j].net - deposits[j].unlocked]
             d == [j \in LockedIn(s)' |-> deposits'[j].net - deposits'[j].unlocked]
             e == [j \in LockedIn(s) |-> deposits[j].gross - deposits[j].net]
             f == [j \in LockedIn(s)' |-> deposits'[j].gross - deposits'[j].net]
             p == [u \in PaidIn(s) |-> u.amount - u.out]
             q == [u \in PaidIn(s)' |-> u.amount - u.out]
  <2>1. /\ Claims(s) = SumFunction(c) /\ Claims(s)' = SumFunction(d)
        /\ Fees(s) = SumFunction(e) + SumFunction(p)
        /\ Fees(s)' = SumFunction(f) + SumFunction(q)
    BY DEF Claims, Fees
  <2>2. LockedIn(s) \subseteq DOMAIN deposits /\ LockedIn(s)' = LockedIn(s)
    BY <1>2 DEF LockedIn
  <2>3. f = e
    BY <1>2, <2>2
  <2>4. SumFunction(c) \in Int /\ SumFunction(e) \in Int /\ SumFunction(p) \in Int
    <3>1. /\ IsFiniteSet(DOMAIN c) /\ \A j \in DOMAIN c : c[j] \in Int
          /\ IsFiniteSet(DOMAIN e) /\ \A j \in DOMAIN e : e[j] \in Int
      BY <2>2, BookTypes
    <3>2. IsFiniteSet(DOMAIN p) /\ \A u \in DOMAIN p : p[u] \in Int
      BY BookTypes DEF PaidIn
    <3> HIDE DEF c, e, p
    <3> QED
      BY <3>1, <3>2, SumSplits
  <2>5. vault[s] \in Int /\ MinRent \in Int
    <3>1. vault[s] \in U64 /\ MinRent \in U64
      BY <1>4, VaultAssumption
    <3>2. \A k \in U64 : k \in Int
      BY Widths
    <3> QED
      BY <3>1, <3>2
  <2>6. CASE s = new.asset
    <3>1. /\ i \in LockedIn(s) /\ DOMAIN c = LockedIn(s) /\ DOMAIN d = DOMAIN c
          /\ c[i] = deposits[i].net - deposits[i].unlocked
          /\ d[i] = deposits[i].net - x
          /\ \A j \in DOMAIN c : c[j] \in Int /\ (j # i => d[j] = c[j])
      BY <1>1, <1>2, <1>7, <2>2, <2>6, BookTypes DEF LockedIn
    <3>2. d[i] \in Int /\ \A j \in DOMAIN c : d[j] \in Int
      BY <1>3, <1>5, <3>1
    <3>3. PaidIn(s)' = PaidIn(s) \cup {new} /\ new \notin PaidIn(s)
      BY <1>4, <2>6 DEF PaidIn
    <3>4. /\ DOMAIN p = PaidIn(s) /\ DOMAIN q = DOMAIN p \cup {new} /\ new \notin DOMAIN p
          /\ p = [u \in DOMAIN p |-> p[u]] /\ q[new] = new.amount - new.out
          /\ \A u \in DOMAIN p : p[u] \in Int /\ q[u] = p[u]
      BY <3>3, BookTypes DEF PaidIn
    <3>5. vault'[s] = vault[s] - new.out
      BY <1>4, <2>6
    <3>6. IsFiniteSet(LockedIn(s)) /\ IsFiniteSet(PaidIn(s))
      BY BookTypes
    <3> HIDE DEF c, d, e, f, p, q, i
    <3>7. SumFunction(d) = SumFunction(c) - c[i] + d[i]
      BY <3>1, <3>2, <3>6, SumChanges
    <3>8. SumFunction(q) = SumFunction(p) + (new.amount - new.out)
      BY <1>3, <3>4, <3>6, SumGrows
    <3> QED
      BY <1>3, <1>5, <1>7, <2>1, <2>3, <2>4, <2>5, <3>1, <3>5, <3>7, <3>8
  <2>7. CASE s # new.asset
    <3>1. i \notin LockedIn(s) /\ PaidIn(s)' = PaidIn(s)
      BY <1>4, <1>7, <2>7 DEF LockedIn, PaidIn
    <3>2. d = c /\ q = p
      BY <1>2, <2>2, <3>1
    <3>3. vault'[s] = vault[s]
      BY <1>4, <2>7
    <3> HIDE DEF c, d, e, f, p, q
    <3> QED
      BY <1>7, <2>1, <2>3, <3>2, <3>3
  <2> QED
    BY <2>6, <2>7
<1>8. Solvent'
  <2>1. \A u \in unlocks : /\ u.deposit \in DOMAIN deposits /\ u \in unlocks'
                           /\ deposits'[u.deposit].asset = deposits[u.deposit].asset
    BY <1>2, <1>4, BookTypes
  <2>2. new \in unlocks' /\ deposits'[new.deposit].asset = deposits[i].asset
    BY <1>1, <1>2, <1>4
  <2> QED
    BY <1>7, <2>1, <2>2 DEF Solvent, BooksInv
<1>9. IsFiniteSet(unlocks')
  BY <1>4, FS_AddElement DEF BooksInv
<1> QED
  BY <1>6, <1>8, <1>9 DEF BooksInv

\* What is given covers more.
LEMMA GivingBooks ==
  ASSUME IInv, BooksInv, Giving
  PROVE  BooksInv'
<1>1. PICK s \in Asset, x \in Amount : Donate(s, x)
  BY DEF Giving
<1>2. UNCHANGED <<deposits, unlocks>> /\ vault' = [vault EXCEPT ![s] = vault[s] + x]
  BY <1>1 DEF Donate
<1>3. vault \in [Asset -> U64] /\ x \in Nat /\ \A k \in U64 : k \in Nat
  BY Widths DEF IInv, TypeOK
<1>4. \A t \in Asset : Claims(t)' = Claims(t) /\ Fees(t)' = Fees(t)
  BY <1>2 DEF Claims, Fees, LockedIn, PaidIn
<1>5. \A t \in Asset : Claims(t) \in Int /\ Fees(t) \in Int
  BY SumsOfBooks
<1>6. MinRent \in Nat
  BY <1>3, VaultAssumption
<1>7. ASSUME NEW t \in Asset,
             vault[t] >= (IF t = Sol THEN MinRent ELSE 0) + Claims(t) + Fees(t)
      PROVE  vault'[t] >= (IF t = Sol THEN MinRent ELSE 0) + Claims(t)' + Fees(t)'
  <2> DEFINE need == (IF t = Sol THEN MinRent ELSE 0) + Claims(t) + Fees(t)
  <2>1. need \in Int
    BY <1>5, <1>6
  <2>2. vault[t] \in Nat /\ vault'[t] \in Int /\ vault'[t] >= vault[t]
    BY <1>2, <1>3
  <2>3. vault[t] >= need
    BY <1>7
  <2> HIDE DEF need
  <2>4. vault'[t] >= need
    BY <2>1, <2>2, <2>3
  <2> QED
    BY <1>4, <2>4 DEF need
<1>8. Solvent'
  BY <1>2, <1>7 DEF Solvent, BooksInv
<1> QED
  BY <1>2, <1>8 DEF BooksInv, WithinNet, Unlocked, UnlocksOf

\* Nothing else touches the records.
LEMMA BooksKeep == IInv /\ IInv' /\ BooksInv /\ [Next]_vars => BooksInv'
<1> SUFFICES ASSUME IInv, IInv', BooksInv, [Next]_vars PROVE BooksInv'
  OBVIOUS
<1>1. ASSUME UNCHANGED <<deposits, unlocks, vault>> PROVE BooksInv'
  BY <1>1 DEF BooksInv, WithinNet, Unlocked, UnlocksOf, Solvent, Claims, Fees, LockedIn, PaidIn
<1>2. CASE Locking
  BY <1>2, LockingKeeps, LocksBooks
<1>3. CASE Unlocking
  BY <1>3, UnlockingKeeps, TakesBooks
<1>4. CASE Giving
  BY <1>4, GivingBooks
<1>5. CASE Governing
  BY <1>1, <1>5, PolicyChange DEF Governing, IInv, TypeOK
<1>6. CASE Relaying
  BY <1>1, <1>6 DEF Relaying, Poll, Defer, SendMint, MintFails, Record, Crash, vaultVars
<1>7. CASE MeshStep
  BY <1>1, <1>7 DEF MeshStep, Register, SendDrip, SendBurn, Receive, Lose, Include, vaultVars
<1>8. CASE UNCHANGED vars
  BY <1>1, <1>8 DEF vars, vaultVars
<1> QED
  BY <1>2, <1>3, <1>5, <1>6, <1>7, <1>8, <1>4 DEF Next

-----------------------------------------------------------------------------
(* The peg *)

\* Mints and burns are finitely many and in whole numbers.
LEMMA PegTypes ==
  ASSUME IInv, PegInv
  PROVE  /\ IsFiniteSet(MintedSeqs) /\ IsFiniteSet(Dripped) /\ IsFiniteSet(mesh.burns)
         /\ MintedSeqs \subseteq DOMAIN deposits
         /\ mesh.bal \in [MeshId -> Nat] /\ mesh.mints \subseteq MintTx /\ mesh.burns \subseteq BurnTx
         /\ \A m \in mesh.mints : m.amount \in Nat /\ m.ref \in Seq1 \cup Drip
         /\ \A b \in mesh.burns : b.amount \in Nat
<1>1. mesh \in MeshLedger
  BY DEF IInv, TypeOK
<1>2. /\ mesh.bal \in [MeshId -> Nat] /\ mesh.mints \subseteq MintTx
      /\ mesh.burns \subseteq BurnTx
  BY <1>1 DEF MeshLedger
<1>3. \A m \in mesh.mints : m.amount \in Nat /\ m.ref \in Seq1 \cup Drip
  BY <1>2 DEF MintTx
<1>4. \A b \in mesh.burns : b.amount \in Nat
  BY <1>2 DEF BurnTx
<1>5. MintedSeqs \subseteq DOMAIN deposits
  BY DEF MintedSeqs, MintedRefs, IInv, MintInv
<1>6. IsFiniteSet(DOMAIN deposits)
  BY RecordTypes, FS_Interval DEF IInv
<1>7. Dripped \in SUBSET mesh.mints
  BY DEF Dripped
<1> QED
  BY <1>2, <1>3, <1>4, <1>5, <1>6, <1>7, FS_Subset DEF PegInv, CoinsInv

\* What the sums are sums of.
LEMMA PegSums ==
  ASSUME IInv, PegInv, BooksInv
  PROVE  /\ Circulating \in Int /\ Burned \in Int /\ Drips \in Int /\ MintedNet \in Int
         /\ OpenClaims \in Int /\ PaidOut \in Int /\ LockedNet \in Int
<1> DEFINE f == [b \in mesh.burns |-> b.amount]
           g == [m \in Dripped |-> m.amount]
           h == [i \in MintedSeqs |-> deposits[i].net]
           c == [i \in DOMAIN deposits |-> deposits[i].net - deposits[i].unlocked]
           d == [i \in DOMAIN deposits |-> deposits[i].net]
           p == [u \in unlocks |-> u.amount]
<1>1. /\ IsFiniteSet(DOMAIN mesh.bal) /\ \A x \in DOMAIN mesh.bal : mesh.bal[x] \in Int
      /\ IsFiniteSet(DOMAIN f) /\ \A x \in DOMAIN f : f[x] \in Int
      /\ IsFiniteSet(DOMAIN g) /\ \A x \in DOMAIN g : g[x] \in Int
      /\ IsFiniteSet(DOMAIN h) /\ \A x \in DOMAIN h : h[x] \in Int
  BY PegTypes, BookTypes, BridgeAssumption DEF Dripped
<1>2. /\ IsFiniteSet(DOMAIN c) /\ \A x \in DOMAIN c : c[x] \in Int
      /\ IsFiniteSet(DOMAIN d) /\ \A x \in DOMAIN d : d[x] \in Int
      /\ IsFiniteSet(DOMAIN p) /\ \A x \in DOMAIN p : p[x] \in Int
  BY BookTypes DEF BooksInv
<1> HIDE DEF f, g, h, c, d, p
<1>3. /\ SumFunction(mesh.bal) \in Int /\ SumFunction(f) \in Int /\ SumFunction(g) \in Int
      /\ SumFunction(h) \in Int /\ SumFunction(c) \in Int /\ SumFunction(d) \in Int
      /\ SumFunction(p) \in Int
  BY <1>1, <1>2, SumSplits
<1> QED
  BY <1>3 DEF f, g, h, c, d, p, Circulating, Burned, Drips, MintedNet, OpenClaims, PaidOut, LockedNet

LEMMA PegOpens == Init => PegInv
<1> SUFFICES ASSUME Init PROVE PegInv
  OBVIOUS
<1>1. /\ mesh.mints = {} /\ mesh.burns = {} /\ mesh.bal = [id \in MeshId |-> 0]
      /\ deposits = <<>> /\ unlocks = {}
  BY DEF Init, InitBridge, InitVault
<1>2. Circulating = 0
  <2> DEFINE z == [id \in MeshId |-> 0]
  <2>1. IsFiniteSet(DOMAIN z) /\ z = [y \in DOMAIN z |-> z[y]] /\ \A x \in DOMAIN z : z[x] = 0
    BY BridgeAssumption
  <2> HIDE DEF z
  <2>2. SumFunction(z) = 0
    BY <2>1, SumOfZeros
  <2> QED
    BY <1>1, <2>2 DEF z, Circulating
<1>3. Burned = 0 /\ Drips = 0 /\ MintedNet = 0
  BY <1>1, SumEmpty DEF Burned, Drips, Dripped, MintedNet, MintedSeqs, MintedRefs
<1>4. OpenClaims = 0 /\ PaidOut = 0 /\ LockedNet = 0
  BY <1>1, SumEmpty DEF OpenClaims, PaidOut, LockedNet
<1> QED
  BY <1>1, <1>2, <1>3, <1>4, FS_EmptySet DEF PegInv, CoinsInv, ClaimsInv

\* Where coins and the records they were minted for stay, their account does.
LEMMA CoinsStay ==
  ASSUME IInv, PegInv,
         mesh'.mints = mesh.mints, mesh'.burns = mesh.burns, mesh'.bal = mesh.bal,
         mesh'.next = mesh.next,
         \A i \in DOMAIN deposits : deposits'[i].net = deposits[i].net
  PROVE  CoinsInv'
<1>1. MintedSeqs' = MintedSeqs /\ Dripped' = Dripped
  BY DEF MintedSeqs, MintedRefs, Dripped
<1>2. [i \in MintedSeqs |-> deposits'[i].net] = [i \in MintedSeqs |-> deposits[i].net]
  BY PegTypes
<1>3. MintedNet' = MintedNet
  BY <1>1, <1>2 DEF MintedNet
<1>4. Circulating' = Circulating /\ Burned' = Burned /\ Drips' = Drips
  BY <1>1 DEF Circulating, Burned, Drips
<1> QED
  BY <1>3, <1>4 DEF PegInv, CoinsInv

\* A mint brings into circulation what it drips, or what its deposit locked.
LEMMA MintKeepsCoins ==
  ASSUME IInv, BooksInv, PegInv, NEW tx \in pool, Include(tx), tx \in MintTx
  PROVE  CoinsInv'
<1>1. mesh \in MeshLedger /\ CanApply(tx) /\ mesh' = Applied(tx) /\ deposits' = deposits
  BY DEF Include, IInv, TypeOK, vaultVars
<1>2. tx.kind = "mint" /\ tx.to \in MeshId /\ tx.amount \in Nat /\ tx.ref \in Seq1 \cup Drip
  BY DEF MintTx
<1>3. /\ mesh'.mints = mesh.mints \cup {tx} /\ mesh'.burns = mesh.burns
      /\ mesh'.bal = [mesh.bal EXCEPT ![tx.to] = mesh.bal[tx.to] + tx.amount]
  BY <1>1, <1>2 DEF Applied, MeshLedger
<1>4. \A b \in mesh'.burns : b.nonce < mesh'.next[b.from]
  <2>1. mesh'.next = mesh.next
    BY <1>1, <1>2 DEF Applied, MeshLedger
  <2> QED
    BY <1>3, <2>1 DEF PegInv, CoinsInv
<1>5. \A m \in mesh.mints : m.ref # tx.ref
  BY <1>1, <1>2 DEF CanApply, FreshRef, IInv, MintInv
<1>6. tx.ref \in Seq1 => tx.ref \in DOMAIN deposits /\ tx.amount = deposits[tx.ref].net
  BY <1>2 DEF IInv, MintInv, Pending
<1>7. Circulating' = Circulating + tx.amount
  <2> DEFINE f == mesh.bal
             h == mesh'.bal
  <2>1. f \in [MeshId -> Nat] /\ IsFiniteSet(MeshId)
    BY PegTypes, BridgeAssumption
  <2>2. /\ IsFiniteSet(DOMAIN f) /\ DOMAIN h = DOMAIN f /\ tx.to \in DOMAIN f
        /\ \A y \in DOMAIN f : f[y] \in Int /\ h[y] \in Int
        /\ \A y \in DOMAIN f : y # tx.to => h[y] = f[y]
        /\ h[tx.to] = f[tx.to] + tx.amount
    BY <1>2, <1>3, <2>1
  <2> HIDE DEF f, h
  <2>3. SumFunction(h) = SumFunction(f) - f[tx.to] + h[tx.to] /\ SumFunction(f) \in Int
    BY <2>2, SumChanges, SumSplits
  <2>4. SumFunction(h) = SumFunction(f) + tx.amount
    BY <1>2, <2>2, <2>3
  <2> QED
    BY <2>4 DEF f, h, Circulating
<1>8. Burned' = Burned /\ IsFiniteSet(mesh'.mints) /\ IsFiniteSet(mesh'.burns)
  BY <1>3, FS_AddElement DEF Burned, PegInv, CoinsInv
<1>9. Drips' + MintedNet' = Drips + MintedNet + tx.amount
  <2>1. CASE tx.ref \in Drip
    <3>1. tx.ref \notin Seq1
      BY <2>1, BridgeAssumption DEF Seq1
    <3>2. MintedSeqs' = MintedSeqs /\ Dripped' = Dripped \cup {tx} /\ tx \notin Dripped
      BY <1>3, <1>5, <2>1, <3>1 DEF MintedSeqs, MintedRefs, Dripped
    <3>3. MintedNet' = MintedNet
      BY <1>1, <3>2 DEF MintedNet
    <3> DEFINE f == [m \in Dripped |-> m.amount]
               h == [m \in Dripped' |-> m.amount]
    <3>4. /\ IsFiniteSet(DOMAIN f) /\ tx \notin DOMAIN f /\ DOMAIN h = DOMAIN f \cup {tx}
          /\ f = [y \in DOMAIN f |-> f[y]] /\ h[tx] = tx.amount
          /\ \A y \in DOMAIN f : f[y] \in Int /\ h[y] = f[y]
      BY <3>2, PegTypes DEF Dripped
    <3> HIDE DEF f, h
    <3>5. SumFunction(h) = SumFunction(f) + tx.amount
      BY <1>2, <3>4, SumGrows
    <3>6. Drips' = Drips + tx.amount
      BY <3>5 DEF f, h, Drips
    <3> QED
      BY <1>2, <3>3, <3>6, PegSums
  <2>2. CASE tx.ref \notin Drip
    <3> DEFINE n == tx.ref
    <3>1. n \in Seq1 /\ n \in DOMAIN deposits /\ tx.amount = deposits[n].net
      BY <1>2, <1>6, <2>2
    <3>2. /\ Dripped' = Dripped /\ MintedSeqs' = MintedSeqs \cup {n} /\ n \notin MintedSeqs
      BY <1>3, <1>5, <2>2, <3>1 DEF MintedSeqs, MintedRefs, Dripped
    <3>3. Drips' = Drips
      BY <3>2 DEF Drips
    <3> DEFINE f == [i \in MintedSeqs |-> deposits[i].net]
               h == [i \in MintedSeqs' |-> deposits'[i].net]
    <3>4. /\ IsFiniteSet(DOMAIN f) /\ n \notin DOMAIN f /\ DOMAIN h = DOMAIN f \cup {n}
          /\ f = [y \in DOMAIN f |-> f[y]] /\ h[n] = tx.amount
          /\ \A y \in DOMAIN f : f[y] \in Int /\ h[y] = f[y]
      BY <1>1, <3>1, <3>2, PegTypes, BookTypes
    <3> HIDE DEF f, h, n
    <3>5. SumFunction(h) = SumFunction(f) + tx.amount
      BY <1>2, <3>4, SumGrows
    <3>6. MintedNet' = MintedNet + tx.amount
      BY <3>5 DEF f, h, MintedNet
    <3> QED
      BY <1>2, <3>3, <3>6, PegSums
  <2> QED
    BY <2>1, <2>2
<1> QED
  BY <1>2, <1>7, <1>8, <1>9, <1>4, PegSums DEF PegInv, CoinsInv

\* A burn takes out of circulation what it burns.
LEMMA BurnKeepsCoins ==
  ASSUME IInv, BooksInv, PegInv, NEW tx \in pool, Include(tx), tx \in BurnTx
  PROVE  CoinsInv'
<1>1. mesh \in MeshLedger /\ CanApply(tx) /\ mesh' = Applied(tx) /\ deposits' = deposits
  BY DEF Include, IInv, TypeOK, vaultVars
<1>2. tx.kind = "burn" /\ tx.from \in MeshId /\ tx.amount \in Nat
  BY DEF BurnTx
<1>3. /\ mesh'.burns = mesh.burns \cup {tx} /\ mesh'.mints = mesh.mints
      /\ mesh'.bal = [mesh.bal EXCEPT ![tx.from] = mesh.bal[tx.from] - tx.amount]
      /\ mesh'.next = [mesh.next EXCEPT ![tx.from] = mesh.next[tx.from] + 1]
  BY <1>1, <1>2 DEF Applied, MeshLedger
<1>4. /\ tx.nonce = mesh.next[tx.from] /\ tx.amount <= mesh.bal[tx.from]
      /\ mesh.next \in [MeshId -> Nat] /\ mesh.bal \in [MeshId -> Nat]
  BY <1>1, <1>2 DEF CanApply, MeshLedger
<1>5. tx \notin mesh.burns /\ \A b \in mesh'.burns : b.nonce < mesh'.next[b.from]
  <2>1. \A b \in mesh.burns : /\ b.nonce < mesh.next[b.from] /\ b.nonce \in Nat
                              /\ b.from \in MeshId
    BY PegTypes DEF PegInv, CoinsInv, BurnTx
  <2>2. tx \notin mesh.burns
    BY <1>2, <1>4, <2>1
  <2>3. ASSUME NEW b \in mesh'.burns PROVE b.nonce < mesh'.next[b.from]
    <3>1. CASE b = tx
      BY <1>2, <1>3, <1>4, <3>1
    <3>2. CASE b \in mesh.burns
      BY <1>2, <1>3, <1>4, <2>1, <3>2
    <3> QED
      BY <1>3, <3>1, <3>2
  <2> QED
    BY <2>2, <2>3
<1>6. Circulating' = Circulating - tx.amount
  <2> DEFINE f == mesh.bal
             h == mesh'.bal
  <2>1. IsFiniteSet(MeshId)
    BY BridgeAssumption
  <2>2. /\ IsFiniteSet(DOMAIN f) /\ DOMAIN h = DOMAIN f /\ tx.from \in DOMAIN f
        /\ \A y \in DOMAIN f : f[y] \in Int /\ h[y] \in Int
        /\ \A y \in DOMAIN f : y # tx.from => h[y] = f[y]
        /\ h[tx.from] = f[tx.from] - tx.amount
    BY <1>2, <1>3, <1>4, <2>1
  <2> HIDE DEF f, h
  <2>3. SumFunction(h) = SumFunction(f) - f[tx.from] + h[tx.from] /\ SumFunction(f) \in Int
    BY <2>2, SumChanges, SumSplits
  <2>4. SumFunction(h) = SumFunction(f) - tx.amount
    BY <1>2, <2>2, <2>3
  <2> QED
    BY <2>4 DEF f, h, Circulating
<1>7. Burned' = Burned + tx.amount
  <2> DEFINE f == [b \in mesh.burns |-> b.amount]
             h == [b \in mesh'.burns |-> b.amount]
  <2>1. /\ IsFiniteSet(DOMAIN f) /\ tx \notin DOMAIN f /\ DOMAIN h = DOMAIN f \cup {tx}
        /\ f = [y \in DOMAIN f |-> f[y]] /\ h[tx] = tx.amount
        /\ \A y \in DOMAIN f : f[y] \in Int /\ h[y] = f[y]
    BY <1>3, <1>5, PegTypes
  <2> HIDE DEF f, h
  <2>2. SumFunction(h) = SumFunction(f) + tx.amount
    BY <1>2, <2>1, SumGrows
  <2> QED
    BY <2>2 DEF f, h, Burned
<1>8. Drips' = Drips /\ MintedNet' = MintedNet
  BY <1>1, <1>3 DEF Drips, Dripped, MintedNet, MintedSeqs, MintedRefs
<1>9. IsFiniteSet(mesh'.mints) /\ IsFiniteSet(mesh'.burns)
  BY <1>3, FS_AddElement DEF PegInv, CoinsInv
<1> QED
  BY <1>2, <1>5, <1>6, <1>7, <1>8, <1>9, PegSums DEF PegInv, CoinsInv

\* A deposit opens a claim of what it locked.
LEMMA LocksPeg ==
  ASSUME IInv, BooksInv, PegInv, NEW rec, Locks(rec)
  PROVE  ClaimsInv' /\ \A i \in DOMAIN deposits : deposits'[i].net = deposits[i].net
<1>0. PICK n \in Nat : n = Len(deposits) + 1
  BY RecordTypes DEF IInv
<1>1. /\ DOMAIN deposits' = DOMAIN deposits \cup {n} /\ n \notin DOMAIN deposits
      /\ deposits'[n] = rec /\ \A i \in DOMAIN deposits : deposits'[i] = deposits[i]
  BY <1>0, RecordTypes DEF Locks, IInv
<1>2. rec.net \in Int /\ rec.unlocked = 0
  <2>1. rec.net \in U64 /\ rec.unlocked = 0
    BY DEF Locks, DepositRecord
  <2>2. \A k \in U64 : k \in Int
    BY Widths
  <2> QED
    BY <2>1, <2>2
<1>3. PaidOut' = PaidOut
  BY DEF Locks, PaidOut
<1> DEFINE c == [i \in DOMAIN deposits |-> deposits[i].net - deposits[i].unlocked]
           d == [i \in DOMAIN deposits' |-> deposits'[i].net - deposits'[i].unlocked]
           e == [i \in DOMAIN deposits |-> deposits[i].net]
           f == [i \in DOMAIN deposits' |-> deposits'[i].net]
<1>4. /\ IsFiniteSet(DOMAIN c) /\ n \notin DOMAIN c /\ DOMAIN d = DOMAIN c \cup {n}
      /\ c = [i \in DOMAIN c |-> c[i]] /\ d[n] = rec.net
      /\ \A i \in DOMAIN c : c[i] \in Int /\ d[i] = c[i]
  BY <1>1, <1>2, BookTypes
<1>5. /\ IsFiniteSet(DOMAIN e) /\ n \notin DOMAIN e /\ DOMAIN f = DOMAIN e \cup {n}
      /\ e = [i \in DOMAIN e |-> e[i]] /\ f[n] = rec.net
      /\ \A i \in DOMAIN e : e[i] \in Int /\ f[i] = e[i]
  BY <1>1, <1>2, BookTypes
<1> HIDE DEF c, d, e, f
<1>6. SumFunction(d) = SumFunction(c) + rec.net
  BY <1>2, <1>4, SumGrows
<1>7. SumFunction(f) = SumFunction(e) + rec.net
  BY <1>2, <1>5, SumGrows
<1>8. OpenClaims' = OpenClaims + rec.net /\ LockedNet' = LockedNet + rec.net
  BY <1>6, <1>7 DEF c, d, e, f, OpenClaims, LockedNet
<1> QED
  BY <1>1, <1>2, <1>3, <1>8, PegSums DEF PegInv, ClaimsInv

\* An unlock turns part of a claim into what was paid.
LEMMA TakesPeg ==
  ASSUME IInv, BooksInv, PegInv, NEW new, Takes(new)
  PROVE  ClaimsInv' /\ \A i \in DOMAIN deposits : deposits'[i].net = deposits[i].net
<1> DEFINE i == new.deposit
           x == deposits[i].unlocked + new.amount
<1>1. i \in DOMAIN deposits /\ x \in U64 /\ deposits' = [deposits EXCEPT ![i].unlocked = x]
  BY DEF Takes
<1>2. /\ DOMAIN deposits' = DOMAIN deposits /\ deposits'[i].unlocked = x
      /\ \A j \in DOMAIN deposits :
           /\ deposits'[j].net = deposits[j].net
           /\ j # i => deposits'[j] = deposits[j]
  <2> HIDE DEF i, x
  <2> QED
    BY <1>1, RecordTaken DEF IInv
<1>3. new.amount \in Int
  BY Widths DEF Takes, WithdrawRecord
<1>4. deposits[i].unlocked \in Int /\ deposits[i].net \in Int /\ x = deposits[i].unlocked + new.amount
  BY <1>1, BookTypes
<1> HIDE DEF x
<1>5. PaidOut' = PaidOut + new.amount
  <2> DEFINE p == [u \in unlocks |-> u.amount]
             q == [u \in unlocks' |-> u.amount]
  <2>1. /\ IsFiniteSet(DOMAIN p) /\ new \notin DOMAIN p /\ DOMAIN q = DOMAIN p \cup {new}
        /\ p = [u \in DOMAIN p |-> p[u]] /\ q[new] = new.amount
        /\ \A u \in DOMAIN p : p[u] \in Int /\ q[u] = p[u]
    BY BookTypes DEF Takes, BooksInv
  <2> HIDE DEF p, q
  <2>2. SumFunction(q) = SumFunction(p) + new.amount
    BY <1>3, <2>1, SumGrows
  <2> QED
    BY <2>2 DEF p, q, PaidOut
<1>6. OpenClaims' = OpenClaims - new.amount
  <2> DEFINE c == [j \in DOMAIN deposits |-> deposits[j].net - deposits[j].unlocked]
             d == [j \in DOMAIN deposits' |-> deposits'[j].net - deposits'[j].unlocked]
  <2>1. /\ IsFiniteSet(DOMAIN c) /\ i \in DOMAIN c /\ DOMAIN d = DOMAIN c
        /\ c[i] = deposits[i].net - deposits[i].unlocked
        /\ d[i] = deposits[i].net - x
        /\ \A j \in DOMAIN c : c[j] \in Int /\ (j # i => d[j] = c[j])
    BY <1>1, <1>2, BookTypes
  <2>2. d[i] \in Int /\ \A j \in DOMAIN c : d[j] \in Int
    BY <1>3, <1>4, <2>1
  <2> HIDE DEF c, d, i
  <2>3. SumFunction(d) = SumFunction(c) - c[i] + d[i] /\ SumFunction(c) \in Int
    BY <2>1, <2>2, SumChanges, SumSplits
  <2>4. SumFunction(d) = SumFunction(c) - new.amount
    BY <1>3, <1>4, <2>1, <2>3
  <2> QED
    BY <2>4 DEF c, d, OpenClaims
<1>7. LockedNet' = LockedNet
  <2>1. [j \in DOMAIN deposits' |-> deposits'[j].net] = [j \in DOMAIN deposits |-> deposits[j].net]
    BY <1>2
  <2> QED
    BY <2>1 DEF LockedNet
<1> QED
  BY <1>2, <1>3, <1>5, <1>6, <1>7, PegSums DEF PegInv, ClaimsInv

LEMMA PegKeeps == IInv /\ IInv' /\ BooksInv /\ PegInv /\ [Next]_vars => PegInv'
<1> SUFFICES ASSUME IInv, IInv', BooksInv, PegInv, [Next]_vars PROVE PegInv'
  OBVIOUS
<1>1. ASSUME UNCHANGED <<deposits, unlocks>> PROVE ClaimsInv'
  BY <1>1 DEF PegInv, ClaimsInv, OpenClaims, PaidOut, LockedNet
<1>2. ASSUME UNCHANGED mesh, \A i \in DOMAIN deposits : deposits'[i].net = deposits[i].net
      PROVE  CoinsInv'
  BY <1>2, CoinsStay
<1>3. CASE Locking
  BY <1>2, <1>3, LockingKeeps, LocksPeg DEF PegInv, Locking, bridgeVars
<1>4. CASE Unlocking
  BY <1>2, <1>4, UnlockingKeeps, TakesPeg DEF PegInv, Unlocking, bridgeVars
<1>5. CASE Giving
  BY <1>1, <1>2, <1>5 DEF PegInv, Giving, Donate, bridgeVars
<1>6. CASE Governing
  BY <1>1, <1>2, <1>6, PolicyChange DEF PegInv, Governing, IInv, TypeOK, bridgeVars
<1>7. CASE Relaying
  BY <1>1, <1>2, <1>7 DEF PegInv, Relaying, Poll, Defer, SendMint, MintFails, Record, Crash, vaultVars
<1>8. CASE MeshStep
  <2>1. UNCHANGED vaultVars
    BY <1>8 DEF MeshStep, Register, SendDrip, SendBurn, Receive, Lose, Include
  <2>2. CASE \E id \in MeshId : Register(id)
    <3>1. PICK id \in MeshId : Register(id)
      BY <2>2
    <3>2. mesh' = [mesh EXCEPT !.known = mesh.known \cup {id}] /\ mesh \in MeshLedger
      BY <3>1 DEF Register, IInv, TypeOK
    <3>3. /\ mesh'.mints = mesh.mints /\ mesh'.burns = mesh.burns
          /\ mesh'.bal = mesh.bal /\ mesh'.next = mesh.next
      BY <3>2 DEF MeshLedger
    <3> QED
      BY <1>1, <2>1, <3>3, CoinsStay DEF PegInv, vaultVars
  <2>3. CASE \E tx \in pool : Include(tx)
    <3>1. PICK tx \in pool : Include(tx)
      BY <2>3
    <3>2. tx \in MintTx \/ tx \in BurnTx
      BY DEF IInv, TypeOK
    <3> QED
      BY <1>1, <2>1, <3>1, <3>2, MintKeepsCoins, BurnKeepsCoins DEF PegInv, vaultVars
  <2>4. CASE UNCHANGED mesh
    BY <1>1, <1>2, <2>1, <2>4 DEF PegInv, vaultVars
  <2> QED
    BY <1>8, <2>2, <2>3, <2>4 DEF MeshStep, SendDrip, SendBurn, Receive, Lose
<1>9. CASE UNCHANGED vars
  BY <1>1, <1>2, <1>9 DEF PegInv, vars, vaultVars, bridgeVars
<1> QED
  BY <1>3, <1>4, <1>5, <1>6, <1>7, <1>8, <1>9 DEF Next

\* Unlocks that are all of burns, each of another, pay no more than was burned.
LEMMA PaidWasBurned ==
  ASSUME IInv, BooksInv, PegInv, \A u \in unlocks : Vouched(u)
  PROVE  PaidOut <= Burned
<1> DEFINE used == {u.burn : u \in unlocks}
           p == [u \in unlocks |-> u.amount]
           q == [b \in used |-> b.amount]
           f == [b \in mesh.burns |-> b.amount]
           names == [u \in unlocks |-> u.burn]
<1>1. used \in SUBSET mesh.burns /\ \A u \in unlocks : u.burn.amount = u.amount
  BY DEF IInv, UnlockIsBurned
<1>2. \A u, w \in unlocks : u.burn = w.burn => u = w
  BY DEF IInv, VaultInv
<1>3. /\ IsFiniteSet(unlocks) /\ \A u \in unlocks : u.amount \in Int
      /\ IsFiniteSet(mesh.burns) /\ \A b \in mesh.burns : b.amount \in Nat
  BY BookTypes, PegTypes DEF BooksInv
<1>4. IsFiniteSet(used)
  BY <1>1, <1>3, FS_Subset
<1>5. SumFunction(q) = SumFunction(p)
  <2>1. /\ IsFiniteSet(DOMAIN p) /\ p = [x \in DOMAIN p |-> p[x]] /\ \A x \in DOMAIN p : p[x] \in Int
    BY <1>3
  <2>2. IsFiniteSet(DOMAIN q) /\ q = [y \in DOMAIN q |-> q[y]]
    BY <1>4
  <2>3. \A x \in DOMAIN p : names[x] \in DOMAIN q /\ q[names[x]] = p[x]
    BY <1>1
  <2>4. \A x, z \in DOMAIN p : names[x] = names[z] => x = z
    BY <1>2
  <2>5. \A y \in DOMAIN q : (\A x \in DOMAIN p : names[x] # y) => q[y] = 0
    OBVIOUS
  <2> HIDE DEF p, q, names
  <2> QED
    BY <2>1, <2>2, <2>3, <2>4, <2>5, SumRenamed
<1>6. SumFunction(q) <= SumFunction(f)
  <2>1. /\ IsFiniteSet(DOMAIN f) /\ DOMAIN q \subseteq DOMAIN f
        /\ q = [x \in DOMAIN q |-> q[x]] /\ f = [x \in DOMAIN f |-> f[x]]
        /\ \A x \in DOMAIN q : q[x] \in Int /\ q[x] <= f[x]
        /\ \A x \in DOMAIN f : f[x] \in Nat
    BY <1>1, <1>3
  <2> HIDE DEF q, f
  <2> QED
    BY <2>1, SumBelow
<1> QED
  BY <1>5, <1>6 DEF PaidOut, Burned

LEMMA PegFollows == IInv /\ BooksInv /\ PegInv => PegHolds
<1> SUFFICES ASSUME IInv, BooksInv, PegInv, \A u \in unlocks : Vouched(u)
             PROVE  Circulating <= OpenClaims + Drips
  BY DEF PegHolds
<1>1. PaidOut <= Burned
  BY PaidWasBurned
<1>2. MintedNet <= LockedNet
  <2> DEFINE f == [i \in MintedSeqs |-> deposits[i].net]
             h == [i \in DOMAIN deposits |-> deposits[i].net]
  <2>1. /\ IsFiniteSet(DOMAIN h) /\ DOMAIN f \subseteq DOMAIN h
        /\ f = [x \in DOMAIN f |-> f[x]] /\ h = [x \in DOMAIN h |-> h[x]]
        /\ \A x \in DOMAIN f : f[x] \in Int /\ f[x] <= h[x]
        /\ \A x \in DOMAIN h : h[x] \in Nat
    BY BookTypes, PegTypes, RecordTypes DEF IInv
  <2> HIDE DEF f, h
  <2>2. SumFunction(f) <= SumFunction(h)
    BY <2>1, SumBelow
  <2> QED
    BY <2>2 DEF f, h, MintedNet, LockedNet
<1> QED
  BY <1>1, <1>2, PegSums DEF PegInv, CoinsInv, ClaimsInv

-----------------------------------------------------------------------------
(* The theorems *)

(* The inductive invariant: no claim is overdrawn, only witnesses are      *)
(* listed, every mint was signed from its record.                          *)
THEOREM Invariant == Spec => []IInv
<1>1. IInv /\ [Next]_vars => IInv'
  BY GoverningKeeps, GivingKeeps, LockingKeeps, UnlockingKeeps, RelayingKeeps, MeshStepKeeps,
     StutterKeeps DEF Next
<1> QED
  BY InitInv, <1>1, PTL DEF Spec

(* The vault, the mesh and the relayer keep their types: no amount leaves  *)
(* its 64 bits and the vault is never overdrawn (lib.rs checks every sum   *)
(* before it writes).                                                      *)
THEOREM TypeCorrect == Spec => []TypeOK
<1>1. IInv => TypeOK
  BY DEF IInv
<1> QED
  BY Invariant, <1>1, PTL

(* Whatever the authority does to the list of attestors and their number,  *)
(* however often it lists a key: an unlock with more attestors' signatures *)
(* than there are careless attestors is of a burn that is final on the     *)
(* mesh, of that amount, by the wallet the funds were locked for, and of   *)
(* no other unlock (count_attestor_signers, and the records at addresses   *)
(* of burns in withdraw_hybrid_sol and withdraw_hybrid_spl).               *)
THEOREM UnlockNeedsBurn == Spec => []UnlockIsBurned
<1>1. IInv => UnlockIsBurned
  BY DEF IInv
<1> QED
  BY Invariant, <1>1, PTL

(* A deposit is minted at most once and as it was locked, whatever crashes *)
(* make the relayer send again (mint_for_deposit and the used references). *)
THEOREM MintOnce == Spec => []DepositMintedOnce
<1>1. IInv => DepositMintedOnce
  BY DEF IInv, MintInv, DepositMintedOnce
<1> QED
  BY Invariant, <1>1, PTL

(* What was unlocked of a record is what its unlocks took, in either asset *)
(* and under either policy, and never more than its claim (Unlock of       *)
(* withdraw_hybrid_sol and withdraw_hybrid_spl).                           *)
THEOREM ClaimsAccounted == Spec => []WithinNet
<1>1. BooksInv => WithinNet
  BY DEF BooksInv
<1> QED
  BY Invariant, BooksOpen, BooksKeep, <1>1, PTL DEF Spec

(* The vault covers the rent, every open claim and the fees, as long as no *)
(* unlock was paid in another asset than its deposit (deposit_sol,         *)
(* deposit_spl and the two withdrawals).                                   *)
THEOREM VaultIsSolvent == Spec => []Solvent
<1>1. BooksInv => Solvent
  BY DEF BooksInv
<1> QED
  BY Invariant, BooksOpen, BooksKeep, <1>1, PTL DEF Spec

(* As long as every unlock was vouched for, what circulates on the mesh is *)
(* covered by open claims, but for what the faucet gave: through resent,   *)
(* lost and rival transactions, state files that lag or are cut short, and *)
(* unlocks in parts (relayer_daemon.ts, mint_for_deposit, lib.rs).         *)
THEOREM Pegged == Spec => []PegHolds
BY Invariant, BooksOpen, BooksKeep, PegOpens, PegKeeps, PegFollows, PTL DEF Spec

=============================================================================
