--------------------------- MODULE AccountsProofs ---------------------------
(***************************************************************************)
(* Lemmas about Accounts: what a transaction, a tip and a reward leave of  *)
(* a state, for every set of keys, transactions and limits.  LedgerProofs  *)
(* and MempoolProofs rest on them.                                         *)
(***************************************************************************)
EXTENDS Accounts, DataProofs, SequenceTheorems

-----------------------------------------------------------------------------
(* Numbers and genesis *)

\* saturating_add stays in u64 and loses nothing below its limit.
LEMMA SatAddType ==
  ASSUME NEW x \in Amount, NEW y \in Amount
  PROVE  SatAdd(x, y) \in Amount
BY NumberAssumption DEF SatAdd, Amount

\* A nonce never decreases, and increases below its limit.
LEMMA NextNonceType ==
  ASSUME NEW n \in Nonce
  PROVE  /\ NextNonce(n) \in Nonce /\ NextNonce(n) >= n
         /\ n < NextNonce(n) \/ n = MaxNonce
BY NumberAssumption DEF NextNonce, Nonce

\* The first of several seats is one of them.
LEMMA MinMember ==
  ASSUME NEW S \in SUBSET Nat, S # {}
  PROVE  Min(S) \in S
<1>1. PICK x \in S : \A y \in S : ~ (<<y, x>> \in OpToRel(<, Nat))
  BY NatLessThanWellFounded, WFMin
<1>2. ASSUME NEW y \in S, y < x
      PROVE  FALSE
  <2>1. OpToRel(<, Nat) = {ss \in Nat \X Nat : ss[1] < ss[2]}
    BY Zenon DEF OpToRel
  <2>2. <<y, x>> \in {ss \in Nat \X Nat : ss[1] < ss[2]}
    BY <1>2
  <2> QED
    BY <1>1, <2>1, <2>2
<1>3. \A y \in S : x <= y
  BY <1>2
<1> QED
  BY <1>3 DEF Min

\* An account of a key starts empty.
LEMMA NewAccountType ==
  ASSUME NEW k \in Key, NEW x \in Amount
  PROVE  NewAccount(k, x) \in Account /\ NewAccount(k, x) # NoAccount
BY KeyAssumption, NumberAssumption DEF NewAccount, Account, Nonce

\* Genesis is a state.
LEMMA GenesisType == GenesisState \in State
<1>1. ASSUME NEW sid \in ShortId
      PROVE  GenesisAccount(sid) \in Account \cup {NoAccount}
  <2> DEFINE seats == {i \in DOMAIN Validators : ShortIdOf[Validators[i]] = sid}
             named == {k \in DOMAIN Allocation : ShortIdOf[k] = sid}
  <2>1. CASE named # {}
    <3>1. \A k \in named : NewAccount(k, Allocation[k]) \in Account
      BY NewAccountType, AllocationAssumption
    <3>2. (CHOOSE k \in named : TRUE) \in named
      BY <2>1
    <3> QED
      BY <3>1, <3>2, <2>1 DEF GenesisAccount
  <2>2. CASE named = {} /\ seats # {}
    <3>1. seats \in SUBSET Nat /\ seats \subseteq DOMAIN Validators
      BY KeyAssumption
    <3>2. Min(seats) \in seats
      BY <3>1, <2>2, MinMember
    <3>3. Validators[Min(seats)] \in Key
      BY <3>1, <3>2, KeyAssumption
    <3>4. NewAccount(Validators[Min(seats)], 0) \in Account
      BY <3>3, NewAccountType, NumberAssumption DEF Amount
    <3> QED
      BY <3>4, <2>2 DEF GenesisAccount
  <2>3. CASE named = {} /\ seats = {}
    BY <2>3 DEF GenesisAccount
  <2> QED
    BY <2>1, <2>2, <2>3
<1>2. GenesisSupply \in Amount
  <2>1. SumFunction(Allocation) \in Nat
    BY SumOfNaturals, AllocationAssumption, NumberAssumption DEF Amount
  <2> QED
    BY <2>1, NumberAssumption DEF GenesisSupply, SatAdd, Amount
<1> QED
  BY <1>1, <1>2 DEF GenesisState, State

-----------------------------------------------------------------------------
(* Transactions and states *)

\* The fields of a transaction, by type.
LEMMA TxFields ==
  ASSUME NEW tx \in Tx
  PROVE  /\ tx.env.signer \in Key /\ tx.env.pq \in PqKey \cup {NoPq}
         /\ Sender(tx) \in ShortId /\ tx.nonce \in Nonce
         /\ tx.type \in {"Transfer", "Register", "Mint", "Burn"}
         /\ tx.type # "Register" => tx.amount \in Amount
         /\ Fee(tx) \in Amount
         /\ tx.type \in {"Transfer", "Mint"} => tx.to \in ShortId
         /\ IsSpend(tx) => tx.from \in ShortId
         /\ tx.type = "Register" => tx.pubkey \in Key
         /\ tx.type = "Mint" => tx.ref \in Ref /\ tx.pubkey \in Key \cup {NoKey}
<1>1. CASE tx \in Transfer
  BY <1>1, KeyAssumption DEF Transfer, Envelope, Sender, Fee, IsSpend
<1>2. CASE tx \in Register
  BY <1>2, KeyAssumption, NumberAssumption
     DEF Register, Envelope, Sender, Fee, IsSpend, Amount
<1>3. CASE tx \in Mint
  BY <1>3, KeyAssumption, NumberAssumption
     DEF Mint, Envelope, Sender, Fee, IsSpend, Amount
<1>4. CASE tx \in Burn
  BY <1>4, KeyAssumption, NumberAssumption
     DEF Burn, Envelope, Sender, Fee, IsSpend, Amount
<1> QED
  BY <1>1, <1>2, <1>3, <1>4 DEF Tx

\* An account that exists has the fields of one.
LEMMA AccountFields ==
  ASSUME NEW st \in State, NEW sid \in ShortId, Has(st, sid)
  PROVE  /\ st.accounts[sid] \in Account
         /\ st.accounts[sid].pubkey \in Key
         /\ st.accounts[sid].balance \in Amount
         /\ st.accounts[sid].nonce \in Nonce
         /\ st.accounts[sid].pq \in PqKey \cup {NoPq}
BY DEF State, Has, Account

\* Grows is a preorder.
LEMMA GrowsReflexive ==
  ASSUME NEW st \in State
  PROVE  Grows(st, st)
<1>1. \A sid \in ShortId : Has(st, sid) =>
        st.accounts[sid].nonce >= st.accounts[sid].nonce
  BY AccountFields DEF Nonce
<1> QED
  BY <1>1 DEF Grows

\* What survives two steps survives both.
LEMMA GrowsTransitive ==
  ASSUME NEW s \in State, NEW t \in State, NEW u \in State,
         Grows(s, t), Grows(t, u)
  PROVE  Grows(s, u)
<1>1. ASSUME NEW sid \in ShortId, Has(s, sid)
      PROVE  /\ Has(u, sid)
             /\ u.accounts[sid].pubkey = s.accounts[sid].pubkey
             /\ u.accounts[sid].nonce >= s.accounts[sid].nonce
             /\ s.accounts[sid].pq # NoPq =>
                  u.accounts[sid].pq = s.accounts[sid].pq
  <2>1. /\ Has(t, sid) /\ t.accounts[sid].pubkey = s.accounts[sid].pubkey
        /\ t.accounts[sid].nonce >= s.accounts[sid].nonce
        /\ s.accounts[sid].pq # NoPq =>
             t.accounts[sid].pq = s.accounts[sid].pq
    BY <1>1 DEF Grows
  <2>2. /\ Has(u, sid) /\ u.accounts[sid].pubkey = t.accounts[sid].pubkey
        /\ u.accounts[sid].nonce >= t.accounts[sid].nonce
        /\ t.accounts[sid].pq # NoPq =>
             u.accounts[sid].pq = t.accounts[sid].pq
    BY <2>1 DEF Grows
  <2>3. /\ s.accounts[sid].nonce \in Nat /\ t.accounts[sid].nonce \in Nat
        /\ u.accounts[sid].nonce \in Nat
    BY <1>1, <2>1, <2>2, AccountFields DEF Nonce
  <2> QED
    BY <2>1, <2>2, <2>3
<1>2. s.refs \subseteq u.refs
  BY DEF Grows
<1> QED
  BY <1>1, <1>2 DEF Grows

\* Writing one account that keeps key, nonce and PQ key leaves a state that
\* grew.
LEMMA SetAccountGrows ==
  ASSUME NEW st \in State, NEW sid \in ShortId, NEW acc \in Account,
         Has(st, sid) =>
           /\ acc.pubkey = st.accounts[sid].pubkey
           /\ acc.nonce >= st.accounts[sid].nonce
           /\ st.accounts[sid].pq # NoPq => acc.pq = st.accounts[sid].pq
  PROVE  /\ SetAccount(st, sid, acc) \in State
         /\ SetAccount(st, sid, acc).accounts =
              [st.accounts EXCEPT ![sid] = acc]
         /\ SetAccount(st, sid, acc).refs = st.refs
         /\ Has(SetAccount(st, sid, acc), sid)
         /\ Grows(st, SetAccount(st, sid, acc))
<1> DEFINE new == SetAccount(st, sid, acc)
<1>1. /\ new.accounts = [st.accounts EXCEPT ![sid] = acc]
      /\ new.refs = st.refs /\ new.supply = st.supply
      /\ new = [accounts |-> [st.accounts EXCEPT ![sid] = acc],
                supply |-> st.supply, refs |-> st.refs]
  BY DEF SetAccount, State
<1>2. new \in State
  BY <1>1 DEF State
<1>3. acc # NoAccount
  BY KeyAssumption
<1>4. /\ new.accounts[sid] = acc
      /\ \A s \in ShortId : s # sid => new.accounts[s] = st.accounts[s]
  BY <1>1 DEF State
<1>5. \A s \in ShortId : Has(st, s) =>
         st.accounts[s].nonce >= st.accounts[s].nonce
  BY AccountFields DEF Nonce
<1>6. Grows(st, new)
  BY <1>1, <1>3, <1>4, <1>5 DEF Grows, Has
<1> QED
  BY <1>1, <1>2, <1>3, <1>4, <1>6 DEF Has

\* Two states that differ in balances and new accounts only.
SameKeys(old, new) ==
  /\ \A sid \in ShortId : Has(old, sid) =>
       /\ Has(new, sid)
       /\ new.accounts[sid].pubkey = old.accounts[sid].pubkey
       /\ new.accounts[sid].nonce = old.accounts[sid].nonce
       /\ new.accounts[sid].pq = old.accounts[sid].pq
  /\ new.refs = old.refs

\* Such a state grew, and records what the other one recorded.
LEMMA SameKeysGrows ==
  ASSUME NEW st \in State, NEW new \in State, SameKeys(st, new)
  PROVE  Grows(st, new)
<1>1. \A sid \in ShortId : Has(st, sid) =>
        st.accounts[sid].nonce >= st.accounts[sid].nonce
  BY AccountFields DEF Nonce
<1> QED
  BY <1>1 DEF Grows, SameKeys

\* A credit writes a balance only.
LEMMA CreditKeeps ==
  ASSUME NEW st \in State, NEW sid \in ShortId, Has(st, sid),
         NEW x \in Amount
  PROVE  Credit(st, sid, x) \in State /\ SameKeys(st, Credit(st, sid, x))
<1> DEFINE acc == [st.accounts[sid] EXCEPT !.balance = SatAdd(@, x)]
<1>1. /\ acc \in Account /\ acc.pubkey = st.accounts[sid].pubkey
      /\ acc.nonce = st.accounts[sid].nonce /\ acc.pq = st.accounts[sid].pq
  BY AccountFields, SatAddType DEF Account
<1>2. Credit(st, sid, x) = SetAccount(st, sid, acc)
  BY DEF Credit, SetAccount, State
<1>3. acc.nonce >= st.accounts[sid].nonce
  BY <1>1, AccountFields DEF Nonce
<1> HIDE DEF acc
<1>4. /\ SetAccount(st, sid, acc) \in State
      /\ SetAccount(st, sid, acc).accounts = [st.accounts EXCEPT ![sid] = acc]
      /\ SetAccount(st, sid, acc).refs = st.refs
      /\ Has(SetAccount(st, sid, acc), sid)
      /\ Grows(st, SetAccount(st, sid, acc))
  BY <1>1, <1>3, SetAccountGrows
<1>5. st.accounts \in [ShortId -> Account \cup {NoAccount}]
  BY DEF State
<1> QED
  BY <1>1, <1>2, <1>4, <1>5 DEF SameKeys, Has

\* A new account changes none that exists.
LEMMA EnsureKeeps ==
  ASSUME NEW st \in State, NEW k \in Key
  PROVE  /\ Ensure(st, k) \in State /\ SameKeys(st, Ensure(st, k))
         /\ Has(Ensure(st, k), ShortIdOf[k])
         /\ ~Has(st, ShortIdOf[k]) =>
              Ensure(st, k).accounts[ShortIdOf[k]] = NewAccount(k, 0)
<1> DEFINE sid == ShortIdOf[k]
           new == SetAccount(st, sid, NewAccount(k, 0))
<1>1. sid \in ShortId /\ NewAccount(k, 0) \in Account
  BY KeyAssumption, NumberAssumption, NewAccountType DEF Amount
<1>2. CASE Has(st, sid)
  BY <1>2 DEF Ensure, SameKeys
<1>3. CASE ~Has(st, sid)
  <2>1. /\ new \in State
        /\ new.accounts = [st.accounts EXCEPT ![sid] = NewAccount(k, 0)]
        /\ new.refs = st.refs /\ Has(new, sid)
    BY <1>1, <1>3, SetAccountGrows
  <2>2. st.accounts \in [ShortId -> Account \cup {NoAccount}]
    BY DEF State
  <2>3. Ensure(st, k) = new
    BY <1>3 DEF Ensure, EnsureFresh
  <2>4. \A s \in ShortId : s # sid => new.accounts[s] = st.accounts[s]
    BY <2>1, <2>2
  <2>5. new.accounts[sid] = NewAccount(k, 0)
    BY <2>1, <2>2, <1>1
  <2> QED
    BY <1>3, <2>1, <2>3, <2>4, <2>5 DEF SameKeys, Has
<1> QED
  BY <1>2, <1>3

\* Spending a nonce writes the nonce of one account.
LEMMA BumpSpends ==
  ASSUME NEW st \in State, NEW sid \in ShortId, Has(st, sid)
  PROVE  /\ Bump(st, sid) \in State /\ Grows(st, Bump(st, sid))
         /\ Bump(st, sid).refs = st.refs
         /\ \A s \in ShortId : Has(Bump(st, sid), s) <=> Has(st, s)
         /\ \A s \in ShortId : Has(st, s) =>
              Bump(st, sid).accounts[s].pq = st.accounts[s].pq
         /\ \/ st.accounts[sid].nonce < Bump(st, sid).accounts[sid].nonce
            \/ st.accounts[sid].nonce = MaxNonce
<1> DEFINE acc == [st.accounts[sid] EXCEPT !.nonce = NextNonce(@)]
<1>1. /\ acc \in Account /\ acc.pubkey = st.accounts[sid].pubkey
      /\ acc.nonce = NextNonce(st.accounts[sid].nonce)
      /\ acc.pq = st.accounts[sid].pq
  BY AccountFields, NextNonceType DEF Account
<1>2. Bump(st, sid) = SetAccount(st, sid, acc)
  BY DEF Bump, SetAccount, State
<1>3. /\ acc.nonce >= st.accounts[sid].nonce
      /\ st.accounts[sid].nonce < acc.nonce \/ st.accounts[sid].nonce = MaxNonce
  BY <1>1, AccountFields, NextNonceType
<1> HIDE DEF acc
<1>4. /\ SetAccount(st, sid, acc) \in State
      /\ SetAccount(st, sid, acc).accounts = [st.accounts EXCEPT ![sid] = acc]
      /\ SetAccount(st, sid, acc).refs = st.refs
      /\ Has(SetAccount(st, sid, acc), sid)
      /\ Grows(st, SetAccount(st, sid, acc))
  BY <1>1, <1>3, SetAccountGrows
<1>5. st.accounts \in [ShortId -> Account \cup {NoAccount}]
  BY DEF State
<1>6. /\ SetAccount(st, sid, acc).accounts[sid] = acc
      /\ \A s \in ShortId : s # sid =>
           SetAccount(st, sid, acc).accounts[s] = st.accounts[s]
  BY <1>4, <1>5
<1>7. \A s \in ShortId : Has(SetAccount(st, sid, acc), s) <=> Has(st, s)
  BY <1>4, <1>6 DEF Has
<1> QED
  BY <1>1, <1>2, <1>3, <1>4, <1>6, <1>7

-----------------------------------------------------------------------------
(* What apply_tx accepts and what it leaves *)

\* A transaction of which st has no record: its nonce is the next one of its
\* sender, its external_ref is unused, its PQ key is the bound one.
Fresh(st, tx) ==
  /\ Has(st, Sender(tx)) => st.accounts[Sender(tx)].nonce = tx.nonce
  /\ tx.type = "Mint" => tx.ref \notin st.refs
  /\ IsSpend(tx) =>
       /\ tx.from = Sender(tx)
       /\ st.accounts[tx.from].pq # NoPq => tx.env.pq = st.accounts[tx.from].pq

\* What the proof of a step needs to know of an outcome.
Good(st, tx, r) ==
  /\ r.st \in State
  /\ Grows(st, r.st)
  /\ r.ok => Fresh(st, tx) /\ Recorded(r.st, tx)

\* A record stays when the state grows.
LEMMA RecordedPersists ==
  ASSUME NEW st \in State, NEW new \in State, NEW tx \in Tx,
         Recorded(st, tx), Grows(st, new)
  PROVE  Recorded(new, tx)
<1>1. Sender(tx) \in ShortId /\ tx.nonce \in Nonce
  BY TxFields
<1>2. /\ Has(st, Sender(tx)) /\ Has(new, Sender(tx))
      /\ new.accounts[Sender(tx)].nonce >= st.accounts[Sender(tx)].nonce
      /\ st.accounts[Sender(tx)].pq # NoPq =>
           new.accounts[Sender(tx)].pq = st.accounts[Sender(tx)].pq
      /\ st.refs \subseteq new.refs
  BY <1>1 DEF Recorded, NonceSpent, Grows
<1>3. /\ st.accounts[Sender(tx)].nonce \in Nat
      /\ new.accounts[Sender(tx)].nonce \in Nat
  BY <1>1, <1>2, AccountFields DEF Nonce
<1>4. NonceSpent(new, tx)
  BY <1>1, <1>2, <1>3 DEF Recorded, NonceSpent, Nonce
<1>5. RefSpent(new, tx) /\ KeyBound(new, tx)
  BY <1>2 DEF Recorded, RefSpent, KeyBound
<1> QED
  BY <1>4, <1>5 DEF Recorded

\* A debit takes what is there, spends the nonce and binds the key.
LEMMA DebitSpends ==
  ASSUME NEW st \in State, NEW tx \in Tx, IsSpend(tx), Verified(tx),
         CanPay(st, tx), PqPasses(st, tx)
  PROVE  /\ Good(st, tx, Outcome(TRUE, Debit(st, tx)))
         /\ \A s \in ShortId : Has(st, s) => Has(Debit(st, tx), s)
<1> DEFINE old == st.accounts[tx.from]
           acc == [old EXCEPT !.balance = @ - (tx.amount + Fee(tx)),
                              !.nonce = NextNonce(@),
                              !.pq = IF NeedsPq(st, tx) THEN tx.env.pq ELSE @]
           new == SetAccount(st, tx.from, acc)
<1>1. /\ tx.from \in ShortId /\ tx.from = Sender(tx) /\ tx.type # "Mint"
      /\ tx.env.pq \in PqKey \cup {NoPq}
      /\ tx.amount \in Amount /\ Fee(tx) \in Amount
  BY TxFields DEF Verified, IsSpend
<1>2. /\ Has(st, tx.from) /\ old.balance >= tx.amount + Fee(tx)
      /\ old.nonce = tx.nonce
      /\ old \in Account /\ old.balance \in Amount /\ old.nonce \in Nonce
      /\ old.pq \in PqKey \cup {NoPq}
  BY <1>1, AccountFields DEF CanPay
<1>3. old.balance - (tx.amount + Fee(tx)) \in Amount
  BY <1>1, <1>2, NumberAssumption DEF Amount
<1>4. /\ acc \in Account /\ acc.pubkey = old.pubkey
      /\ acc.nonce = NextNonce(old.nonce)
      /\ acc.pq = IF NeedsPq(st, tx) THEN tx.env.pq ELSE old.pq
  BY <1>1, <1>2, <1>3, NextNonceType DEF Account
<1>5. /\ acc.nonce >= old.nonce
      /\ old.nonce < acc.nonce \/ old.nonce = MaxNonce
  BY <1>2, <1>4, NextNonceType
<1>6. /\ old.pq # NoPq => acc.pq = old.pq /\ tx.env.pq = old.pq
      /\ LargeSpend(tx) => tx.env.pq # NoPq /\ acc.pq = tx.env.pq
  BY <1>4 DEF PqPasses, NeedsPq
<1>7. Debit(st, tx) = new
  BY DEF Debit
<1> HIDE DEF acc
<1>8. /\ new \in State /\ Grows(st, new) /\ Has(new, tx.from)
      /\ new.accounts = [st.accounts EXCEPT ![tx.from] = acc]
      /\ new.refs = st.refs
  BY <1>1, <1>4, <1>5, <1>6, SetAccountGrows
<1>9. new.accounts[tx.from] = acc
  BY <1>1, <1>8 DEF State
<1>10. Fresh(st, tx)
  BY <1>1, <1>2, <1>6 DEF Fresh
<1>11. Recorded(new, tx)
  <2>1. NonceSpent(new, tx)
    BY <1>1, <1>2, <1>5, <1>8, <1>9 DEF NonceSpent
  <2>2. RefSpent(new, tx) /\ KeyBound(new, tx)
    BY <1>1, <1>6, <1>9 DEF RefSpent, KeyBound
  <2> QED
    BY <2>1, <2>2 DEF Recorded
<1> QED
  BY <1>7, <1>8, <1>10, <1>11 DEF Good, Outcome, Grows

\* What does not touch nonces, keys and refs keeps an outcome good.
LEMMA GoodThenKept ==
  ASSUME NEW st \in State, NEW mid \in State, NEW new \in State, NEW tx \in Tx,
         Good(st, tx, Outcome(TRUE, mid)), SameKeys(mid, new), NEW ok \in BOOLEAN
  PROVE  Good(st, tx, Outcome(ok, new))
<1>1. Grows(st, mid) /\ Fresh(st, tx) /\ Recorded(mid, tx)
  BY DEF Good, Outcome
<1>2. Grows(mid, new)
  BY SameKeysGrows
<1>3. Grows(st, new) /\ Recorded(new, tx)
  BY <1>1, <1>2, GrowsTransitive, RecordedPersists
<1> QED
  BY <1>1, <1>3 DEF Good, Outcome

\* An error before the first write leaves a good outcome.
LEMMA Refused ==
  ASSUME NEW st \in State, NEW tx
  PROVE  Good(st, tx, Outcome(FALSE, st))
BY GrowsReflexive DEF Good, Outcome

\* A transfer is good also when its payee is unknown and only the debit stays.
LEMMA TransferGood ==
  ASSUME NEW st \in State, NEW tx \in Tx, Verified(tx), tx.type = "Transfer"
  PROVE  Good(st, tx, ApplyTransfer(st, tx))
<1>1. CASE ~(CanPay(st, tx) /\ PqPasses(st, tx))
  BY <1>1, Refused DEF ApplyTransfer
<1>2. CASE CanPay(st, tx) /\ PqPasses(st, tx)
  <2> DEFINE mid == Debit(st, tx)
  <2>1. Good(st, tx, Outcome(TRUE, mid)) /\ mid \in State
    BY <1>2, DebitSpends DEF IsSpend, Good, Outcome
  <2>2. Good(st, tx, Outcome(FALSE, mid))
    BY <2>1 DEF Good, Outcome
  <2>3. ASSUME Has(mid, tx.to)
        PROVE  Good(st, tx, Outcome(TRUE, Credit(mid, tx.to, tx.amount)))
    <3>1. tx.to \in ShortId /\ tx.amount \in Amount
      BY TxFields
    <3>2. /\ Credit(mid, tx.to, tx.amount) \in State
          /\ SameKeys(mid, Credit(mid, tx.to, tx.amount))
      BY <2>1, <2>3, <3>1, CreditKeeps
    <3> QED
      BY <2>1, <3>2, GoodThenKept
  <2> QED
    BY <1>2, <2>2, <2>3 DEF ApplyTransfer
<1> QED
  BY <1>1, <1>2

\* A burn writes nothing before it is certain to succeed.
LEMMA BurnGood ==
  ASSUME NEW st \in State, NEW tx \in Tx, Verified(tx), tx.type = "Burn"
  PROVE  Good(st, tx, ApplyBurn(st, tx))
<1>1. CASE ~(tx.hint /\ CanPay(st, tx) /\ PqPasses(st, tx))
  BY <1>1, Refused DEF ApplyBurn
<1>2. CASE tx.hint /\ CanPay(st, tx) /\ PqPasses(st, tx)
  <2> DEFINE mid == Debit(st, tx)
             left == IF mid.supply > tx.amount THEN mid.supply - tx.amount ELSE 0
             new == [mid EXCEPT !.supply = left]
  <2>1. Good(st, tx, Outcome(TRUE, mid)) /\ mid \in State
    BY <1>2, DebitSpends DEF IsSpend, Good, Outcome
  <2>2. tx.amount \in Amount /\ mid.supply \in Amount
    BY <2>1, TxFields DEF State
  <2>3. left \in Amount
    BY <2>2, NumberAssumption DEF Amount
  <2> HIDE DEF left, mid
  <2>4. new \in State /\ new.accounts = mid.accounts /\ new.refs = mid.refs
    BY <2>1, <2>3 DEF State
  <2>5. SameKeys(mid, new)
    BY <2>4 DEF SameKeys, Has
  <2>6. Good(st, tx, Outcome(TRUE, new))
    BY <2>1, <2>4, <2>5, GoodThenKept
  <2>7. ApplyBurn(st, tx) = Outcome(TRUE, new)
    BY <1>2 DEF ApplyBurn, left, mid
  <2> QED
    BY <2>6, <2>7
<1> QED
  BY <1>1, <1>2

\* A registration that fails on its nonce leaves at most a new account.
LEMMA RegisterGood ==
  ASSUME NEW st \in State, NEW tx \in Tx, Verified(tx), tx.type = "Register"
  PROVE  Good(st, tx, ApplyRegister(st, tx))
<1> DEFINE sid == Sender(tx)
           reg == Ensure(st, tx.pubkey)
           taken == Has(st, sid) /\ \/ st.accounts[sid].pubkey # tx.pubkey
                                    \/ st.accounts[sid].nonce # 0
                                    \/ tx.nonce # 0
<1>1. /\ tx.pubkey \in Key /\ sid = ShortIdOf[tx.pubkey] /\ sid \in ShortId
      /\ tx.nonce \in Nonce
  BY TxFields DEF Verified, Sender
<1>2. reg \in State /\ SameKeys(st, reg) /\ Has(reg, sid) /\ Grows(st, reg)
  BY <1>1, EnsureKeeps, SameKeysGrows
<1>3. CASE taken
  BY <1>3, Refused DEF ApplyRegister
<1>4. CASE ~taken /\ reg.accounts[sid].nonce # tx.nonce
  BY <1>4, <1>2 DEF ApplyRegister, Good, Outcome
<1>5. CASE ~taken /\ reg.accounts[sid].nonce = tx.nonce
  <2> DEFINE new == Bump(reg, sid)
  <2>1. /\ new \in State /\ Grows(reg, new) /\ Has(new, sid)
        /\ tx.nonce < new.accounts[sid].nonce \/ tx.nonce = MaxNonce
    BY <1>1, <1>2, <1>5, BumpSpends
  <2>2. Grows(st, new)
    BY <1>2, <2>1, GrowsTransitive
  <2>3. Has(st, sid) => st.accounts[sid].nonce = tx.nonce
    BY <1>1, <1>5
  <2>4. Fresh(st, tx) /\ Recorded(new, tx)
    BY <2>1, <2>3
    DEF Fresh, Recorded, NonceSpent, RefSpent, KeyBound, IsSpend
  <2>5. ApplyRegister(st, tx) = Outcome(TRUE, new)
    BY <1>5 DEF ApplyRegister
  <2> QED
    BY <2>1, <2>2, <2>4, <2>5 DEF Good, Outcome
<1> QED
  BY <1>3, <1>4, <1>5

\* A mint that fails on its recipient has spent the minter's nonce only.
LEMMA MintGood ==
  ASSUME NEW st \in State, NEW tx \in Tx, Verified(tx), tx.type = "Mint"
  PROVE  Good(st, tx, ApplyMint(st, tx))
<1> DEFINE sid == Sender(tx)
           bumped == Bump(st, sid)
           known == IF Has(st, tx.to) THEN bumped ELSE Ensure(bumped, tx.pubkey)
           paid == Credit(known, tx.to, tx.amount)
           new == [paid EXCEPT !.supply = SatAdd(@, tx.amount),
                               !.refs = @ \cup {tx.ref}]
<1>1. /\ sid \in ShortId /\ tx.to \in ShortId /\ tx.amount \in Amount
      /\ tx.ref \in Ref /\ tx.pubkey \in Key \cup {NoKey}
  BY TxFields
<1>2. CASE ~MayMint(st, tx)
  BY <1>2, Refused DEF ApplyMint
<1>3. CASE MayMint(st, tx)
  <2>1. /\ tx.ref \notin st.refs /\ Has(st, sid)
        /\ st.accounts[sid].nonce = tx.nonce
    BY <1>3 DEF MayMint, FreshRef
  <2>2. /\ bumped \in State /\ Grows(st, bumped) /\ bumped.refs = st.refs
        /\ \A s \in ShortId : Has(bumped, s) <=> Has(st, s)
        /\ Has(bumped, sid)
        /\ tx.nonce < bumped.accounts[sid].nonce \/ tx.nonce = MaxNonce
    BY <1>1, <2>1, BumpSpends
  <2>3. CASE ~Recipient(bumped, tx)
    BY <1>3, <2>2, <2>3 DEF ApplyMint, Good, Outcome
  <2>4. CASE Recipient(bumped, tx)
    <3>1. known \in State /\ SameKeys(bumped, known) /\ Has(known, tx.to)
      <4>1. CASE Has(st, tx.to)
        BY <1>1, <2>2, <4>1 DEF SameKeys
      <4>2. CASE ~Has(st, tx.to)
        BY <1>1, <2>2, <2>4, <4>2, EnsureKeeps DEF Recipient
      <4> QED
        BY <4>1, <4>2
    <3> HIDE DEF known
    <3>2. paid \in State /\ SameKeys(known, paid)
      BY <1>1, <3>1, CreditKeeps
    <3> HIDE DEF paid, bumped
    <3>3. /\ new \in State /\ new.accounts = paid.accounts
          /\ new.refs = paid.refs \cup {tx.ref}
      BY <1>1, <3>2, SatAddType DEF State
    <3>4. Grows(bumped, known) /\ Grows(known, paid)
      BY <2>2, <3>1, <3>2, SameKeysGrows
    <3>5. Grows(paid, new)
      BY <3>2, <3>3, GrowsReflexive DEF Grows, Has
    <3>6. Grows(st, new) /\ Grows(bumped, new)
      BY <2>2, <3>1, <3>2, <3>3, <3>4, <3>5, GrowsTransitive
    <3>7. /\ Has(new, sid) /\ new.accounts[sid].nonce = bumped.accounts[sid].nonce
      BY <1>1, <2>2, <3>1, <3>2, <3>3 DEF SameKeys, Has
    <3>8. Fresh(st, tx) /\ Recorded(new, tx)
      BY <2>1, <2>2, <3>3, <3>7
      DEF Fresh, Recorded, NonceSpent, RefSpent, KeyBound, IsSpend
    <3>9. ApplyMint(st, tx) = Outcome(TRUE, new)
      BY <1>3, <2>4 DEF ApplyMint, known, paid, bumped
    <3> QED
      BY <3>3, <3>6, <3>8, <3>9 DEF Good, Outcome
  <2> QED
    BY <2>3, <2>4
<1> QED
  BY <1>2, <1>3

\* Every outcome of apply_tx is good, whatever it is given.
LEMMA ApplyTxGood ==
  ASSUME NEW st \in State, NEW tx \in Tx
  PROVE  Good(st, tx, ApplyTx(st, tx))
<1>1. CASE ~Verified(tx)
  BY <1>1, Refused DEF ApplyTx
<1>2. CASE Verified(tx)
  BY <1>2, TxFields, TransferGood, BurnGood, RegisterGood, MintGood DEF ApplyTx
<1> QED
  BY <1>1, <1>2

\* Paying the producer writes balances only.
LEMMA PayProducerKeeps ==
  ASSUME NEW st \in State, NEW k \in Key, NEW x \in Amount
  PROVE  /\ PayProducer(st, k, x) \in State
         /\ SameKeys(st, PayProducer(st, k, x))
<1> DEFINE mid == Ensure(st, k)
<1>1. mid \in State /\ SameKeys(st, mid) /\ Has(mid, ShortIdOf[k])
  BY EnsureKeeps
<1>2. /\ Credit(mid, ShortIdOf[k], x) \in State
      /\ SameKeys(mid, Credit(mid, ShortIdOf[k], x))
  BY <1>1, CreditKeeps, KeyAssumption
<1> QED
  BY <1>1, <1>2 DEF PayProducer, SameKeys

\* So does every turn of apply_block's loop, and the reward.
LEMMA ApplyInBlockGood ==
  ASSUME NEW st \in State, NEW tx \in Tx, NEW k \in Key
  PROVE  Good(st, tx, ApplyInBlock(st, tx, k))
<1> DEFINE r == ApplyTx(st, tx)
<1>1. Good(st, tx, r)
  BY ApplyTxGood
<1>2. CASE ~r.ok
  BY <1>1, <1>2 DEF ApplyInBlock
<1>3. CASE r.ok
  <2>1. r.st \in State /\ Good(st, tx, Outcome(TRUE, r.st))
    BY <1>1, <1>3 DEF Good, Outcome
  <2>2. /\ PayProducer(r.st, k, Fee(tx)) \in State
        /\ SameKeys(r.st, PayProducer(r.st, k, Fee(tx)))
    BY <2>1, PayProducerKeeps, TxFields
  <2>3. Good(st, tx, Outcome(TRUE, PayProducer(r.st, k, Fee(tx))))
    BY <2>1, <2>2, GoodThenKept
  <2> QED
    BY <1>3, <2>3 DEF ApplyInBlock
<1> QED
  BY <1>2, <1>3

\* The reward writes the producer's balance and the supply.
LEMMA RewardKeeps ==
  ASSUME NEW st \in State, NEW k \in Key, NEW h \in Nat
  PROVE  Reward(st, k, h) \in State /\ SameKeys(st, Reward(st, k, h))
<1> DEFINE mid == PayProducer(st, k, BlockReward)
           new == [mid EXCEPT !.supply = SatAdd(@, BlockReward)]
<1>1. mid \in State /\ SameKeys(st, mid)
  BY PayProducerKeeps, NumberAssumption
<1> HIDE DEF mid
<1>2. new \in State /\ new.accounts = mid.accounts /\ new.refs = mid.refs
  BY <1>1, SatAddType, NumberAssumption DEF State
<1>3. SameKeys(st, new)
  BY <1>1, <1>2 DEF SameKeys, Has
<1>4. SameKeys(st, st)
  BY DEF SameKeys
<1> QED
  BY <1>2, <1>3, <1>4 DEF Reward, mid

\* An outcome is a verdict and a state.
OutcomeSet == [ok : BOOLEAN, st : State]

\* apply_tx and a turn of apply_block's loop return one.
LEMMA OutcomeType ==
  ASSUME NEW st \in State, NEW tx \in Tx, NEW k \in Key
  PROVE  ApplyTx(st, tx) \in OutcomeSet /\ ApplyInBlock(st, tx, k) \in OutcomeSet
<1>1. \E ok \in BOOLEAN : \E s : ApplyTx(st, tx) = Outcome(ok, s)
  <2>1. \E ok \in BOOLEAN : \E s : ApplyTransfer(st, tx) = Outcome(ok, s)
    BY DEF ApplyTransfer
  <2>2. \E ok \in BOOLEAN : \E s : ApplyBurn(st, tx) = Outcome(ok, s)
    BY DEF ApplyBurn
  <2>3. \E ok \in BOOLEAN : \E s : ApplyRegister(st, tx) = Outcome(ok, s)
    BY DEF ApplyRegister
  <2>4. \E ok \in BOOLEAN : \E s : ApplyMint(st, tx) = Outcome(ok, s)
    BY DEF ApplyMint
  <2> QED
    BY <2>1, <2>2, <2>3, <2>4, TxFields DEF ApplyTx
<1>2. ApplyTx(st, tx).st \in State /\ ApplyInBlock(st, tx, k).st \in State
  BY ApplyTxGood, ApplyInBlockGood DEF Good
<1>3. ApplyTx(st, tx) \in OutcomeSet
  BY <1>1, <1>2 DEF Outcome, OutcomeSet
<1>4. \E ok \in BOOLEAN : \E s : ApplyInBlock(st, tx, k) = Outcome(ok, s)
  BY <1>1 DEF ApplyInBlock
<1> QED
  BY <1>2, <1>3, <1>4 DEF Outcome, OutcomeSet

\* A transaction on record does not apply again, below the last nonce.
LEMMA SpentIsRefused ==
  ASSUME NEW st \in State, NEW tx \in Tx, tx.nonce < MaxNonce, Recorded(st, tx)
  PROVE  ~CanApply(st, tx)
<1>1. /\ Has(st, Sender(tx))
      /\ tx.nonce < st.accounts[Sender(tx)].nonce \/ tx.nonce = MaxNonce
      /\ tx.nonce \in Nat /\ Sender(tx) \in ShortId
  BY TxFields DEF Recorded, NonceSpent, Nonce
<1>2. st.accounts[Sender(tx)].nonce \in Nat
  BY <1>1, NumberAssumption, AccountFields DEF Recorded, NonceSpent, Nonce
<1>3. ApplyTx(st, tx).ok => st.accounts[Sender(tx)].nonce = tx.nonce
  BY ApplyTxGood DEF Good, Fresh, Recorded, NonceSpent
<1> QED
  BY <1>1, <1>2, <1>3, NumberAssumption DEF CanApply, Recorded, NonceSpent

-----------------------------------------------------------------------------
(* Where value goes: the balances added up, and the supply                 *)

Balances(st) == [sid \in ShortId |-> BalanceOf(st, sid)]

\* Balances are amounts, and none exceeds their total.
LEMMA TotalType ==
  ASSUME NEW st \in State
  PROVE  /\ st.supply \in Amount /\ TotalBalance(st) \in Nat
         /\ \A sid \in ShortId : /\ BalanceOf(st, sid) \in Amount
                                 /\ BalanceOf(st, sid) <= TotalBalance(st)
<1> DEFINE f == Balances(st)
<1>1. \A sid \in ShortId : BalanceOf(st, sid) \in Amount
  BY AccountFields, NumberAssumption DEF BalanceOf, Amount
<1>2. DOMAIN f = ShortId /\ \A sid \in ShortId : f[sid] = BalanceOf(st, sid)
  BY DEF Balances
<1>3. IsFiniteSet(DOMAIN f) /\ \A sid \in DOMAIN f : f[sid] \in Nat
  BY <1>1, <1>2, KeyAssumption DEF Amount
<1>4. TotalBalance(st) = SumFunction(f)
  BY DEF TotalBalance, Balances
<1>5. SumFunction(f) \in Nat /\ \A sid \in DOMAIN f : f[sid] <= SumFunction(f)
  <2> HIDE DEF f
  <2> QED
    BY <1>3, SumOfNaturals
<1> QED
  BY <1>1, <1>2, <1>4, <1>5 DEF State

\* Where one account is written, the total follows its balance.
LEMMA WriteTotal ==
  ASSUME NEW st \in State, NEW sid \in ShortId, NEW acc \in Account
  PROVE  /\ SetAccount(st, sid, acc) \in State
         /\ SetAccount(st, sid, acc).supply = st.supply
         /\ TotalBalance(SetAccount(st, sid, acc))
              = TotalBalance(st) - BalanceOf(st, sid) + acc.balance
<1> DEFINE new == SetAccount(st, sid, acc)
<1>1. /\ new.accounts = [st.accounts EXCEPT ![sid] = acc]
      /\ new.refs = st.refs /\ new.supply = st.supply
      /\ new = [accounts |-> [st.accounts EXCEPT ![sid] = acc],
                supply |-> st.supply, refs |-> st.refs]
  BY DEF SetAccount, State
<1>2. new \in State
  BY <1>1 DEF State
<1>3. acc # NoAccount
  BY KeyAssumption
<1>4. /\ new.accounts[sid] = acc
      /\ \A s \in ShortId : s # sid => new.accounts[s] = st.accounts[s]
  BY <1>1 DEF State
<1> DEFINE f == Balances(st)
           h == Balances(new)
<1>5. /\ BalanceOf(new, sid) = acc.balance
      /\ \A s \in ShortId : s # sid => BalanceOf(new, s) = BalanceOf(st, s)
  BY <1>3, <1>4 DEF BalanceOf, Has
<1>6. /\ \A s \in ShortId : BalanceOf(st, s) \in Int /\ BalanceOf(new, s) \in Int
  BY <1>2, TotalType DEF Amount
<1> HIDE DEF new
<1>7. /\ IsFiniteSet(DOMAIN f) /\ DOMAIN h = DOMAIN f /\ sid \in DOMAIN f
      /\ \A s \in DOMAIN f : f[s] \in Int /\ h[s] \in Int
      /\ \A s \in DOMAIN f : s # sid => h[s] = f[s]
      /\ f[sid] = BalanceOf(st, sid) /\ h[sid] = acc.balance
  BY <1>5, <1>6, KeyAssumption DEF Balances
<1>8. TotalBalance(st) = SumFunction(f) /\ TotalBalance(new) = SumFunction(h)
  BY DEF TotalBalance, Balances
<1>9. SumFunction(h) = SumFunction(f) - f[sid] + h[sid]
  <2> HIDE DEF f, h
  <2> QED
    BY <1>7, SumChanges
<1> QED
  BY <1>1, <1>2, <1>7, <1>8, <1>9 DEF new

\* A credit adds at most what is paid, and all of it below the limit.
LEMMA CreditTotal ==
  ASSUME NEW st \in State, NEW sid \in ShortId, Has(st, sid), NEW x \in Amount
  PROVE  /\ Credit(st, sid, x).supply = st.supply
         /\ TotalBalance(Credit(st, sid, x)) <= TotalBalance(st) + x
         /\ TotalBalance(st) + x <= MaxU64 =>
              TotalBalance(Credit(st, sid, x)) = TotalBalance(st) + x
<1> DEFINE acc == [st.accounts[sid] EXCEPT !.balance = SatAdd(@, x)]
<1>1. /\ acc \in Account /\ acc.balance = SatAdd(st.accounts[sid].balance, x)
  BY AccountFields, SatAddType DEF Account
<1>2. Credit(st, sid, x) = SetAccount(st, sid, acc)
  BY DEF Credit, SetAccount, State
<1> HIDE DEF acc
<1>3. /\ SetAccount(st, sid, acc).supply = st.supply
      /\ TotalBalance(SetAccount(st, sid, acc))
           = TotalBalance(st) - BalanceOf(st, sid) + acc.balance
  BY <1>1, WriteTotal
<1>4. /\ BalanceOf(st, sid) = st.accounts[sid].balance /\ BalanceOf(st, sid) \in Amount
      /\ BalanceOf(st, sid) <= TotalBalance(st) /\ TotalBalance(st) \in Nat
  BY TotalType DEF BalanceOf
<1> QED
  BY <1>1, <1>2, <1>3, <1>4, NumberAssumption DEF SatAdd, Amount

\* Spending a nonce moves no value.
LEMMA BumpTotal ==
  ASSUME NEW st \in State, NEW sid \in ShortId, Has(st, sid)
  PROVE  /\ Bump(st, sid).supply = st.supply
         /\ TotalBalance(Bump(st, sid)) = TotalBalance(st)
<1> DEFINE acc == [st.accounts[sid] EXCEPT !.nonce = NextNonce(@)]
<1>1. acc \in Account /\ acc.balance = st.accounts[sid].balance
  BY AccountFields, NextNonceType DEF Account
<1>2. Bump(st, sid) = SetAccount(st, sid, acc)
  BY DEF Bump, SetAccount, State
<1> HIDE DEF acc
<1>3. /\ SetAccount(st, sid, acc).supply = st.supply
      /\ TotalBalance(SetAccount(st, sid, acc))
           = TotalBalance(st) - BalanceOf(st, sid) + acc.balance
  BY <1>1, WriteTotal
<1>4. /\ BalanceOf(st, sid) = st.accounts[sid].balance /\ BalanceOf(st, sid) \in Amount
      /\ TotalBalance(st) \in Nat
  BY TotalType DEF BalanceOf
<1> QED
  BY <1>1, <1>2, <1>3, <1>4 DEF Amount

\* A new account holds nothing.
LEMMA EnsureTotal ==
  ASSUME NEW st \in State, NEW k \in Key
  PROVE  /\ Ensure(st, k).supply = st.supply
         /\ TotalBalance(Ensure(st, k)) = TotalBalance(st)
<1> DEFINE sid == ShortIdOf[k]
           acc == NewAccount(k, 0)
<1>1. sid \in ShortId /\ acc \in Account /\ acc.balance = 0
  BY KeyAssumption, NumberAssumption, NewAccountType DEF Amount, NewAccount
<1>2. CASE Has(st, sid)
  BY <1>2 DEF Ensure
<1>3. CASE ~Has(st, sid)
  <2>1. /\ SetAccount(st, sid, acc).supply = st.supply
        /\ TotalBalance(SetAccount(st, sid, acc))
             = TotalBalance(st) - BalanceOf(st, sid) + acc.balance
    BY <1>1, WriteTotal
  <2>2. BalanceOf(st, sid) = 0 /\ TotalBalance(st) \in Nat
    BY <1>3, TotalType DEF BalanceOf
  <2>3. Ensure(st, k) = SetAccount(st, sid, acc)
    BY <1>3 DEF Ensure, EnsureFresh
  <2> QED
    BY <1>1, <2>1, <2>2, <2>3
<1> QED
  BY <1>2, <1>3

\* A debit takes the amount and the tip.
LEMMA DebitTotal ==
  ASSUME NEW st \in State, NEW tx \in Tx, IsSpend(tx), CanPay(st, tx)
  PROVE  /\ Debit(st, tx).supply = st.supply
         /\ TotalBalance(Debit(st, tx)) = TotalBalance(st) - (tx.amount + Fee(tx))
         /\ tx.amount + Fee(tx) <= TotalBalance(st)
<1> DEFINE old == st.accounts[tx.from]
           acc == [old EXCEPT !.balance = @ - (tx.amount + Fee(tx)),
                              !.nonce = NextNonce(@),
                              !.pq = IF NeedsPq(st, tx) THEN tx.env.pq ELSE @]
<1>1. /\ tx.from \in ShortId /\ tx.env.pq \in PqKey \cup {NoPq}
      /\ tx.amount \in Amount /\ Fee(tx) \in Amount
  BY TxFields DEF IsSpend
<1>2. /\ Has(st, tx.from) /\ old.balance >= tx.amount + Fee(tx)
      /\ old \in Account /\ old.balance \in Amount /\ old.nonce \in Nonce
  BY <1>1, AccountFields DEF CanPay
<1>3. old.balance - (tx.amount + Fee(tx)) \in Amount
  BY <1>1, <1>2, NumberAssumption DEF Amount
<1>4. acc \in Account /\ acc.balance = old.balance - (tx.amount + Fee(tx))
  BY <1>1, <1>2, <1>3, NextNonceType DEF Account
<1>5. Debit(st, tx) = SetAccount(st, tx.from, acc)
  BY DEF Debit
<1> HIDE DEF acc
<1>6. /\ SetAccount(st, tx.from, acc).supply = st.supply
      /\ TotalBalance(SetAccount(st, tx.from, acc))
           = TotalBalance(st) - BalanceOf(st, tx.from) + acc.balance
  BY <1>1, <1>4, WriteTotal
<1>7. /\ BalanceOf(st, tx.from) = old.balance /\ old.balance <= TotalBalance(st)
      /\ TotalBalance(st) \in Nat
  BY <1>1, <1>2, TotalType DEF BalanceOf
<1> QED
  BY <1>1, <1>2, <1>4, <1>5, <1>6, <1>7 DEF Amount

\* What a transaction does to balances and supply, below the limit of both:
\* nothing is created, the tip is left for the producer, and an effect keeps
\* the books exact.
Accounted(st, tx, r) ==
  TotalBalance(st) <= st.supply /\ r.st.supply < MaxU64 =>
    /\ TotalBalance(r.st) + (IF r.ok THEN Fee(tx) ELSE 0) <= r.st.supply
    /\ r.ok /\ TotalBalance(st) = st.supply => TotalBalance(r.st) + Fee(tx) = r.st.supply

\* A refused transaction moves nothing.
LEMMA RefusedAccounted ==
  ASSUME NEW st \in State, NEW new \in State, NEW tx,
         new.supply = st.supply, TotalBalance(new) <= TotalBalance(st)
  PROVE  Accounted(st, tx, Outcome(FALSE, new))
<1>1. /\ TotalBalance(st) \in Int /\ TotalBalance(new) \in Int
      /\ st.supply \in Int /\ new.supply \in Int
  BY TotalType DEF Amount
<1>2. TotalBalance(st) <= st.supply => TotalBalance(new) <= new.supply /\ TotalBalance(new) + 0 <= new.supply
  BY <1>1
<1>3. Outcome(FALSE, new).st = new /\ ~Outcome(FALSE, new).ok
  BY DEF Outcome
<1> QED
  BY <1>2, <1>3 DEF Accounted

\* Nor does it when it leaves the state as it was.
LEMMA UntouchedAccounted ==
  ASSUME NEW st \in State, NEW tx
  PROVE  Accounted(st, tx, Outcome(FALSE, st))
<1>1. TotalBalance(st) \in Int /\ TotalBalance(st) <= TotalBalance(st)
  BY TotalType
<1> QED
  BY <1>1, RefusedAccounted

\* An effect that moves as much balance as supply.
LEMMA EffectAccounted ==
  ASSUME NEW st \in State, NEW new \in State, NEW tx,
         TotalBalance(st) <= st.supply /\ new.supply < MaxU64 =>
           /\ TotalBalance(new) + Fee(tx) <= new.supply
           /\ TotalBalance(st) = st.supply => TotalBalance(new) + Fee(tx) = new.supply
  PROVE  Accounted(st, tx, Outcome(TRUE, new))
<1>1. Outcome(TRUE, new).st = new /\ Outcome(TRUE, new).ok
  BY DEF Outcome
<1> QED
  BY <1>1 DEF Accounted

\* A transfer to an unknown recipient loses what was debited.
LEMMA TransferAccounted ==
  ASSUME NEW st \in State, NEW tx \in Tx, Verified(tx), tx.type = "Transfer"
  PROVE  Accounted(st, tx, ApplyTransfer(st, tx))
<1>1. /\ IsSpend(tx) /\ tx.to \in ShortId /\ tx.amount \in Amount /\ Fee(tx) \in Amount
  BY TxFields DEF IsSpend
<1> DEFINE mid == Debit(st, tx)
<1>2. CASE ~(CanPay(st, tx) /\ PqPasses(st, tx))
  BY <1>2, UntouchedAccounted DEF ApplyTransfer
<1>3. CASE CanPay(st, tx) /\ PqPasses(st, tx)
  <2>1. mid \in State
    BY <1>1, <1>3, DebitSpends DEF Good, Outcome
  <2>2. /\ mid.supply = st.supply
        /\ TotalBalance(mid) = TotalBalance(st) - (tx.amount + Fee(tx))
        /\ tx.amount + Fee(tx) <= TotalBalance(st)
    BY <1>1, <1>3, DebitTotal
  <2>3. TotalBalance(mid) \in Nat /\ TotalBalance(st) \in Nat /\ st.supply \in Amount
    BY <2>1, TotalType
  <2> HIDE DEF mid
  <2>4. CASE ~Has(mid, tx.to)
    <3>1. ApplyTransfer(st, tx) = Outcome(FALSE, mid)
      BY <1>3, <2>4 DEF ApplyTransfer, mid
    <3>2. TotalBalance(mid) <= TotalBalance(st)
      BY <1>1, <2>2, <2>3 DEF Amount
    <3> QED
      BY <2>1, <2>2, <3>1, <3>2, RefusedAccounted
  <2>5. CASE Has(mid, tx.to)
    <3> DEFINE new == Credit(mid, tx.to, tx.amount)
    <3>1. ApplyTransfer(st, tx) = Outcome(TRUE, new)
      BY <1>3, <2>5 DEF ApplyTransfer, mid
    <3>2. /\ new.supply = mid.supply
          /\ TotalBalance(new) <= TotalBalance(mid) + tx.amount
          /\ TotalBalance(mid) + tx.amount <= MaxU64 =>
               TotalBalance(new) = TotalBalance(mid) + tx.amount
      BY <1>1, <2>1, <2>5, CreditTotal
    <3>3. TotalBalance(new) \in Nat
      BY <1>1, <2>1, <2>5, CreditKeeps, TotalType
    <3> HIDE DEF new
    <3>4. new \in State
      BY <1>1, <2>1, <2>5, CreditKeeps DEF new
    <3>5. /\ tx.amount \in Int /\ Fee(tx) \in Nat /\ MaxU64 \in Int /\ st.supply \in Int
          /\ TotalBalance(st) \in Int /\ TotalBalance(mid) \in Int /\ TotalBalance(new) \in Int
      BY <1>1, <2>3, <3>3, NumberAssumption DEF Amount
    <3>6. TotalBalance(st) <= st.supply /\ new.supply < MaxU64 =>
            /\ TotalBalance(new) + Fee(tx) <= new.supply
            /\ TotalBalance(st) = st.supply => TotalBalance(new) + Fee(tx) = new.supply
      BY <2>2, <3>2, <3>5
    <3> QED
      BY <3>1, <3>4, <3>6, EffectAccounted
  <2> QED
    BY <2>4, <2>5
<1> QED
  BY <1>2, <1>3

\* A burn takes from the supply what it takes from the account.
LEMMA BurnAccounted ==
  ASSUME NEW st \in State, NEW tx \in Tx, Verified(tx), tx.type = "Burn"
  PROVE  Accounted(st, tx, ApplyBurn(st, tx))
<1>1. IsSpend(tx) /\ tx.amount \in Amount /\ Fee(tx) = 0
  BY TxFields DEF IsSpend, Fee
<1> DEFINE mid == Debit(st, tx)
           new == [mid EXCEPT !.supply = IF @ > tx.amount THEN @ - tx.amount ELSE 0]
<1>2. CASE ~(tx.hint /\ CanPay(st, tx) /\ PqPasses(st, tx))
  BY <1>2, UntouchedAccounted DEF ApplyBurn
<1>3. CASE tx.hint /\ CanPay(st, tx) /\ PqPasses(st, tx)
  <2>1. mid \in State
    BY <1>1, <1>3, DebitSpends DEF Good, Outcome
  <2>2. /\ mid.supply = st.supply
        /\ TotalBalance(mid) = TotalBalance(st) - (tx.amount + Fee(tx))
        /\ tx.amount + Fee(tx) <= TotalBalance(st)
    BY <1>1, <1>3, DebitTotal
  <2>3. TotalBalance(mid) \in Nat /\ TotalBalance(st) \in Nat /\ st.supply \in Amount
    BY <2>1, TotalType
  <2> HIDE DEF mid
  <2>4. /\ new.accounts = mid.accounts
        /\ new.supply = IF mid.supply > tx.amount THEN mid.supply - tx.amount ELSE 0
    BY <2>1 DEF State
  <2>5. TotalBalance(new) = TotalBalance(mid)
    BY <2>4 DEF TotalBalance, BalanceOf, Has
  <2>6. ApplyBurn(st, tx) = Outcome(TRUE, new)
    BY <1>3 DEF ApplyBurn, mid
  <2>7. new \in State
    <3>1. new.supply \in Amount
      BY <1>1, <2>2, <2>3, <2>4, NumberAssumption DEF Amount
    <3> QED
      BY <2>1, <3>1 DEF State
  <2> HIDE DEF new
  <2>8. /\ tx.amount \in Nat /\ MaxU64 \in Int /\ st.supply \in Nat
        /\ TotalBalance(st) \in Nat /\ TotalBalance(mid) \in Nat
    BY <1>1, <2>3, NumberAssumption DEF Amount
  <2>9. TotalBalance(st) <= st.supply /\ new.supply < MaxU64 =>
          /\ TotalBalance(new) + Fee(tx) <= new.supply
          /\ TotalBalance(st) = st.supply => TotalBalance(new) + Fee(tx) = new.supply
    BY <1>1, <2>2, <2>4, <2>5, <2>8
  <2> QED
    BY <2>6, <2>7, <2>9, EffectAccounted
<1> QED
  BY <1>2, <1>3

\* A registration moves no value.
LEMMA RegisterAccounted ==
  ASSUME NEW st \in State, NEW tx \in Tx, Verified(tx), tx.type = "Register"
  PROVE  Accounted(st, tx, ApplyRegister(st, tx))
<1> DEFINE sid == Sender(tx)
           reg == Ensure(st, tx.pubkey)
           new == Bump(reg, sid)
<1>1. tx.pubkey \in Key /\ sid = ShortIdOf[tx.pubkey] /\ sid \in ShortId /\ Fee(tx) = 0
  BY TxFields DEF Verified, Sender, Fee
<1>2. reg \in State /\ Has(reg, sid) /\ reg.supply = st.supply
      /\ TotalBalance(reg) = TotalBalance(st)
  BY <1>1, EnsureKeeps, EnsureTotal
<1>3. new \in State /\ new.supply = st.supply /\ TotalBalance(new) = TotalBalance(st)
  BY <1>1, <1>2, BumpSpends, BumpTotal
<1>4. ApplyRegister(st, tx) \in
        {Outcome(FALSE, st), Outcome(FALSE, reg), Outcome(TRUE, new)}
  BY DEF ApplyRegister
<1>5. TotalBalance(st) \in Nat /\ st.supply \in Amount
  BY TotalType
<1> HIDE DEF reg, new
<1>6. Accounted(st, tx, Outcome(FALSE, st)) /\ Accounted(st, tx, Outcome(FALSE, reg))
  <2>1. TotalBalance(reg) <= TotalBalance(st)
    BY <1>2, <1>5
  <2> QED
    BY <1>2, <2>1, UntouchedAccounted, RefusedAccounted
<1>7. Accounted(st, tx, Outcome(TRUE, new))
  <2>1. TotalBalance(new) + Fee(tx) = TotalBalance(st)
    BY <1>1, <1>3, <1>5
  <2> QED
    BY <1>3, <2>1, EffectAccounted
<1> QED
  BY <1>4, <1>6, <1>7

\* A mint adds to the supply what it adds to the account.
LEMMA MintAccounted ==
  ASSUME NEW st \in State, NEW tx \in Tx, Verified(tx), tx.type = "Mint"
  PROVE  Accounted(st, tx, ApplyMint(st, tx))
<1> DEFINE sid == Sender(tx)
           bumped == Bump(st, sid)
           known == IF Has(st, tx.to) THEN bumped ELSE Ensure(bumped, tx.pubkey)
           paid == Credit(known, tx.to, tx.amount)
           new == [paid EXCEPT !.supply = SatAdd(@, tx.amount),
                               !.refs = @ \cup {tx.ref}]
<1>1. /\ sid \in ShortId /\ tx.to \in ShortId /\ tx.amount \in Amount /\ Fee(tx) = 0
      /\ tx.ref \in Ref /\ tx.pubkey \in Key \cup {NoKey}
  BY TxFields DEF Fee
<1>2. TotalBalance(st) \in Nat /\ st.supply \in Amount
  BY TotalType
<1>3. CASE ~MayMint(st, tx)
  BY <1>3, UntouchedAccounted DEF ApplyMint
<1>4. CASE MayMint(st, tx)
  <2>1. Has(st, sid)
    BY <1>4 DEF MayMint
  <2>2. /\ bumped \in State /\ bumped.supply = st.supply
        /\ TotalBalance(bumped) = TotalBalance(st)
        /\ \A s \in ShortId : Has(bumped, s) <=> Has(st, s)
    BY <1>1, <2>1, BumpSpends, BumpTotal
  <2> HIDE DEF bumped
  <2>3. CASE ~Recipient(bumped, tx)
    <3>1. ApplyMint(st, tx) = Outcome(FALSE, bumped)
      BY <1>4, <2>3 DEF ApplyMint, bumped
    <3>2. TotalBalance(bumped) <= TotalBalance(st)
      BY <1>2, <2>2
    <3> QED
      BY <2>2, <3>1, <3>2, RefusedAccounted
  <2>4. CASE Recipient(bumped, tx)
    <3>1. /\ known \in State /\ Has(known, tx.to) /\ known.supply = st.supply
          /\ TotalBalance(known) = TotalBalance(st)
      <4>1. CASE Has(st, tx.to)
        BY <1>1, <2>2, <4>1
      <4>2. CASE ~Has(st, tx.to)
        BY <1>1, <2>2, <2>4, <4>2, EnsureKeeps, EnsureTotal DEF Recipient
      <4> QED
        BY <4>1, <4>2
    <3> HIDE DEF known
    <3>2. /\ paid \in State /\ paid.supply = st.supply
          /\ TotalBalance(paid) <= TotalBalance(st) + tx.amount
          /\ TotalBalance(st) + tx.amount <= MaxU64 =>
               TotalBalance(paid) = TotalBalance(st) + tx.amount
      BY <1>1, <3>1, CreditKeeps, CreditTotal
    <3>3. TotalBalance(paid) \in Nat
      BY <3>2, TotalType
    <3> HIDE DEF paid
    <3>4. /\ new.accounts = paid.accounts
          /\ new.supply = SatAdd(paid.supply, tx.amount)
      BY <3>2 DEF State
    <3>5. TotalBalance(new) = TotalBalance(paid)
      BY <3>4 DEF TotalBalance, BalanceOf, Has
    <3>6. ApplyMint(st, tx) = Outcome(TRUE, new)
      BY <1>4, <2>4 DEF ApplyMint, known, paid, bumped
    <3>7. new \in State
      <4>1. new.supply \in Amount
        BY <1>1, <3>2, <3>4, SatAddType DEF State
      <4> QED
        BY <1>1, <3>2, <4>1 DEF State
    <3> HIDE DEF new
    <3>8. /\ tx.amount \in Nat /\ MaxU64 \in Int /\ st.supply \in Nat
          /\ TotalBalance(st) \in Nat /\ TotalBalance(paid) \in Nat
      BY <1>1, <1>2, <3>3, NumberAssumption DEF Amount
    <3>9. TotalBalance(st) <= st.supply /\ new.supply < MaxU64 =>
            /\ TotalBalance(new) + Fee(tx) <= new.supply
            /\ TotalBalance(st) = st.supply => TotalBalance(new) + Fee(tx) = new.supply
      BY <1>1, <3>2, <3>4, <3>5, <3>8 DEF SatAdd
    <3> QED
      BY <3>6, <3>7, <3>9, EffectAccounted
  <2> QED
    BY <2>3, <2>4
<1> QED
  BY <1>3, <1>4

\* So does every outcome of apply_tx keep the books.
LEMMA ApplyTxAccounted ==
  ASSUME NEW st \in State, NEW tx \in Tx
  PROVE  Accounted(st, tx, ApplyTx(st, tx))
<1>1. CASE ~Verified(tx)
  BY <1>1, UntouchedAccounted DEF ApplyTx
<1>2. CASE Verified(tx)
  BY <1>2, TxFields, TransferAccounted, BurnAccounted, RegisterAccounted, MintAccounted
  DEF ApplyTx
<1> QED
  BY <1>1, <1>2

\* What the producer is paid is added to the balances, below the limit.
LEMMA PayProducerTotal ==
  ASSUME NEW st \in State, NEW k \in Key, NEW x \in Amount
  PROVE  /\ PayProducer(st, k, x).supply = st.supply
         /\ TotalBalance(PayProducer(st, k, x)) <= TotalBalance(st) + x
         /\ TotalBalance(st) + x <= MaxU64 =>
              TotalBalance(PayProducer(st, k, x)) = TotalBalance(st) + x
<1> DEFINE mid == Ensure(st, k)
<1>1. /\ mid \in State /\ Has(mid, ShortIdOf[k]) /\ ShortIdOf[k] \in ShortId
      /\ mid.supply = st.supply /\ TotalBalance(mid) = TotalBalance(st)
  BY EnsureKeeps, EnsureTotal, KeyAssumption
<1> HIDE DEF mid
<1>2. /\ Credit(mid, ShortIdOf[k], x).supply = st.supply
      /\ TotalBalance(Credit(mid, ShortIdOf[k], x)) <= TotalBalance(st) + x
      /\ TotalBalance(st) + x <= MaxU64 =>
           TotalBalance(Credit(mid, ShortIdOf[k], x)) = TotalBalance(st) + x
  BY <1>1, CreditTotal
<1>3. CASE x = 0
  BY <1>3, TotalType DEF PayProducer
<1>4. CASE x # 0
  BY <1>2, <1>4 DEF PayProducer, Amount, mid
<1> QED
  BY <1>3, <1>4

\* Balances covered by the supply; and equal to it.
Covered(st) == TotalBalance(st) <= st.supply
Exact(st)   == TotalBalance(st) = st.supply

\* A turn of apply_block's loop creates nothing, and loses nothing when it
\* succeeds.
LEMMA ApplyInBlockCovered ==
  ASSUME NEW st \in State, NEW tx \in Tx, NEW k \in Key, Covered(st),
         ApplyInBlock(st, tx, k).st.supply < MaxU64
  PROVE  /\ Covered(ApplyInBlock(st, tx, k).st)
         /\ Exact(st) /\ ApplyInBlock(st, tx, k).ok => Exact(ApplyInBlock(st, tx, k).st)
<1> DEFINE r == ApplyTx(st, tx)
           new == PayProducer(r.st, k, Fee(tx))
<1>1. r.st \in State /\ Accounted(st, tx, r) /\ Fee(tx) \in Amount
  BY ApplyTxGood, ApplyTxAccounted, TxFields DEF Good
<1>2. TotalBalance(r.st) \in Nat /\ r.st.supply \in Amount
  BY <1>1, TotalType
<1>3. /\ new.supply = r.st.supply
      /\ TotalBalance(new) <= TotalBalance(r.st) + Fee(tx)
      /\ TotalBalance(r.st) + Fee(tx) <= MaxU64 =>
           TotalBalance(new) = TotalBalance(r.st) + Fee(tx)
  BY <1>1, PayProducerTotal
<1>4. TotalBalance(new) \in Nat
  BY <1>1, PayProducerKeeps, TotalType
<1>5. CASE ~r.ok
  BY <1>1, <1>2, <1>5 DEF ApplyInBlock, Accounted, Covered
<1>6. CASE r.ok
  <2>1. ApplyInBlock(st, tx, k) = Outcome(TRUE, new)
    BY <1>6 DEF ApplyInBlock
  <2>2. Outcome(TRUE, new).ok /\ Outcome(TRUE, new).st = new
    BY DEF Outcome
  <2> HIDE DEF new, r
  <2>3. r.st.supply < MaxU64
    BY <1>3, <2>1, <2>2
  <2>4. /\ TotalBalance(r.st) + Fee(tx) <= r.st.supply
        /\ Exact(st) => TotalBalance(r.st) + Fee(tx) = r.st.supply
    BY <1>1, <1>6, <2>3 DEF Accounted, Covered, Exact
  <2>5. /\ Fee(tx) \in Nat /\ MaxU64 \in Int /\ TotalBalance(r.st) \in Int
        /\ r.st.supply \in Int /\ TotalBalance(new) \in Int
    BY <1>1, <1>2, <1>4, NumberAssumption DEF Amount
  <2>6. /\ TotalBalance(new) <= new.supply
        /\ TotalBalance(r.st) + Fee(tx) = r.st.supply => TotalBalance(new) = new.supply
    BY <1>3, <2>3, <2>4, <2>5
  <2> QED
    BY <2>1, <2>2, <2>4, <2>6 DEF Covered, Exact
<1> QED
  BY <1>5, <1>6

\* The reward is added to both.
LEMMA RewardCovered ==
  ASSUME NEW st \in State, NEW k \in Key, NEW h \in Nat, Covered(st),
         Reward(st, k, h).supply < MaxU64
  PROVE  /\ Covered(Reward(st, k, h))
         /\ Exact(st) => Exact(Reward(st, k, h))
<1> DEFINE mid == PayProducer(st, k, BlockReward)
           new == [mid EXCEPT !.supply = SatAdd(@, BlockReward)]
<1>1. /\ mid.supply = st.supply /\ mid \in State /\ BlockReward \in Amount
      /\ TotalBalance(mid) <= TotalBalance(st) + BlockReward
      /\ TotalBalance(st) + BlockReward <= MaxU64 =>
           TotalBalance(mid) = TotalBalance(st) + BlockReward
  BY PayProducerTotal, PayProducerKeeps, NumberAssumption
<1>2. TotalBalance(mid) \in Nat /\ TotalBalance(st) \in Nat /\ st.supply \in Amount
  BY <1>1, TotalType
<1> HIDE DEF mid
<1>3. new.accounts = mid.accounts /\ new.supply = SatAdd(mid.supply, BlockReward)
  BY <1>1 DEF State
<1>4. TotalBalance(new) = TotalBalance(mid)
  BY <1>3 DEF TotalBalance, BalanceOf, Has
<1>5. CASE h > 0 /\ BlockReward > 0
  <2>1. Reward(st, k, h) = new
    BY <1>5 DEF Reward, mid
  <2> HIDE DEF new
  <2> QED
    BY <1>1, <1>2, <1>3, <1>4, <2>1, NumberAssumption
    DEF Covered, Exact, SatAdd, Amount
<1>6. CASE ~(h > 0 /\ BlockReward > 0)
  BY <1>6 DEF Reward
<1> QED
  BY <1>5, <1>6

\* At genesis the accounts hold the allocations.
LEMMA GenesisExact ==
  ASSUME GenesisSupply < MaxU64
  PROVE  Exact(GenesisState)
<1> DEFINE f == [k \in DOMAIN Allocation |-> Allocation[k]]
           h == Balances(GenesisState)
           named(sid) == {k \in DOMAIN Allocation : ShortIdOf[k] = sid}
<1>1. \A sid \in ShortId : GenesisState.accounts[sid] = GenesisAccount(sid)
  BY DEF GenesisState
<1>2. ASSUME NEW k \in DOMAIN Allocation
      PROVE  /\ ShortIdOf[k] \in ShortId
             /\ BalanceOf(GenesisState, ShortIdOf[k]) = Allocation[k]
  <2>1. ShortIdOf[k] \in ShortId /\ k \in Key /\ Allocation[k] \in Amount
    BY KeyAssumption, AllocationAssumption
  <2>2. named(ShortIdOf[k]) = {k}
    BY AllocationAssumption
  <2>3. (CHOOSE j \in named(ShortIdOf[k]) : TRUE) = k
    BY <2>2
  <2>4. GenesisAccount(ShortIdOf[k]) = NewAccount(k, Allocation[k])
    BY <2>2, <2>3 DEF GenesisAccount
  <2>5. NewAccount(k, Allocation[k]) # NoAccount
    BY <2>1, NewAccountType
  <2> QED
    BY <1>1, <2>1, <2>4, <2>5 DEF BalanceOf, Has, NewAccount
<1>3. ASSUME NEW sid \in ShortId, \A k \in DOMAIN Allocation : ShortIdOf[k] # sid
      PROVE  BalanceOf(GenesisState, sid) = 0
  <2>1. named(sid) = {}
    BY <1>3
  <2>2. GenesisAccount(sid) = NoAccount \/ \E k : GenesisAccount(sid) = NewAccount(k, 0)
    BY <2>1 DEF GenesisAccount
  <2> QED
    BY <1>1, <2>2 DEF BalanceOf, Has, NewAccount
<1>4. /\ DOMAIN f = DOMAIN Allocation /\ f = [k \in DOMAIN f |-> f[k]]
      /\ IsFiniteSet(DOMAIN f) /\ \A k \in DOMAIN f : f[k] \in Int
  BY AllocationAssumption DEF Amount
<1>5. /\ DOMAIN h = ShortId /\ IsFiniteSet(DOMAIN h) /\ h = [sid \in DOMAIN h |-> h[sid]]
      /\ \A sid \in ShortId : h[sid] = BalanceOf(GenesisState, sid)
  BY KeyAssumption DEF Balances
<1>6. /\ \A k \in DOMAIN f : ShortIdOf[k] \in DOMAIN h /\ h[ShortIdOf[k]] = f[k]
      /\ \A j, k \in DOMAIN f : ShortIdOf[j] = ShortIdOf[k] => j = k
      /\ \A sid \in DOMAIN h : (\A k \in DOMAIN f : ShortIdOf[k] # sid) => h[sid] = 0
  BY <1>2, <1>3, <1>4, <1>5, AllocationAssumption
<1>7. SumFunction(h) = SumFunction(f)
  <2> HIDE DEF f, h
  <2> QED
    BY <1>4, <1>5, <1>6, SumRenamed
<1>8. TotalBalance(GenesisState) = SumFunction(h)
  BY DEF TotalBalance, Balances
<1>9. GenesisSupply = SumFunction(Allocation)
  <2>1. SumFunction(Allocation) \in Nat
    BY SumOfNaturals, AllocationAssumption DEF Amount
  <2> QED
    BY <2>1, NumberAssumption DEF GenesisSupply, SatAdd
<1>10. f = Allocation
  BY AllocationAssumption
<1> QED
  BY <1>7, <1>8, <1>9, <1>10 DEF Exact, GenesisState

-----------------------------------------------------------------------------
(* A trial state and the state of a block: the producer's tips make the    *)
(* second one richer, and what applies to the first applies to it          *)

Richer(t, a) ==
  /\ t \in State /\ a \in State /\ a.refs = t.refs
  /\ \A s \in ShortId : Has(a, s) <=> Has(t, s)
  /\ \A s \in ShortId : Has(t, s) =>
       /\ a.accounts[s].pubkey = t.accounts[s].pubkey
       /\ a.accounts[s].nonce = t.accounts[s].nonce
       /\ a.accounts[s].pq = t.accounts[s].pq
       /\ a.accounts[s].balance >= t.accounts[s].balance

\* A state is as rich as itself.
LEMMA RicherReflexive ==
  ASSUME NEW st \in State
  PROVE  Richer(st, st)
<1>1. \A s \in ShortId : Has(st, s) => st.accounts[s].balance \in Int
  BY AccountFields DEF Amount
<1> QED
  BY <1>1 DEF Richer

\* Writing one account of both, the richer one no poorer, keeps them so.
LEMMA RicherWrite ==
  ASSUME NEW t, NEW a, Richer(t, a), NEW sid \in ShortId,
         NEW x \in Account, NEW y \in Account,
         y.pubkey = x.pubkey, y.nonce = x.nonce, y.pq = x.pq, y.balance >= x.balance
  PROVE  Richer(SetAccount(t, sid, x), SetAccount(a, sid, y))
<1> DEFINE t1 == SetAccount(t, sid, x)
           a1 == SetAccount(a, sid, y)
<1>1. x # NoAccount /\ y # NoAccount
  BY KeyAssumption
<1>2. /\ t \in State /\ a \in State
      /\ t.accounts \in [ShortId -> Account \cup {NoAccount}]
      /\ a.accounts \in [ShortId -> Account \cup {NoAccount}]
  BY DEF Richer, State
<1>3. /\ t1 \in State /\ t1.refs = t.refs /\ t1.accounts = [t.accounts EXCEPT ![sid] = x]
      /\ a1 \in State /\ a1.refs = a.refs /\ a1.accounts = [a.accounts EXCEPT ![sid] = y]
  <2>1. /\ t1 = [accounts |-> [t.accounts EXCEPT ![sid] = x],
                 supply |-> t.supply, refs |-> t.refs]
        /\ a1 = [accounts |-> [a.accounts EXCEPT ![sid] = y],
                 supply |-> a.supply, refs |-> a.refs]
    BY <1>2 DEF SetAccount, State
  <2> QED
    BY <1>2, <2>1 DEF State
<1>4. /\ t1.accounts[sid] = x /\ a1.accounts[sid] = y
      /\ \A s \in ShortId : s # sid => /\ t1.accounts[s] = t.accounts[s]
                                       /\ a1.accounts[s] = a.accounts[s]
  BY <1>2, <1>3
<1> HIDE DEF t1, a1
<1>5. t1.refs = a1.refs
  BY <1>3 DEF Richer
<1>6. \A s \in ShortId : s # sid =>
        /\ Has(t1, s) <=> Has(t, s)
        /\ Has(a1, s) <=> Has(a, s)
  BY <1>4 DEF Has
<1>7. Has(t1, sid) /\ Has(a1, sid)
  BY <1>1, <1>4 DEF Has
<1>8. Richer(t1, a1)
  BY <1>3, <1>4, <1>5, <1>6, <1>7 DEF Richer
<1> QED
  BY <1>8 DEF t1, a1

\* So does a credit on both sides.
LEMMA RicherCredit ==
  ASSUME NEW t, NEW a, Richer(t, a), NEW sid \in ShortId, Has(t, sid), NEW x \in Amount
  PROVE  Richer(Credit(t, sid, x), Credit(a, sid, x))
<1> DEFINE u == [t.accounts[sid] EXCEPT !.balance = SatAdd(@, x)]
           v == [a.accounts[sid] EXCEPT !.balance = SatAdd(@, x)]
<1>1. /\ t \in State /\ a \in State /\ Has(a, sid)
      /\ a.accounts[sid].pubkey = t.accounts[sid].pubkey
      /\ a.accounts[sid].nonce = t.accounts[sid].nonce
      /\ a.accounts[sid].pq = t.accounts[sid].pq
      /\ a.accounts[sid].balance >= t.accounts[sid].balance
  BY DEF Richer
<1>2. /\ t.accounts[sid] \in Account /\ t.accounts[sid].balance \in Amount
      /\ a.accounts[sid] \in Account /\ a.accounts[sid].balance \in Amount
  BY <1>1, AccountFields
<1>3. /\ u \in Account /\ v \in Account
      /\ v.pubkey = u.pubkey /\ v.nonce = u.nonce /\ v.pq = u.pq
      /\ u.balance = SatAdd(t.accounts[sid].balance, x)
      /\ v.balance = SatAdd(a.accounts[sid].balance, x)
  BY <1>1, <1>2, SatAddType DEF Account
<1>4. v.balance >= u.balance
  BY <1>1, <1>2, <1>3, NumberAssumption DEF SatAdd, Amount
<1>5. Credit(t, sid, x) = SetAccount(t, sid, u) /\ Credit(a, sid, x) = SetAccount(a, sid, v)
  BY <1>1 DEF Credit, SetAccount, State
<1> HIDE DEF u, v
<1> QED
  BY <1>3, <1>4, <1>5, RicherWrite

\* Spending a nonce on both sides keeps one richer.
LEMMA RicherBump ==
  ASSUME NEW t, NEW a, Richer(t, a), NEW sid \in ShortId, Has(t, sid)
  PROVE  Richer(Bump(t, sid), Bump(a, sid))
<1> DEFINE u == [t.accounts[sid] EXCEPT !.nonce = NextNonce(@)]
           v == [a.accounts[sid] EXCEPT !.nonce = NextNonce(@)]
<1>1. /\ t \in State /\ a \in State /\ Has(a, sid)
      /\ a.accounts[sid].pubkey = t.accounts[sid].pubkey
      /\ a.accounts[sid].nonce = t.accounts[sid].nonce
      /\ a.accounts[sid].pq = t.accounts[sid].pq
      /\ a.accounts[sid].balance >= t.accounts[sid].balance
  BY DEF Richer
<1>2. /\ t.accounts[sid] \in Account /\ t.accounts[sid].nonce \in Nonce
      /\ a.accounts[sid] \in Account
  BY <1>1, AccountFields
<1>3. /\ u \in Account /\ v \in Account
      /\ v.pubkey = u.pubkey /\ v.nonce = u.nonce /\ v.pq = u.pq /\ v.balance >= u.balance
  BY <1>1, <1>2, NextNonceType DEF Account
<1>4. Bump(t, sid) = SetAccount(t, sid, u) /\ Bump(a, sid) = SetAccount(a, sid, v)
  BY <1>1 DEF Bump, SetAccount, State
<1> HIDE DEF u, v
<1> QED
  BY <1>3, <1>4, RicherWrite

\* So does opening an account.
LEMMA RicherEnsure ==
  ASSUME NEW t, NEW a, Richer(t, a), NEW k \in Key
  PROVE  Richer(Ensure(t, k), Ensure(a, k))
<1> DEFINE sid == ShortIdOf[k]
           x == NewAccount(k, 0)
<1>1. sid \in ShortId /\ x \in Account /\ x.balance >= x.balance
  BY KeyAssumption, NumberAssumption, NewAccountType DEF Amount, NewAccount
<1>2. Has(a, sid) <=> Has(t, sid)
  BY <1>1 DEF Richer
<1>3. CASE Has(t, sid)
  BY <1>2, <1>3 DEF Ensure
<1>4. CASE ~Has(t, sid)
  <2>1. Ensure(t, k) = SetAccount(t, sid, x) /\ Ensure(a, k) = SetAccount(a, sid, x)
    BY <1>2, <1>4 DEF Ensure, EnsureFresh
  <2> HIDE DEF x, sid
  <2> QED
    BY <1>1, <2>1, RicherWrite
<1> QED
  BY <1>3, <1>4

\* What can be paid from the one can be paid from the other.
LEMMA RicherDebit ==
  ASSUME NEW t, NEW a, Richer(t, a), NEW tx \in Tx, IsSpend(tx),
         CanPay(t, tx), PqPasses(t, tx)
  PROVE  /\ CanPay(a, tx) /\ PqPasses(a, tx)
         /\ Richer(Debit(t, tx), Debit(a, tx))
<1> DEFINE old == t.accounts[tx.from]
           rich == a.accounts[tx.from]
           cost == tx.amount + Fee(tx)
           u == [old EXCEPT !.balance = @ - cost, !.nonce = NextNonce(@),
                            !.pq = IF NeedsPq(t, tx) THEN tx.env.pq ELSE @]
           v == [rich EXCEPT !.balance = @ - cost, !.nonce = NextNonce(@),
                             !.pq = IF NeedsPq(a, tx) THEN tx.env.pq ELSE @]
<1>1. /\ tx.from \in ShortId /\ tx.env.pq \in PqKey \cup {NoPq}
      /\ tx.amount \in Amount /\ Fee(tx) \in Amount
  BY TxFields DEF IsSpend
<1>2. /\ t \in State /\ a \in State /\ Has(t, tx.from) /\ Has(a, tx.from)
      /\ rich.pubkey = old.pubkey /\ rich.nonce = old.nonce /\ rich.pq = old.pq
      /\ rich.balance >= old.balance /\ old.balance >= cost /\ old.nonce = tx.nonce
  BY <1>1 DEF Richer, CanPay
<1>3. /\ old \in Account /\ old.balance \in Amount /\ old.nonce \in Nonce
      /\ rich \in Account /\ rich.balance \in Amount
  BY <1>1, <1>2, AccountFields
<1>4. rich.balance >= cost
  BY <1>1, <1>2, <1>3 DEF Amount
<1>5. CanPay(a, tx) /\ PqPasses(a, tx) /\ (NeedsPq(a, tx) <=> NeedsPq(t, tx))
  BY <1>2, <1>4 DEF CanPay, PqPasses, NeedsPq
<1>6. old.balance - cost \in Amount /\ rich.balance - cost \in Amount
  BY <1>1, <1>2, <1>3, <1>4, NumberAssumption DEF Amount
<1>7. rich.balance - cost >= old.balance - cost
  BY <1>1, <1>2, <1>3 DEF Amount
<1>8. NextNonce(old.nonce) \in Nonce
  BY <1>3, NextNonceType
<1> HIDE DEF cost
<1>9. /\ u \in Account /\ v \in Account /\ v.pubkey = u.pubkey /\ v.nonce = u.nonce
      /\ v.pq = u.pq /\ u.balance = old.balance - cost /\ v.balance = rich.balance - cost
  BY <1>1, <1>2, <1>3, <1>5, <1>6, <1>8 DEF Account
<1>10. Debit(t, tx) = SetAccount(t, tx.from, u) /\ Debit(a, tx) = SetAccount(a, tx.from, v)
  BY DEF Debit, cost
<1> HIDE DEF u, v
<1>11. Richer(SetAccount(t, tx.from, u), SetAccount(a, tx.from, v))
  BY <1>1, <1>7, <1>9, RicherWrite
<1> QED
  BY <1>5, <1>10, <1>11

\* The supply is nobody's balance.
LEMMA RicherSupply ==
  ASSUME NEW t, NEW a, Richer(t, a), NEW u \in State, NEW v \in State,
         u.accounts = t.accounts, v.accounts = a.accounts, u.refs = v.refs
  PROVE  Richer(u, v)
BY DEF Richer, Has

\* What applies to a trial state applies to the richer one, and leaves it
\* richer.
LEMMA RicherTx ==
  ASSUME NEW t, NEW a, Richer(t, a), NEW tx \in Tx, ApplyTx(t, tx).ok
  PROVE  ApplyTx(a, tx).ok /\ Richer(ApplyTx(t, tx).st, ApplyTx(a, tx).st)
<1>1. Verified(tx)
  BY DEF ApplyTx, Outcome
<1>2. t \in State /\ a \in State
  BY DEF Richer
<1>3. CASE tx.type = "Transfer"
  <2>1. ApplyTx(t, tx) = ApplyTransfer(t, tx) /\ ApplyTx(a, tx) = ApplyTransfer(a, tx)
    BY <1>1, <1>3 DEF ApplyTx
  <2>2. /\ IsSpend(tx) /\ CanPay(t, tx) /\ PqPasses(t, tx) /\ Has(Debit(t, tx), tx.to)
        /\ ApplyTransfer(t, tx) = Outcome(TRUE, Credit(Debit(t, tx), tx.to, tx.amount))
    BY <1>3, <2>1 DEF ApplyTransfer, Outcome, IsSpend
  <2>3. CanPay(a, tx) /\ PqPasses(a, tx) /\ Richer(Debit(t, tx), Debit(a, tx))
    BY <2>2, RicherDebit
  <2>4. tx.to \in ShortId /\ tx.amount \in Amount
    BY <1>3, TxFields
  <2>5. Has(Debit(a, tx), tx.to)
    BY <2>2, <2>3, <2>4 DEF Richer
  <2>6. ApplyTransfer(a, tx) = Outcome(TRUE, Credit(Debit(a, tx), tx.to, tx.amount))
    BY <2>3, <2>5 DEF ApplyTransfer
  <2>7. Richer(Credit(Debit(t, tx), tx.to, tx.amount), Credit(Debit(a, tx), tx.to, tx.amount))
    BY <2>2, <2>3, <2>4, RicherCredit
  <2> QED
    BY <2>1, <2>2, <2>6, <2>7 DEF Outcome
<1>4. CASE tx.type = "Burn"
  <2> DEFINE Burned(st) == [st EXCEPT !.supply = IF @ > tx.amount THEN @ - tx.amount ELSE 0]
  <2>1. ApplyTx(t, tx) = ApplyBurn(t, tx) /\ ApplyTx(a, tx) = ApplyBurn(a, tx)
    BY <1>1, <1>4 DEF ApplyTx
  <2>2. IsSpend(tx) /\ tx.hint /\ CanPay(t, tx) /\ PqPasses(t, tx)
    BY <1>4, <2>1 DEF ApplyBurn, Outcome, IsSpend
  <2>3. CanPay(a, tx) /\ PqPasses(a, tx) /\ Richer(Debit(t, tx), Debit(a, tx))
    BY <2>2, RicherDebit
  <2>4. ASSUME NEW st \in State
        PROVE  /\ Burned(st) \in State /\ Burned(st).accounts = st.accounts
               /\ Burned(st).refs = st.refs
    <3>1. (IF st.supply > tx.amount THEN st.supply - tx.amount ELSE 0) \in Amount
      BY <1>4, TxFields, NumberAssumption DEF State, Amount
    <3> QED
      BY <3>1 DEF State
  <2>5. Debit(t, tx) \in State /\ Debit(a, tx) \in State /\ Debit(t, tx).refs = Debit(a, tx).refs
    BY <2>3 DEF Richer
  <2>6. /\ ApplyBurn(t, tx) = Outcome(TRUE, Burned(Debit(t, tx)))
        /\ ApplyBurn(a, tx) = Outcome(TRUE, Burned(Debit(a, tx)))
    BY <2>2, <2>3 DEF ApplyBurn
  <2> HIDE DEF Burned
  <2>7. Richer(Burned(Debit(t, tx)), Burned(Debit(a, tx)))
    BY <2>3, <2>4, <2>5, RicherSupply
  <2> QED
    BY <2>1, <2>6, <2>7 DEF Outcome
<1>5. CASE tx.type = "Register"
  <2> DEFINE sid == Sender(tx)
             t1 == Ensure(t, tx.pubkey)
             a1 == Ensure(a, tx.pubkey)
  <2>1. ApplyTx(t, tx) = ApplyRegister(t, tx) /\ ApplyTx(a, tx) = ApplyRegister(a, tx)
    BY <1>1, <1>5 DEF ApplyTx
  <2>2. tx.pubkey \in Key /\ sid = ShortIdOf[tx.pubkey] /\ sid \in ShortId
    BY <1>1, <1>5, TxFields DEF Verified, Sender
  <2>3. Richer(t1, a1) /\ Has(t1, sid)
    BY <1>2, <2>2, RicherEnsure, EnsureKeeps
  <2>4. /\ Has(a, sid) <=> Has(t, sid)
        /\ Has(t, sid) => /\ a.accounts[sid].pubkey = t.accounts[sid].pubkey
                          /\ a.accounts[sid].nonce = t.accounts[sid].nonce
        /\ a1.accounts[sid].nonce = t1.accounts[sid].nonce
    BY <2>2, <2>3 DEF Richer
  <2> HIDE DEF sid, t1, a1
  <2>5. /\ ApplyRegister(t, tx) = Outcome(TRUE, Bump(t1, sid))
        /\ ApplyRegister(a, tx) = Outcome(TRUE, Bump(a1, sid))
    BY <2>1, <2>4 DEF ApplyRegister, Outcome, t1, a1, sid
  <2>6. Richer(Bump(t1, sid), Bump(a1, sid))
    BY <2>2, <2>3, RicherBump
  <2> QED
    BY <2>1, <2>5, <2>6 DEF Outcome
<1>6. CASE tx.type = "Mint"
  <2> DEFINE sid == Sender(tx)
             Bumped(st) == Bump(st, sid)
             Known(st) == IF Has(st, tx.to) THEN Bumped(st) ELSE Ensure(Bumped(st), tx.pubkey)
             Paid(st) == Credit(Known(st), tx.to, tx.amount)
             Minted(st) == [Paid(st) EXCEPT !.supply = SatAdd(@, tx.amount),
                                            !.refs = @ \cup {tx.ref}]
  <2>1. ApplyTx(t, tx) = ApplyMint(t, tx) /\ ApplyTx(a, tx) = ApplyMint(a, tx)
    BY <1>1, <1>6 DEF ApplyTx
  <2>2. /\ sid \in ShortId /\ tx.to \in ShortId /\ tx.amount \in Amount
        /\ tx.ref \in Ref /\ tx.pubkey \in Key \cup {NoKey}
    BY <1>6, TxFields
  <2>3. MayMint(t, tx) /\ Recipient(Bumped(t), tx)
    BY <2>1 DEF ApplyMint, Outcome
  <2>4. MayMint(a, tx) /\ Has(t, sid) /\ (Has(a, tx.to) <=> Has(t, tx.to))
    BY <2>2, <2>3 DEF MayMint, FreshRef, Richer
  <2>5. Richer(Bumped(t), Bumped(a))
    BY <2>2, <2>4, RicherBump
  <2>6. \A s \in ShortId : Has(Bumped(t), s) <=> Has(t, s)
    BY <1>2, <2>2, <2>4, BumpSpends
  <2> HIDE DEF Bumped
  <2>7. Recipient(Bumped(a), tx)
    BY <2>2, <2>3, <2>5 DEF Recipient, Richer
  <2>8. Richer(Known(t), Known(a)) /\ Has(Known(t), tx.to)
    <3>1. CASE Has(t, tx.to)
      BY <2>2, <2>4, <2>5, <2>6, <3>1
    <3>2. CASE ~Has(t, tx.to)
      <4>1. tx.pubkey \in Key /\ ShortIdOf[tx.pubkey] = tx.to
        BY <2>2, <2>3, <2>6, <3>2 DEF Recipient
      <4>2. Bumped(t) \in State
        BY <2>5 DEF Richer
      <4> QED
        BY <2>4, <2>5, <3>2, <4>1, <4>2, RicherEnsure, EnsureKeeps
    <3> QED
      BY <3>1, <3>2
  <2> HIDE DEF Known
  <2>9. Richer(Paid(t), Paid(a))
    BY <2>2, <2>8, RicherCredit
  <2>10. Paid(t) \in State /\ Paid(a) \in State /\ Paid(t).refs = Paid(a).refs
    BY <2>9 DEF Richer
  <2>11. /\ ApplyMint(t, tx) = Outcome(TRUE, Minted(t))
         /\ ApplyMint(a, tx) = Outcome(TRUE, Minted(a))
    BY <2>3, <2>4, <2>7 DEF ApplyMint, Bumped, Known
  <2> HIDE DEF Paid
  <2>12. /\ Minted(t) \in State /\ Minted(a) \in State
         /\ Minted(t).accounts = Paid(t).accounts /\ Minted(a).accounts = Paid(a).accounts
         /\ Minted(t).refs = Minted(a).refs
    BY <2>2, <2>10, SatAddType DEF State
  <2> HIDE DEF Minted
  <2>13. Richer(Minted(t), Minted(a))
    BY <2>9, <2>12, RicherSupply
  <2> QED
    BY <2>1, <2>11, <2>13 DEF Outcome
<1> QED
  BY <1>3, <1>4, <1>5, <1>6, TxFields

\* A tip makes the richer state richer still, when the producer is known.
LEMMA RicherTip ==
  ASSUME NEW t, NEW a, Richer(t, a), NEW k \in Key, Has(a, ShortIdOf[k]),
         NEW x \in Amount
  PROVE  Richer(t, PayProducer(a, k, x))
<1> DEFINE sid == ShortIdOf[k]
           y == [a.accounts[sid] EXCEPT !.balance = SatAdd(@, x)]
<1>1. /\ sid \in ShortId /\ t \in State /\ a \in State /\ Has(t, sid)
      /\ t.accounts \in [ShortId -> Account \cup {NoAccount}]
  BY KeyAssumption DEF Richer, State
<1>2. /\ a.accounts[sid] \in Account /\ a.accounts[sid].balance \in Amount
      /\ t.accounts[sid] \in Account /\ t.accounts[sid].balance \in Amount
  BY <1>1, AccountFields
<1>3. /\ a.accounts[sid].pubkey = t.accounts[sid].pubkey
      /\ a.accounts[sid].nonce = t.accounts[sid].nonce
      /\ a.accounts[sid].pq = t.accounts[sid].pq
      /\ a.accounts[sid].balance >= t.accounts[sid].balance
  BY <1>1 DEF Richer
<1>4. /\ y \in Account /\ y.pubkey = t.accounts[sid].pubkey
      /\ y.nonce = t.accounts[sid].nonce /\ y.pq = t.accounts[sid].pq
      /\ y.balance = SatAdd(a.accounts[sid].balance, x)
  BY <1>2, <1>3, SatAddType DEF Account
<1>5. y.balance >= t.accounts[sid].balance
  BY <1>2, <1>3, <1>4, NumberAssumption DEF SatAdd, Amount
<1>6. SetAccount(t, sid, t.accounts[sid]) = t
  BY <1>1 DEF SetAccount, State
<1>7. Credit(a, sid, x) = SetAccount(a, sid, y)
  BY <1>1 DEF Credit, SetAccount, State
<1>8. Richer(SetAccount(t, sid, t.accounts[sid]), SetAccount(a, sid, y))
  <2> HIDE DEF y, sid
  <2> QED
    BY <1>1, <1>2, <1>4, <1>5, RicherWrite
<1> QED
  BY <1>6, <1>7, <1>8 DEF PayProducer, Ensure

=============================================================================
