------------------------------ MODULE Accounts ------------------------------
(***************************************************************************)
(* The accounts of MeshChain and what a transaction does to them:          *)
(* ChainState::apply_tx of crates/ledger/src/state.rs with Tx::verify of   *)
(* crates/proto/src/tx.rs.                                                 *)
(*                                                                         *)
(* apply_tx writes to the state as it goes and leaves what it wrote when a *)
(* later check fails.  An outcome is therefore a record of whether the     *)
(* call returned Ok and of the state it left.                              *)
(***************************************************************************)
EXTENDS Integers, Sequences, FiniteSets, Functions, FiniteSetsExt

CONSTANTS
  Key,             \* ed25519 public keys
  PqKey,           \* ML-DSA-65 public keys
  Ref,             \* external_ref values of mints
  ShortId,         \* 8-byte account names
  ShortIdOf,       \* short_id(): the name of a key
  Validators,      \* genesis validators, in seat order
  Minters,         \* genesis minters besides the validators
  Allocation,      \* genesis balances, a function on some of the keys
  NoKey, NoPq, NoAccount,
  MaxU64,          \* 2^64 - 1
  MaxNonce,        \* 2^32 - 1
  PqRequiredAbove, \* spends of at least this much need a PQ signature
  BlockReward,
  MaxTxs,          \* MAX_TXS_PER_BLOCK, 16
  Sent             \* the transactions that exist

Amount == 0 .. MaxU64
Nonce  == 0 .. MaxNonce

\* valid: the ed25519 signature and, when a PQ key is attached, the ML-DSA one
Envelope == [signer : Key, pq : PqKey \cup {NoPq}, valid : BOOLEAN]

Transfer == [type : {"Transfer"}, env : Envelope, nonce : Nonce,
             from : ShortId, to : ShortId, amount : Amount, fee : Amount]
Register == [type : {"Register"}, env : Envelope, nonce : Nonce, pubkey : Key]
Mint     == [type : {"Mint"}, env : Envelope, nonce : Nonce, to : ShortId,
             amount : Amount, ref : Ref, pubkey : Key \cup {NoKey}]
Burn     == [type : {"Burn"}, env : Envelope, nonce : Nonce, from : ShortId,
             amount : Amount, asset : {0, 1, 2}, hint : BOOLEAN]
Tx       == Transfer \cup Register \cup Mint \cup Burn

Account == [pubkey : Key, balance : Amount, nonce : Nonce,
            pq : PqKey \cup {NoPq}]
State   == [accounts : [ShortId -> Account \cup {NoAccount}],
            supply : Amount, refs : SUBSET Ref]

\* saturating_add
SatAdd(x, y) == IF x + y < MaxU64 THEN x + y ELSE MaxU64
NextNonce(n) == IF n < MaxNonce THEN n + 1 ELSE MaxNonce

-----------------------------------------------------------------------------
(* Genesis *)

NewAccount(k, b) == [pubkey |-> k, balance |-> b, nonce |-> 0, pq |-> NoPq]

GenesisAccount(sid) ==
  LET allocated == {k \in DOMAIN Allocation : ShortIdOf[k] = sid}
      seats     == {i \in DOMAIN Validators : ShortIdOf[Validators[i]] = sid}
  IN  IF allocated # {} THEN LET k == CHOOSE k \in allocated : TRUE
                             IN  NewAccount(k, Allocation[k])
      ELSE IF seats # {} THEN NewAccount(Validators[Min(seats)], 0)
      ELSE NoAccount

GenesisSupply == SatAdd(0, SumFunction(Allocation))

GenesisState == [accounts |-> [sid \in ShortId |-> GenesisAccount(sid)],
                 supply |-> GenesisSupply, refs |-> {}]

MinterSet == Minters \cup Range(Validators)

ASSUME KeyAssumption ==
  /\ ShortIdOf \in [Key -> ShortId] /\ IsFiniteSet(ShortId)
  /\ NoKey \notin Key /\ NoPq \notin PqKey /\ NoAccount \notin Account
  /\ Validators \in Seq(Key) /\ Validators # <<>>
  /\ Minters \subseteq Key
  /\ Sent \subseteq Tx

ASSUME NumberAssumption ==
  /\ MaxU64 \in Nat /\ MaxNonce \in Nat \ {0}
  /\ PqRequiredAbove \in Amount /\ BlockReward \in Amount
  /\ MaxTxs \in Nat

\* initial_accounts refuses allocations whose short ids collide
ASSUME AllocationAssumption ==
  /\ Allocation \in [DOMAIN Allocation -> Amount]
  /\ DOMAIN Allocation \subseteq Key /\ IsFiniteSet(DOMAIN Allocation)
  /\ \A j, k \in DOMAIN Allocation : ShortIdOf[j] = ShortIdOf[k] => j = k

-----------------------------------------------------------------------------
(* apply_tx *)

Sender(tx)  == ShortIdOf[tx.env.signer]
IsSpend(tx) == tx.type \in {"Transfer", "Burn"}
Fee(tx)     == IF tx.type = "Transfer" THEN tx.fee ELSE 0

\* Tx::verify
Verified(tx) ==
  /\ tx.env.valid
  /\ tx.type # "Register" => tx.amount > 0
  /\ tx.type = "Transfer" => tx.amount + tx.fee <= MaxU64
  /\ IsSpend(tx) => tx.from = Sender(tx)
  /\ tx.type = "Register" => tx.pubkey = tx.env.signer

Outcome(ok, st) == [ok |-> ok, st |-> st]

Has(st, sid)             == st.accounts[sid] # NoAccount
SetAccount(st, sid, acc) == [st EXCEPT !.accounts[sid] = acc]
Credit(st, sid, x)       == [st EXCEPT !.accounts[sid].balance = SatAdd(@, x)]
Bump(st, sid)            == [st EXCEPT !.accounts[sid].nonce = NextNonce(@)]

EnsureFresh(st, k) == SetAccount(st, ShortIdOf[k], NewAccount(k, 0))
Ensure(st, k)      == IF Has(st, ShortIdOf[k]) THEN st ELSE EnsureFresh(st, k)

\* The balance and nonce checks of a spend
CanPayAmount(st, tx) == /\ Has(st, tx.from)
                        /\ st.accounts[tx.from].balance >= tx.amount
                        /\ st.accounts[tx.from].nonce = tx.nonce
CanPay(st, tx)       == /\ Has(st, tx.from)
                        /\ st.accounts[tx.from].balance >= tx.amount + Fee(tx)
                        /\ st.accounts[tx.from].nonce = tx.nonce

\* enforce_pq_policy: a large or vault-linked spend, or one from an account
\* that has a PQ key, carries a PQ signature; the first one binds its key
LargeSpend(tx) == tx.amount >= PqRequiredAbove \/ (tx.type = "Burn" /\ tx.asset # 0)
NeedsPqLarge(st, tx) == LargeSpend(tx)
NeedsPq(st, tx)      == LargeSpend(tx) \/ st.accounts[tx.from].pq # NoPq
PqPasses(st, tx)     == NeedsPq(st, tx) =>
                          /\ tx.env.pq # NoPq
                          /\ st.accounts[tx.from].pq \in {NoPq, tx.env.pq}

DebitFree(st, tx) ==
  LET acc == st.accounts[tx.from]
  IN  SetAccount(st, tx.from,
        [acc EXCEPT !.balance = @ - tx.amount,
                    !.nonce = NextNonce(@),
                    !.pq = IF NeedsPq(st, tx) THEN tx.env.pq ELSE @])
DebitSameNonce(st, tx) ==
  LET acc == st.accounts[tx.from]
  IN  SetAccount(st, tx.from,
        [acc EXCEPT !.balance = @ - (tx.amount + Fee(tx)),
                    !.pq = IF NeedsPq(st, tx) THEN tx.env.pq ELSE @])
Debit(st, tx) ==
  LET acc == st.accounts[tx.from]
  IN  SetAccount(st, tx.from,
        [acc EXCEPT !.balance = @ - (tx.amount + Fee(tx)),
                    !.nonce = NextNonce(@),
                    !.pq = IF NeedsPq(st, tx) THEN tx.env.pq ELSE @])

\* An unknown recipient is found out after the debit, which stays
ApplyTransfer(st, tx) ==
  IF ~(CanPay(st, tx) /\ PqPasses(st, tx)) THEN Outcome(FALSE, st)
  ELSE IF ~Has(Debit(st, tx), tx.to) THEN Outcome(FALSE, Debit(st, tx))
  ELSE Outcome(TRUE, Credit(Debit(st, tx), tx.to, tx.amount))

ApplyBurn(st, tx) ==
  IF tx.hint /\ CanPay(st, tx) /\ PqPasses(st, tx)
  THEN Outcome(TRUE, [Debit(st, tx) EXCEPT
                        !.supply = IF @ > tx.amount THEN @ - tx.amount ELSE 0])
  ELSE Outcome(FALSE, st)

\* A key that is not known yet gets its account before its nonce is checked
ApplyRegister(st, tx) ==
  LET sid == Sender(tx)
      reg == Ensure(st, tx.pubkey)
  IN  IF Has(st, sid) /\ \/ st.accounts[sid].pubkey # tx.pubkey
                         \/ st.accounts[sid].nonce # 0
                         \/ tx.nonce # 0
      THEN Outcome(FALSE, st)
      ELSE IF reg.accounts[sid].nonce # tx.nonce THEN Outcome(FALSE, reg)
      ELSE Outcome(TRUE, Bump(reg, sid))

AnyRef(st, tx)   == TRUE
FreshRef(st, tx) == tx.ref \notin st.refs

MayMint(st, tx) ==
  /\ tx.env.signer \in MinterSet
  /\ FreshRef(st, tx)
  /\ Has(st, Sender(tx))
  /\ st.accounts[Sender(tx)].nonce = tx.nonce

\* The recipient exists under the given key, or the key is given and new
Recipient(st, tx) ==
  IF Has(st, tx.to) THEN tx.pubkey \in {NoKey, st.accounts[tx.to].pubkey}
  ELSE tx.pubkey # NoKey /\ ShortIdOf[tx.pubkey] = tx.to

\* The minter's nonce is spent before the recipient is looked at
ApplyMint(st, tx) ==
  LET bumped == Bump(st, Sender(tx))
      known  == IF Has(st, tx.to) THEN bumped ELSE Ensure(bumped, tx.pubkey)
  IN  IF ~MayMint(st, tx) THEN Outcome(FALSE, st)
      ELSE IF ~Recipient(bumped, tx) THEN Outcome(FALSE, bumped)
      ELSE Outcome(TRUE, [Credit(known, tx.to, tx.amount) EXCEPT
                            !.supply = SatAdd(@, tx.amount),
                            !.refs = @ \cup {tx.ref}])

ApplyTx(st, tx) ==
  CASE ~Verified(tx)         -> Outcome(FALSE, st)
    [] Verified(tx) /\ tx.type = "Transfer" -> ApplyTransfer(st, tx)
    [] Verified(tx) /\ tx.type = "Burn"     -> ApplyBurn(st, tx)
    [] Verified(tx) /\ tx.type = "Register" -> ApplyRegister(st, tx)
    [] Verified(tx) /\ tx.type = "Mint"     -> ApplyMint(st, tx)

CanApply(st, tx) == ApplyTx(st, tx).ok

\* One turn of apply_block's loop: the tip goes to the producer
PayProducer(st, k, x) ==
  IF x > 0 THEN Credit(Ensure(st, k), ShortIdOf[k], x) ELSE st
ApplyInBlock(st, tx, k) ==
  LET r == ApplyTx(st, tx)
  IN  IF r.ok THEN Outcome(TRUE, PayProducer(r.st, k, Fee(tx))) ELSE r

\* The reward of every block but the one at height 0
Reward(st, k, h) ==
  IF h > 0 /\ BlockReward > 0
  THEN [PayProducer(st, k, BlockReward) EXCEPT !.supply = SatAdd(@, BlockReward)]
  ELSE st

-----------------------------------------------------------------------------
(* What properties say of a state                                          *)

BalanceOf(st, sid) == IF Has(st, sid) THEN st.accounts[sid].balance ELSE 0
TotalBalance(st)   == SumFunction([sid \in ShortId |-> BalanceOf(st, sid)])

\* What one state keeps of another: no account disappears or changes hands,
\* no nonce goes back, no PQ key is replaced, no external_ref is forgotten.
Grows(old, new) ==
  /\ \A sid \in ShortId : Has(old, sid) =>
       LET a == old.accounts[sid]
           b == new.accounts[sid]
       IN  /\ Has(new, sid)
           /\ b.pubkey = a.pubkey
           /\ b.nonce >= a.nonce
           /\ a.pq # NoPq => b.pq = a.pq
  /\ old.refs \subseteq new.refs

\* What an effect leaves behind in the state, which refuses it from then on:
\* a spent nonce, a used external_ref, a bound PQ key.
NonceSpent(st, tx) ==
  /\ Has(st, Sender(tx))
  /\ tx.nonce < st.accounts[Sender(tx)].nonce \/ tx.nonce = MaxNonce
RefSpent(st, tx) == tx.type = "Mint" => tx.ref \in st.refs
KeyBound(st, tx) ==
  IsSpend(tx) =>
    /\ tx.from = Sender(tx)
    /\ LargeSpend(tx) => /\ tx.env.pq # NoPq
                         /\ st.accounts[tx.from].pq = tx.env.pq

Recorded(st, tx) == NonceSpent(st, tx) /\ RefSpent(st, tx) /\ KeyBound(st, tx)

=============================================================================
