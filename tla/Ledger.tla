------------------------------- MODULE Ledger -------------------------------
(***************************************************************************)
(* One node's ledger: ChainState::apply_block of                           *)
(* crates/ledger/src/state.rs, over the operators of Accounts.             *)
(*                                                                         *)
(* A block is applied one transaction per step.  Its transactions are      *)
(* chosen as they are reached, so every block that verify_producer_sig     *)
(* lets through is covered.  apply_block stops at the first transaction    *)
(* that fails and leaves the earlier ones applied, and so does FailBlock.  *)
(***************************************************************************)
EXTENDS Accounts

CONSTANTS
  MaxHeight,  \* bound: applied blocks of an instance
  MaxHistory  \* bound: transactions that take effect in an instance

ASSUME BoundAssumption == MaxHeight \in Nat /\ MaxHistory \in Nat

VARIABLES
  ledger,   \* accounts, total_supply, used_external_refs
  applied,  \* length of state.applied; the next block has this height
  inBlock,  \* transactions of the running apply_block done, or NotInBlock
  history   \* every transaction that took effect, in order

vars == <<ledger, applied, inBlock, history>>

NotInBlock == -1
Running    == inBlock # NotInBlock

\* Seat height % N
Producer == Validators[(applied % Len(Validators)) + 1]

Init ==
  /\ ledger = GenesisState
  /\ applied = 0
  /\ inBlock = NotInBlock
  /\ history = <<>>

\* A block that extends the tip and is signed by its leader
StartBlock ==
  /\ ~Running
  /\ applied < MaxHeight
  /\ inBlock' = 0
  /\ UNCHANGED <<ledger, applied, history>>

ApplyNext(tx) ==
  LET r == ApplyInBlock(ledger, tx, Producer)
  IN  /\ Running /\ inBlock < MaxTxs
      /\ Len(history) < MaxHistory
      /\ Verified(tx)
      /\ r.ok
      /\ ledger' = r.st
      /\ history' = Append(history, tx)
      /\ inBlock' = inBlock + 1
      /\ UNCHANGED applied

\* The first error ends apply_block; what was written stays
FailBlock(tx) ==
  LET r == ApplyInBlock(ledger, tx, Producer)
  IN  /\ Running /\ inBlock < MaxTxs
      /\ Verified(tx)
      /\ ~r.ok
      /\ ledger' = r.st
      /\ inBlock' = NotInBlock
      /\ UNCHANGED <<applied, history>>

EndBlock ==
  /\ Running
  /\ ledger' = Reward(ledger, Producer, applied)
  /\ applied' = applied + 1
  /\ inBlock' = NotInBlock
  /\ UNCHANGED history

Next ==
  \/ StartBlock
  \/ \E tx \in Sent : ApplyNext(tx) \/ FailBlock(tx)
  \/ EndBlock

Spec == Init /\ [][Next]_vars

-----------------------------------------------------------------------------
(* Properties *)

\* No balance, nonce or supply leaves its width: no subtraction in the code
\* goes below zero and no addition wraps.
TypeOK ==
  /\ ledger \in State
  /\ applied \in Nat
  /\ inBlock \in {NotInBlock} \cup 0 .. MaxTxs
  /\ history \in Seq(Sent)

\* Accounts never hold more than the supply says, whatever blocks failed
\* halfway.  A failed block may lose value, since a debit can stay without its
\* credit.  For instances whose amounts cannot reach MaxU64: a saturated
\* supply has forgotten what it did not count.
NothingCreated == TotalBalance(ledger) <= ledger.supply

\* A signed transaction takes effect once: two effects of one sender never
\* have the same nonce, in one block or in several, after failures too.  The
\* exception is the last nonce, where saturating_add keeps the nonce in place.
OneTxPerNonce ==
  \A i, j \in DOMAIN history :
    /\ i # j
    /\ Sender(history[i]) = Sender(history[j])
    /\ history[i].nonce = history[j].nonce
    => history[i].nonce = MaxNonce

\* A bridge deposit mints at most once, whichever minter signs it.
OneMintPerRef ==
  \A i, j \in DOMAIN history :
    history[i].type = "Mint" /\ history[j].type = "Mint" /\ i # j
      => history[i].ref # history[j].ref

\* After a large spend every later spend of that account, however small,
\* carries the same PQ key.
BoundKeyHolds ==
  \A i, j \in DOMAIN history :
    /\ i < j
    /\ IsSpend(history[i]) /\ LargeSpend(history[i])
    /\ IsSpend(history[j]) /\ history[j].from = history[i].from
    => history[j].env.pq = history[i].env.pq

\* No step takes back what replay protection, the cold-key policy and the
\* mint guard rely on, a failing block included.
LedgerGrows == [][Grows(ledger, ledger')]_vars

-----------------------------------------------------------------------------
(* The inductive invariant: what took effect is on record in the ledger.   *)

IInv ==
  /\ TypeOK
  /\ \A i \in DOMAIN history : Recorded(ledger, history[i])
  /\ OneTxPerNonce /\ OneMintPerRef /\ BoundKeyHolds

=============================================================================
