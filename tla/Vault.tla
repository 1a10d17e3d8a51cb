------------------------------- MODULE Vault -------------------------------
(***************************************************************************)
(* The Solana program that locks SOL and tokens for a mesh wallet and      *)
(* unlocks them against a burn on the mesh:                                *)
(* programs-mesh-bridge/programs/programs-mesh-bridge/src/lib.rs.          *)
(*                                                                         *)
(* One action is one instruction that succeeds; an instruction that fails  *)
(* changes nothing.  Solana runs the instructions that touch the           *)
(* configuration account one after the other.  A transaction carries the   *)
(* keys that signed it.  Records are created at addresses derived from     *)
(* their number or from the burn, so each is created once.                 *)
(***************************************************************************)
EXTENDS Integers, Sequences, FiniteSets

CONSTANTS
  Key,          \* Solana public keys
  MeshId,       \* mesh short ids other than the zero id
  BurnId,       \* burn transaction ids other than the zero id
  Mint,         \* SPL mints
  Sol,          \* the native asset, no mint
  MaxU64,       \* 2^64 - 1
  MinRent,      \* lamports that keep the vault account alive
  MaxAttestors, \* 8
  Amount,       \* bound: amounts passed in instructions
  Bps,          \* bound: fees passed in instructions (u16)
  Witnesses,    \* bound: lists passed to set_attestors
  MaxDeposits   \* bound: deposits of an instance

Asset       == Mint \cup {Sol}
U16         == 0 .. 65535
U64         == 0 .. MaxU64
BasisPoints == 0 .. 10000

ASSUME VaultAssumption ==
  /\ Sol \notin Mint
  /\ MaxU64 \in Nat /\ MinRent \in U64 /\ MaxAttestors \in Nat
  /\ Amount \subseteq U64 /\ Bps \subseteq U16
  /\ Witnesses \subseteq Seq(Key)
  /\ MaxDeposits \in Nat

VARIABLES
  config,   \* BridgeConfig: policy, fees, relayer, totals
  deposits, \* the deposit records, deposits[seq + 1]
  unlocks,  \* the withdraw records
  vault     \* lamports and tokens held, per asset

BridgeConfig ==
  [relayer : Key, fee : BasisPoints, wfee : BasisPoints, paused : BOOLEAN,
   hybrid : BOOLEAN, min : 0 .. MaxAttestors, attestors : Seq(Key),
   totalIn : U64, totalOut : U64]

DepositRecord ==
  [meshId : MeshId, asset : Asset, gross : U64, net : U64, unlocked : U64]

WithdrawRecord ==
  [burn : BurnId, deposit : 1 .. MaxDeposits, asset : Asset,
   amount : U64, out : U64, attested : Nat]

vaultVars == <<config, deposits, unlocks, vault>>

-----------------------------------------------------------------------------
MulBps(x, bps) == (x * bps) \div 10000
BpsFits(x, bps) == x * bps <= MaxU64

Listed == {config.attestors[i] : i \in DOMAIN config.attestors}

\* count_attestor_signers: every signer counts once, however often listed
AttestorPlaces(S) == Cardinality({i \in DOMAIN config.attestors : config.attestors[i] \in S})
AttestorSigners(S) == Cardinality(S \cap Listed)

\* What the withdraw record says of the signers
Attestations(S) == IF config.hybrid THEN AttestorSigners(S) ELSE 0

(* The transaction was signed by S and paid for by r. *)
Authorized(S, r) ==
  IF config.hybrid
  THEN /\ config.min >= 1 /\ Len(config.attestors) >= config.min
       /\ AttestorSigners(S) >= config.min
  ELSE r = config.relayer

ValidPolicyAnyMin(hybrid, min) == ~(hybrid /\ min = 0)
ValidPolicy(hybrid, min) == ~(hybrid /\ min = 0) /\ min <= MaxAttestors

\* initialize: the authority is the first relayer
FirstConfig(k, f, w, h, m) ==
  [relayer |-> k, fee |-> f, wfee |-> w, paused |-> FALSE, hybrid |-> h, min |-> m,
   attestors |-> <<>>, totalIn |-> 0, totalOut |-> 0]

InitVault ==
  /\ \E k \in Key, f, w \in Bps, h \in BOOLEAN, m \in 0 .. MaxAttestors :
       /\ f <= 10000 /\ w <= 10000 /\ ValidPolicy(h, m)
       /\ config = FirstConfig(k, f, w, h, m)
  /\ deposits = <<>>
  /\ unlocks = {}
  /\ vault = [s \in Asset |-> IF s = Sol THEN MinRent ELSE 0]

-----------------------------------------------------------------------------
(* Instructions signed by the authority *)

SetRelayer(k) ==
  /\ config' = [config EXCEPT !.relayer = k]
  /\ UNCHANGED <<deposits, unlocks, vault>>

SetPaused(p) ==
  /\ config' = [config EXCEPT !.paused = p]
  /\ UNCHANGED <<deposits, unlocks, vault>>

SetFees(f, w) ==
  /\ f <= 10000 /\ w <= 10000
  /\ config' = [config EXCEPT !.fee = f, !.wfee = w]
  /\ UNCHANGED <<deposits, unlocks, vault>>

\* The number of attestors registered is not looked at
SetHybrid(h, m) ==
  /\ ValidPolicy(h, m)
  /\ config' = [config EXCEPT !.hybrid = h, !.min = m]
  /\ UNCHANGED <<deposits, unlocks, vault>>

SetAttestors(list) ==
  /\ Len(list) \in 1 .. MaxAttestors
  /\ config.min <= Len(list)
  /\ config' = [config EXCEPT !.attestors = list]
  /\ UNCHANGED <<deposits, unlocks, vault>>

-----------------------------------------------------------------------------
\* A deposit record is created at the address derived from the next number
Recorded(record) == Append(deposits, record)

(* deposit_sol, deposit_spl: x units of s, in full into the vault, for a   *)
(* claim of what is left of x after the fee                                *)
Deposit(s, id, x) ==
  LET fee == MulBps(x, config.fee)
  IN  /\ ~config.paused /\ x > 0
      /\ BpsFits(x, config.fee) /\ x - fee > 0
      /\ Len(deposits) < MaxDeposits
      /\ s = Sol => config.totalIn + x <= MaxU64
      /\ vault[s] + x <= MaxU64
      /\ vault' = [vault EXCEPT ![s] = @ + x]
      /\ config' = [config EXCEPT !.totalIn = IF s = Sol THEN @ + x ELSE @]
      /\ deposits' = Recorded([meshId |-> id, asset |-> s, gross |-> x,
                               net |-> x - fee, unlocked |-> 0])
      /\ UNCHANGED unlocks

\* A withdraw record is created at an address derived from the burn
AnyBurn(burn) == TRUE
FreshBurn(burn) == \A u \in unlocks : u.burn # burn

WithinGross(i, x) == x <= deposits[i].gross - deposits[i].unlocked
WithinClaim(i, x) == x <= deposits[i].net - deposits[i].unlocked

TakenLast(unlocked, x) == x
Taken(unlocked, x) == unlocked + x

(* What withdraw_hybrid_sol and withdraw_hybrid_spl share: x units of the  *)
(* claim of deposit i, paid out in s less the fee, signed by S, paid by r  *)
Unlock(i, id, burn, x, s, S, r) ==
  LET fee == MulBps(x, config.wfee)
      out == x - fee
  IN  /\ ~config.paused /\ x > 0
      /\ deposits[i].meshId = id
      /\ WithinClaim(i, x)
      /\ Authorized(S, r)
      /\ BpsFits(x, config.wfee) /\ out > 0
      /\ FreshBurn(burn)
      /\ vault' = [vault EXCEPT ![s] = @ - out]
      /\ deposits' = [deposits EXCEPT ![i].unlocked = Taken(@, x)]
      /\ unlocks' = unlocks \cup {[burn |-> burn, deposit |-> i, asset |-> s,
                                   amount |-> x, out |-> out,
                                   attested |-> Attestations(S)]}
      /\ IF s = Sol
         THEN /\ (IF vault[s] >= out THEN vault[s] - out ELSE 0) >= MinRent
              /\ vault[s] >= out
              /\ config.totalOut + out <= MaxU64
              /\ config' = [config EXCEPT !.totalOut = @ + out]
         ELSE vault[s] >= out /\ UNCHANGED config

\* The deposit may be one of tokens: its asset is not looked at
WithdrawSol(i, id, burn, x, S, r) == Unlock(i, id, burn, x, Sol, S, r)

WithdrawSpl(i, id, burn, x, mint, S, r) ==
  /\ deposits[i].asset = mint
  /\ Unlock(i, id, burn, x, mint, S, r)

(* Lamports and tokens that reach the vault's accounts by no instruction of *)
(* the program, or by an unlock that names the vault as its destination.   *)
Donate(s, x) ==
  /\ vault[s] + x <= MaxU64
  /\ vault' = [vault EXCEPT ![s] = @ + x]
  /\ UNCHANGED <<config, deposits, unlocks>>

Withdraw(i, burn, x, S, r) ==
  \E id \in MeshId :
    \/ WithdrawSol(i, id, burn, x, S, r)
    \/ \E mint \in Mint : WithdrawSpl(i, id, burn, x, mint, S, r)

Administer ==
  \/ \E k \in Key : SetRelayer(k)
  \/ \E p \in BOOLEAN : SetPaused(p)
  \/ \E f, w \in Bps : SetFees(f, w)
  \/ \E h \in BOOLEAN, m \in 0 .. 255 : SetHybrid(h, m)
  \/ \E list \in Witnesses : SetAttestors(list)

VaultNext ==
  \/ Administer
  \/ \E s \in Asset, id \in MeshId, x \in Amount : Deposit(s, id, x)
  \/ \E s \in Asset, x \in Amount : Donate(s, x)
  \/ \E i \in DOMAIN deposits, burn \in BurnId, x \in Amount, S \in SUBSET Key :
       \E r \in S : Withdraw(i, burn, x, S, r)

VaultSpec == InitVault /\ [][VaultNext]_vaultVars

=============================================================================
