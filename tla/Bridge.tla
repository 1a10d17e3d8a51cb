------------------------------- MODULE Bridge -------------------------------
(***************************************************************************)
(* The way between the Solana vault and the mesh: the relayer daemon that  *)
(* mints for every deposit (programs-mesh-bridge/scripts/relayer_daemon.ts,*)
(* mint_for_deposit in crates/node/src/main.rs), the faucet that mints with*)
(* the same validator key, the wallets that burn (burn_for_withdraw) and   *)
(* the unlocks that the attestors sign.                                    *)
(*                                                                         *)
(* The mesh is what Ledger, Mempool and BlockFinality make of it: one      *)
(* final ledger, changed by one transaction at a time, and the mempools    *)
(* and proposals of its peers, in memory, which may lose a transaction.    *)
(***************************************************************************)
EXTENDS Vault, Functions, FiniteSetsExt

CONSTANTS
  Attestor,     \* keys of the mesh witnesses
  Careful,      \* those who look for the burn on the mesh before they sign
  Drip,         \* references of faucet drips
  DripAmount,   \* what the faucet mints
  MaxNonce,     \* bound: nonces of a wallet
  MaxLosses,    \* bound: transactions that the peers lose
  MaxCrashes    \* bound: crashes of the relayer

ASSUME BridgeAssumption ==
  /\ Attestor \subseteq Key /\ Careful \subseteq Attestor
  /\ IsFiniteSet(Attestor \ Careful) /\ IsFiniteSet(MeshId)
  /\ \A list \in Witnesses : \A i \in DOMAIN list : list[i] \in Attestor
  /\ Drip \cap (1 .. MaxDeposits) = {}
  /\ DripAmount \in Nat /\ MaxNonce \in Nat
  /\ MaxLosses \in Nat /\ MaxCrashes \in Nat

VARIABLES
  mesh,     \* the final ledger
  wire,     \* transactions sent to the peer and not read yet
  pool,     \* in the peers' mempools and undecided proposals
  losses,   \* transactions lost so far
  file,     \* processedSeqs in relayer_state.json; nothing reads the rest
  relayer,  \* memory of the relayer
  crashes   \* crashes so far

bridgeVars == <<mesh, wire, pool, losses, file, relayer, crashes>>
vars       == <<vaultVars, bridgeVars>>

Seq1 == 1 .. MaxDeposits

MintTx == [kind : {"mint"}, ref : Seq1 \cup Drip, nonce : Nat, to : MeshId, amount : Nat]
BurnTx == [kind : {"burn"}, nonce : Nat, from : MeshId, amount : Nat]

MeshLedger ==
  [nonce : Nat, mints : SUBSET MintTx, burns : SUBSET BurnTx,
   known : SUBSET MeshId, bal : [MeshId -> Nat], next : [MeshId -> Nat]]

\* The relayer between two polls, and in one
Idle == [pc |-> "idle"]
Scan == [pc : {"deposit", "sent"}, count : Seq1, done : SUBSET Seq1, seq : Seq1]

InitBridge ==
  /\ mesh = [nonce |-> 0, mints |-> {}, burns |-> {}, known |-> {},
             bal |-> [id \in MeshId |-> 0], next |-> [id \in MeshId |-> 0]]
  /\ wire = {} /\ pool = {} /\ losses = 0
  /\ file = {}
  /\ relayer = Idle
  /\ crashes = 0

-----------------------------------------------------------------------------
(* The mesh *)

\* No mint before the n-th has the reference: used_external_refs of a state
\* in which the minter's next nonce is n
AnyRef(ref, n) == TRUE
FreshRef(ref, n) == \A m \in mesh.mints : m.nonce < n => m.ref # ref

\* A reference is minted once, at the minter's next nonce; a wallet burns
\* what it has, at its next nonce
CanApply(tx) ==
  IF tx.kind = "mint"
  THEN tx.nonce = mesh.nonce /\ FreshRef(tx.ref, mesh.nonce)
  ELSE tx.nonce = mesh.next[tx.from] /\ tx.amount <= mesh.bal[tx.from]

Applied(tx) ==
  IF tx.kind = "mint"
  THEN [mesh EXCEPT !.nonce = @ + 1, !.mints = @ \cup {tx},
                    !.known = @ \cup {tx.to}, !.bal[tx.to] = @ + tx.amount]
  ELSE [mesh EXCEPT !.next[tx.from] = @ + 1, !.burns = @ \cup {tx},
                    !.bal[tx.from] = @ - tx.amount]

\* A wallet's key becomes known: a Register transaction or registry.json
Register(id) ==
  /\ id \notin mesh.known
  /\ mesh' = [mesh EXCEPT !.known = @ \cup {id}]
  /\ UNCHANGED <<vaultVars, wire, pool, losses, file, relayer, crashes>>

\* The peer keeps what applies and drops the rest
Receive(tx) ==
  /\ tx \in wire
  /\ wire' = wire \ {tx}
  /\ pool' = IF CanApply(tx) THEN pool \cup {tx} ELSE pool
  /\ UNCHANGED <<vaultVars, mesh, losses, file, relayer, crashes>>

(* A peer loses what it was sent to its rate limit, or what it holds: to   *)
(* the limit of its mempool, with a proposal that it packed and that never *)
(* became final, or at its end, for mempools are not saved.                *)
Lose(tx) ==
  /\ tx \in wire \cup pool /\ losses < MaxLosses
  /\ wire' = wire \ {tx} /\ pool' = pool \ {tx}
  /\ losses' = losses + 1
  /\ UNCHANGED <<vaultVars, mesh, file, relayer, crashes>>

\* A transaction of the pool becomes final; what no longer applies is dropped
Include(tx) ==
  /\ tx \in pool /\ CanApply(tx)
  /\ mesh' = Applied(tx)
  /\ pool' = {t \in pool : t # tx /\ CanApply(t)'}
  /\ UNCHANGED <<vaultVars, wire, losses, file, relayer, crashes>>

-----------------------------------------------------------------------------
(* mint-for-deposit and burn-for-withdraw sign at the nonce in the state   *)
(* file of a validator, which may lie behind the mesh (without a state     *)
(* file, at genesis), and send the transaction to a peer, which reads it   *)
(* some time later                                                         *)

LocalNonce == 0 .. mesh.nonce

SignMint(ref, n, id, x) ==
  [kind |-> "mint", ref |-> ref, nonce |-> n, to |-> id, amount |-> x]

Pending == wire \cup pool

\* The faucet, with the validator key that the relayer uses
SendDrip(d, n, id) ==
  /\ FreshRef(d, n)
  /\ \A t \in Pending : t.kind = "mint" => t.ref # d
  /\ wire' = wire \cup {SignMint(d, n, id, DripAmount)}
  /\ UNCHANGED <<vaultVars, mesh, pool, losses, file, relayer, crashes>>

\* The balance in the state file may be an old one: the peer looks again
SendBurn(id, n, x) ==
  /\ id \in mesh.known
  /\ n < MaxNonce
  /\ wire' = wire \cup {[kind |-> "burn", nonce |-> n, from |-> id, amount |-> x]}
  /\ UNCHANGED <<vaultVars, mesh, pool, losses, file, relayer, crashes>>

-----------------------------------------------------------------------------
(* The relayer: a poll reads the number of deposits and its state file and *)
(* goes through the deposits in order                                      *)

\* A poll that has dealt with every deposit before seq
At(seq) ==
  LET left == {i \in seq .. relayer.count : i \notin relayer.done}
  IN  IF left = {} THEN Idle
      ELSE [pc |-> "deposit", count |-> relayer.count, done |-> relayer.done,
            seq |-> Min(left)]

PollPastLast ==
  LET new == {i \in DOMAIN deposits : \A j \in file : j < i}
  IN  /\ relayer = Idle /\ new # {}
      /\ relayer' = [pc |-> "deposit", count |-> Len(deposits), done |-> file, seq |-> Min(new)]
      /\ UNCHANGED <<vaultVars, mesh, wire, pool, losses, file, crashes>>
Poll ==
  /\ relayer = Idle
  /\ \E i \in DOMAIN deposits : i \notin file
  /\ relayer' = [pc |-> "deposit", count |-> Len(deposits), done |-> file,
                 seq |-> Min({i \in DOMAIN deposits : i \notin file})]
  /\ UNCHANGED <<vaultVars, mesh, wire, pool, losses, file, crashes>>

\* No key is known for the mesh id: try again at the next poll
Defer ==
  /\ relayer.pc = "deposit"
  /\ deposits[relayer.seq].meshId \notin mesh.known
  /\ relayer' = At(relayer.seq + 1)
  /\ UNCHANGED <<vaultVars, mesh, wire, pool, losses, file, crashes>>

\* processDeposit runs mint-for-deposit, which signs and sends the mint
SendMint ==
  LET i == relayer.seq
  IN  /\ relayer.pc = "deposit" /\ deposits[i].meshId \in mesh.known
      /\ \E n \in LocalNonce :
           /\ FreshRef(i, n)
           /\ wire' = wire \cup {SignMint(i, n, deposits[i].meshId, deposits[i].net)}
      /\ relayer' = [relayer EXCEPT !.pc = "sent"]
      /\ UNCHANGED <<vaultVars, mesh, pool, losses, file, crashes>>

\* The command fails, because the reference is in the state file or the peer
\* cannot be reached: the deposit stays
MintFails ==
  /\ relayer.pc = "deposit"
  /\ deposits[relayer.seq].meshId \in mesh.known
  /\ relayer' = At(relayer.seq + 1)
  /\ UNCHANGED <<vaultVars, mesh, wire, pool, losses, file, crashes>>

\* Sent is taken for minted.  (Above 10000 entries the oldest are forgotten.)
Record ==
  /\ relayer.pc = "sent"
  /\ file' = file \cup {relayer.seq}
  /\ relayer' = At(relayer.seq + 1)
  /\ UNCHANGED <<vaultVars, mesh, wire, pool, losses, crashes>>

(* The daemon is killed at any point and started again.  Killed while it   *)
(* saves, it leaves a file cut short, which it reads as an empty one.      *)
Crash ==
  /\ relayer # Idle /\ crashes < MaxCrashes
  /\ crashes' = crashes + 1
  /\ relayer' = Idle
  /\ file' \in {file, {}}
  /\ UNCHANGED <<vaultVars, mesh, wire, pool, losses>>

-----------------------------------------------------------------------------
(* Unlocks.  A careful attestor signs a transaction only for a burn that   *)
(* is final on the mesh, of that amount and that mesh id ("they attest     *)
(* mesh Burn finality", lib.rs).  Any other key signs what it likes, as    *)
(* e2e_cashout.ts and e2e_hybrid_roundtrip.sh do with every attestor's.    *)

Attested(i, burn, x) ==
  burn \in mesh.burns /\ burn.amount = x /\ burn.from = deposits[i].meshId

Unlocking ==
  /\ \E i \in DOMAIN deposits, burn \in BurnId, x \in Amount :
     \E S \in SUBSET Key : \E r \in S :
       /\ S \cap Careful # {} => Attested(i, burn, x)
       /\ Withdraw(i, burn, x, S, r)
  /\ UNCHANGED bridgeVars

Locking ==
  /\ \E s \in Asset, id \in MeshId, x \in Amount : Deposit(s, id, x)
  /\ UNCHANGED bridgeVars

Giving == (\E s \in Asset, x \in Amount : Donate(s, x)) /\ UNCHANGED bridgeVars

Governing == Administer /\ UNCHANGED bridgeVars

Relaying == Poll \/ Defer \/ SendMint \/ MintFails \/ Record \/ Crash

MeshStep ==
  \/ \E id \in MeshId : Register(id)
  \/ \E d \in Drip, n \in LocalNonce, id \in MeshId : SendDrip(d, n, id)
  \/ \E id \in MeshId : \E n \in 0 .. mesh.next[id], x \in Amount : SendBurn(id, n, x)
  \/ \E tx \in wire : Receive(tx)
  \/ \E tx \in wire \cup pool : Lose(tx)
  \/ \E tx \in pool : Include(tx)

Init == InitVault /\ InitBridge
Next == Locking \/ Unlocking \/ Giving \/ Governing \/ Relaying \/ MeshStep

Spec == Init /\ [][Next]_vars

(* The daemon polls for ever and its commands end; the peer can be reached *)
(* again and again.                                                        *)
Fairness ==
  /\ WF_vars(Poll) /\ WF_vars(Defer) /\ WF_vars(MintFails) /\ WF_vars(Record)
  /\ SF_vars(SendMint)

FairSpec == Spec /\ Fairness

-----------------------------------------------------------------------------
TypeOK ==
  /\ config \in BridgeConfig
  /\ deposits \in Seq(DepositRecord)
  /\ unlocks \subseteq WithdrawRecord
  /\ vault \in [Asset -> U64]
  /\ mesh \in MeshLedger
  /\ wire \subseteq MintTx \cup BurnTx /\ pool \subseteq MintTx \cup BurnTx
  /\ file \subseteq DOMAIN deposits /\ crashes \in 0 .. MaxCrashes
  /\ losses \in 0 .. MaxLosses
  /\ relayer \in {Idle} \cup Scan

UnlocksOf(i) == {u \in unlocks : u.deposit = i}
Unlocked(i)  == SumFunction([u \in UnlocksOf(i) |-> u.amount])

(* A record accounts for every unlock taken from it, in either asset and   *)
(* under either policy, and they never exceed what was locked less the fee.*)
WithinNet ==
  \A i \in DOMAIN deposits :
    Unlocked(i) = deposits[i].unlocked /\ deposits[i].unlocked <= deposits[i].net

LockedIn(s) == {i \in DOMAIN deposits : deposits[i].asset = s}
PaidIn(s)   == {u \in unlocks : u.asset = s}

Claims(s) == SumFunction([i \in LockedIn(s) |-> deposits[i].net - deposits[i].unlocked])
Fees(s)   == SumFunction([i \in LockedIn(s) |-> deposits[i].gross - deposits[i].net])
             + SumFunction([u \in PaidIn(s) |-> u.amount - u.out])

(* As long as no unlock was paid in another asset than its deposit, the    *)
(* vault covers the rent, every claim that is still open, and the fees.    *)
Solvent ==
  (\A u \in unlocks : u.asset = deposits[u.deposit].asset) =>
    \A s \in Asset :
      vault[s] >= (IF s = Sol THEN MinRent ELSE 0) + Claims(s) + Fees(s)

\* More attestors signed than there are careless ones
Vouched(u) == u.attested > Cardinality(Attestor \ Careful)

(* An unlock that more attestors signed than there are careless ones is of *)
(* a burn that is final on the mesh, of that amount and by the wallet the  *)
(* funds were locked for, and no other unlock, however signed, is of the   *)
(* same burn: whatever the authority does to the list in between.          *)
UnlockIsBurned ==
  \A u \in unlocks : Vouched(u) =>
    /\ u.burn \in mesh.burns
    /\ u.burn.amount = u.amount /\ u.burn.from = deposits[u.deposit].meshId
    /\ \A w \in unlocks : w.burn = u.burn => w = u

MintedRefs == {m.ref : m \in mesh.mints}
Dripped    == {m \in mesh.mints : m.ref \in Drip}

Circulating == SumFunction(mesh.bal)
OpenClaims  == SumFunction([i \in DOMAIN deposits |-> deposits[i].net - deposits[i].unlocked])
Drips       == SumFunction([m \in Dripped |-> m.amount])

(* The peg: as long as every unlock was vouched for, what circulates on    *)
(* the mesh is covered by open claims on the vault, but for what the       *)
(* faucet gave away, through lost and rival transactions, crashes of the   *)
(* daemon and resent mints.                                                *)
PegHolds ==
  (\A u \in unlocks : Vouched(u)) => Circulating <= OpenClaims + Drips

(* A deposit is minted at most once and as it was locked, also when the    *)
(* daemon dies between sending a mint and recording it.                    *)
DepositMintedOnce ==
  \A m \in mesh.mints : m.ref \in Seq1 =>
    /\ m.ref \in DOMAIN deposits
    /\ m.to = deposits[m.ref].meshId /\ m.amount = deposits[m.ref].net
    /\ \A k \in mesh.mints : k.ref = m.ref => k = m

OnItsWay(i) == \E tx \in wire \cup pool : tx.kind = "mint" /\ tx.ref = i

(* relayer_daemon.ts:318: a poll rescans "anything not yet minted": what   *)
(* it leaves out for good is minted or on its way.                         *)
ProcessedIsMinted == \A i \in file : i \in MintedRefs \/ OnItsWay(i)

(* Every deposit of a known mesh id is sent to the mesh in the end, through *)
(* deferrals, unreachable peers and crashes of the daemon.                 *)
DepositIsSent ==
  \A i \in Seq1 :
    i \in DOMAIN deposits /\ deposits[i].meshId \in mesh.known
      ~> i \in file \cup MintedRefs

-----------------------------------------------------------------------------
(* The inductive invariant.                                                *)

\* Only witnesses are attestors, and records are never taken back
VaultInv ==
  /\ Listed \subseteq Attestor
  /\ Len(deposits) <= MaxDeposits
  /\ \A i \in DOMAIN deposits : deposits[i].unlocked <= deposits[i].net
  /\ \A u \in unlocks : u.deposit \in DOMAIN deposits
  /\ \A u, w \in unlocks : u.burn = w.burn => u = w

\* The relayer is at a deposit that exists
RelayerInv ==
  relayer # Idle => relayer.count <= Len(deposits) /\ relayer.seq <= relayer.count

\* Every mint of a deposit, final or not, was signed from its record, and the
\* final ones are in the order of their nonces
MintInv ==
  /\ \A m \in mesh.mints : m.nonce < mesh.nonce
  /\ \A tx \in mesh.mints \cup {t \in Pending : t.kind = "mint"} :
       tx.ref \in Seq1 =>
         /\ tx.ref \in DOMAIN deposits
         /\ tx.to = deposits[tx.ref].meshId /\ tx.amount = deposits[tx.ref].net
  /\ \A m, k \in mesh.mints : m.ref = k.ref => m = k

IInv == TypeOK /\ VaultInv /\ RelayerInv /\ MintInv /\ UnlockIsBurned

\* What the peg rests on: every coin was minted for a deposit or dripped, and
\* what circulates no more was burned; every claim is open or paid
MintedSeqs == MintedRefs \cap Seq1
MintedNet  == SumFunction([i \in MintedSeqs |-> deposits[i].net])
Burned     == SumFunction([b \in mesh.burns |-> b.amount])
LockedNet  == SumFunction([i \in DOMAIN deposits |-> deposits[i].net])
PaidOut    == SumFunction([u \in unlocks |-> u.amount])

CoinsInv ==
  /\ IsFiniteSet(mesh.mints) /\ IsFiniteSet(mesh.burns)
  /\ \A b \in mesh.burns : b.nonce < mesh.next[b.from]
  /\ Circulating + Burned = Drips + MintedNet
ClaimsInv == OpenClaims + PaidOut = LockedNet
PegInv    == CoinsInv /\ ClaimsInv

\* The books of the vault: sums over finitely many records
BooksInv == IsFiniteSet(unlocks) /\ WithinNet /\ Solvent

=============================================================================
