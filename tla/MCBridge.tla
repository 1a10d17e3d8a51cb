------------------------------ MODULE MCBridge ------------------------------
(***************************************************************************)
(* Instances of Bridge: attestors kA and kB, an outsider kR.  Behaviours   *)
(* come in two families, so that the policies of the vault need not be     *)
(* multiplied with the steps of the relayer.                               *)
(*   "relay":  the hybrid policy with both attestors is in force; SOL is   *)
(*             locked, minted, burned and unlocked.                        *)
(*   "unlock": the daemon is down; the authority changes its mind, SOL and *)
(*             tokens are locked, and unlocked against burns of what the   *)
(*             faucet gave.                                                *)
(***************************************************************************)
EXTENDS Bridge

CONSTANTS kA, kB, kR, MaxUnlocks

VARIABLE family

MCKey       == {kA, kB, kR}
MCAttestor  == {kA, kB}
MCCareful   == {kA}
MCWitnesses == {<<kA, kB>>, <<kB, kB>>}

Burn(id, n, x) == [kind |-> "burn", nonce |-> n, from |-> id, amount |-> x]
First == CHOOSE i \in MeshId : TRUE
MCBurnId == {Burn(First, 0, x) : x \in Amount}

\* The first wallet received a drip and burned it; no other burn is final
BurnedLedger ==
  LET id == First
      d  == CHOOSE r \in Drip : TRUE
  IN  [nonce |-> 1, known |-> {id},
       mints |-> {[kind |-> "mint", ref |-> d, nonce |-> 0, to |-> id, amount |-> DripAmount]},
       burns |-> {Burn(id, 0, DripAmount)},
       bal |-> [i \in MeshId |-> 0], next |-> [i \in MeshId |-> IF i = id THEN 1 ELSE 0]]

MCInit ==
  \/ /\ family = "relay"
     /\ InitBridge
     /\ deposits = <<>> /\ unlocks = {}
     /\ vault = [s \in Asset |-> IF s = Sol THEN MinRent ELSE 0]
     /\ config = [relayer |-> kR, fee |-> 2500, wfee |-> 2500, paused |-> FALSE,
                  hybrid |-> TRUE, min |-> 2, attestors |-> <<kA, kB>>,
                  totalIn |-> 0, totalOut |-> 0]
  \/ /\ family = "unlock"
     /\ InitVault
     /\ mesh = BurnedLedger
     /\ wire = {} /\ pool = {} /\ losses = 0 /\ relayer = Idle /\ crashes = 0
     /\ file = {}

MCNext ==
  /\ \/ /\ family = "relay"
        /\ \/ /\ \E id \in MeshId : /\ deposits = <<>> => id = First
                                    /\ Deposit(Sol, id, Max(Amount))
              /\ UNCHANGED bridgeVars
           \/ Unlocking \/ Relaying
           \/ /\ MeshStep
              /\ \A tx \in wire' \ wire :
                   IF tx.kind = "burn" THEN tx.from = First /\ tx.amount = Min(Amount)
                                       ELSE tx.ref \in Drip => tx.to = First
        /\ losses' + crashes' <= 1
     \/ /\ family = "unlock"
        /\ \/ Locking /\ \A i \in DOMAIN deposits' : deposits'[i].gross = Max(Amount)
           \/ Governing
           \/ /\ deposits = <<>> /\ vault[Sol] = MinRent /\ Giving
              /\ vault'[Sol] = MinRent + Min(Amount)
           \/ Cardinality(unlocks) < MaxUnlocks /\ Unlocking
  /\ UNCHANGED family

MCSpec == MCInit /\ [][MCNext]_<<vars, family>> /\ Fairness
=============================================================================
