------------------------------ MODULE FinalLog ------------------------------
(***************************************************************************)
(* What block finality promises: one growing chain of decided blocks, at   *)
(* most one per height, each the child of a decided one; every node holds  *)
(* a prefix of it, which may fall back when the node restarts but never    *)
(* onto another branch.                                                    *)
(***************************************************************************)
EXTENDS Integers, Sequences

CONSTANTS Node, Block, Height, Prev, NoBlock

VARIABLES
  decided,  \* the decided blocks
  view      \* view[n]: the chain node n holds, height 0 first

\* C is a chain of decided blocks from height 0.
ChainOf(C) ==
  \A i \in DOMAIN C :
    /\ C[i] \in decided /\ Height[C[i]] = i - 1
    /\ Prev[C[i]] = IF i = 1 THEN NoBlock ELSE C[i-1]

IsPrefixOf(C, D) == Len(C) <= Len(D) /\ \A i \in DOMAIN C : C[i] = D[i]

Init == decided = {} /\ view = [n \in Node |-> <<>>]

Decide(b) ==
  /\ \A c \in decided : Height[c] # Height[b]
  /\ \/ Height[b] = 0 /\ Prev[b] = NoBlock
     \/ Prev[b] \in decided /\ Height[b] = Height[Prev[b]] + 1
  /\ decided' = decided \cup {b}
  /\ UNCHANGED view

\* n learns more of the decided chain.
Extend(n) ==
  /\ view' = [view EXCEPT ![n] = view'[n]]
  /\ IsPrefixOf(view[n], view'[n]) /\ ChainOf(view'[n])
  /\ UNCHANGED decided

\* n restarts from what it had saved.
FallBack(n) ==
  /\ view' = [view EXCEPT ![n] = view'[n]]
  /\ IsPrefixOf(view'[n], view[n])
  /\ UNCHANGED decided

Next ==
  \/ \E b \in Block : Decide(b)
  \/ \E n \in Node : Extend(n) \/ FallBack(n)

Spec == Init /\ [][Next]_<<decided, view>>

=============================================================================
