-------------------------- MODULE MCBlockFinality --------------------------
(* Instances of BlockFinality for TLC: a block is the record of its height,*)
(* its parent and a payload, up to a largest height.                       *)
EXTENDS BlockFinality, TLC

CONSTANTS Variant, TopHeight

RootBlocks == {[h |-> 0, prev |-> NoBlock, v |-> v] : v \in Variant}
Children(S) == {[h |-> p.h + 1, prev |-> p, v |-> v] : p \in S, v \in Variant}

MCBlock ==
  LET upTo[h \in 0 .. TopHeight] ==
        IF h = 0 THEN RootBlocks
        ELSE upTo[h-1] \cup Children({b \in upTo[h-1] : b.h = h-1})
  IN  upTo[TopHeight]

MCHeight == [b \in MCBlock |-> b.h]
MCPrev   == [b \in MCBlock |-> b.prev]

Symmetry == Permutations(Variant)

(* Two states that differ only in what a node still remembers of heights   *)
(* below its tip have the same future: a pending block of such a height is *)
(* never applied, and its acknowledgements only let it be dropped.  (Not   *)
(* for runs that can prune the tracker, whose size they count for.)        *)
AtOrAboveTip(n, S) == {b \in S : Height[b] >= Expected(n)}
View ==
  <<chain, seen, todo, files, messages, restarts,
    [n \in Node |-> AtOrAboveTip(n, pending[n])],
    [n \in Node |-> {a \in acks[n] : Height[a[1]] >= Expected(n)}]>>

(* Validators alone, with maps too large for the run to fill: no snapshot  *)
(* is adopted and nothing is pruned, so the rest of Next is all of it.     *)
CrashNext ==
  \/ GossipNext
  \/ \E n, m \in Node, b \in Block : CatchUp(n, m, b)
  \/ \E n \in Node : Restart(n)
CrashSpec == Init /\ [][CrashNext]_vars
=============================================================================
