----------------------------- MODULE MCObserver -----------------------------
(***************************************************************************)
(* Two validators and an observer, with maps so small that they are        *)
(* pruned.  The validators decide between rival blocks while the observer  *)
(* is away.  It comes when their chain is complete and saved; which        *)
(* payloads it has, and who restarted, make no difference to it, so that   *)
(* is tried with one payload and no restart of a validator.                *)
(***************************************************************************)
EXTENDS MCBlockFinality

Joining ==
  /\ \A v \in Validator : Len(disk[v]) = TopHeight + 1
  /\ \E v \in Variant : \A b \in sentBlocks : b.v = v
  /\ \A v \in Validator : restarts[v] = 0

Silent == IF Joining THEN Validator ELSE Observer

Local(n) == <<chain[n], pending[n], seen[n], acks[n], todo[n], disk[n], archive[n], restarts[n]>>

\* The validators' tracker is not pruned, and blocks are timely
Acting ==
  /\ \A n \in Silent : Local(n)' = Local(n)
  /\ \A n \in Validator : ~PruneAcks(n)
  /\ Timely

ObserverNext ==
  \/ GossipNext /\ Acting
  \/ \E n, m \in Node, b \in Block : CatchUp(n, m, b) /\ Acting
  \/ \E n, m \in Node : \E k \in DOMAIN disk[m] : AdoptSnapshot(n, m, k) /\ Acting
  \/ \E n \in Node : \/ PruneSeen(n) /\ Acting
                     \/ PruneAcks(n) /\ Acting
                     \/ Restart(n) /\ Acting

ObserverSpec == Init /\ [][ObserverNext]_vars

(* Validators that act no more count with their chains and files.          *)
MCView ==
  IF Joining
  THEN <<Joining, chain, files, messages, restarts, [n \in Observer |-> Local(n)]>>
  ELSE <<Joining, View>>
=============================================================================
