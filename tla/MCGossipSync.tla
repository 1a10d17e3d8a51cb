---------------------------- MODULE MCGossipSync ----------------------------
(***************************************************************************)
(* Instances of GossipSync: producers v0 and v1, observer o, everyone      *)
(* dials v0.                                                               *)
(***************************************************************************)
EXTENDS GossipSync

MCBootstrap == [n \in Node |-> IF "v0" \in Node \ {n} THEN {"v0"} ELSE {}]

\* Every node runs and is connected to v0, with the genesis block or without
\* it; or v0 is down, nothing else will fail, and the others try to reach it
MCInit ==
  /\ \E k \in 0 .. 1 : /\ chain = [n \in Node |-> k]
                       /\ archive = [n \in Node |-> 0 .. k - 1]
  /\ \/ /\ phase    = [n \in Node |-> "running"]
        /\ dialling = [n \in Node |-> {}]
        /\ conns    = {<<n, p>> \in Node \X Node : p \in Bootstrap[n]}
        /\ faults   = [crash |-> 0, break |-> 0, drop |-> 0]
     \/ /\ phase    = [n \in Node |-> IF n = "v0" THEN "down" ELSE "running"]
        /\ dialling = Bootstrap /\ conns = {}
        /\ faults   = [crash |-> MaxCrashes, break |-> MaxBreaks, drop |-> MaxDrops]
  /\ wire     = [n \in Node |-> [m \in Node |-> {}]] /\ heard = [n \in Node |-> {}]

MCSpec == MCInit /\ [][Next]_vars /\ Fairness

-----------------------------------------------------------------------------
(* One producer and an observer: blocks, and files of blocks, are v0's     *)
(* first, so the observer is never ahead, and what v0 asks for is left     *)
(* out: nobody would answer.                                               *)
Ahead == \A n \in Node : chain'[n] <= chain'["v0"] /\ archive'[n] \subseteq 0 .. chain'["v0"] - 1

OneServerNext ==
  \/ \E m, n \in Node : \E line \in wire[m][n] : Receive(m, n, line) \/ RateLimit(m, n, line)
  \/ AskBlocks("o") \/ AskState("o")
  \/ \E G \in SUBSET Node : FinalizeLive(G) /\ Ahead
  \/ \E n \in Node : Start(n) \/ SayHello(n) \/ (Crash(n) /\ Ahead)
  \/ \E n, p \in Node : Dial(n, p) \/ GiveUp(n, p)
  \/ \E c \in conns : Break(c)

OneServerSpec ==
  /\ MCInit /\ [][OneServerNext]_vars
  /\ WF_vars(AskBlocks("o")) /\ WF_vars(AskState("o"))
  /\ \A n \in Node : WF_vars(SayHello(n))
  /\ \A m, n \in Node :
       WF_vars(Dial(m, n)) /\ WF_vars(\E line \in wire[m][n] : Receive(m, n, line))
=============================================================================
