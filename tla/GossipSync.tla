----------------------------- MODULE GossipSync -----------------------------
(***************************************************************************)
(* How a node that missed blocks gets them from its peers: the TCP gossip  *)
(* hub of crates/node/src/net.rs (connections, dialling, the reader threads *)
(* with their shared set of messages heard) and the catch-up handlers of   *)
(* crates/node/src/run.rs.                                                 *)
(*                                                                         *)
(* Final blocks form one chain (BlockFinality!Agreement), so a chain is    *)
(* its number of blocks, and block h is the one at height h.  Which blocks *)
(* a node finalizes live is left open.  A message is its dedup id: the     *)
(* parts that tell two ids apart are all that handlers look at.            *)
(***************************************************************************)
EXTENDS Integers, FiniteSets

CONSTANTS
  Producer,      \* nodes with a validator key
  Observer,      \* nodes without one
  Bootstrap,     \* the peers a node dials when it starts
  MaxBatch,      \* 64, blocks asked for at once
  LineBlocks,    \* blocks that fit in a line of 512 KiB
  LineStates,    \* heights at which the state in JSON fits in such a line
  MaxChain,      \* bound: blocks of the chain
  MaxCrashes,    \* bound: crashes of nodes
  MaxBreaks,     \* bound: connections that fail
  MaxDrops       \* bound: messages over the rate limit of a peer

Node == Producer \cup Observer

ASSUME GossipAssumption ==
  /\ Producer \cap Observer = {}
  /\ Bootstrap \in [Node -> SUBSET Node] /\ \A n \in Node : n \notin Bootstrap[n]
  /\ MaxBatch \in Nat \ {0} /\ LineBlocks \in Nat \ {0} /\ MaxChain \in Nat \ {0}
  /\ LineStates \subseteq Nat
  /\ MaxCrashes \in Nat /\ MaxBreaks \in Nat /\ MaxDrops \in Nat

VARIABLES
  chain,    \* number of blocks applied
  archive,  \* heights of the files in blocks/
  phase,    \* a process that is down, has yet to say hello, or runs
  dialling, \* peers the dial thread has yet to reach or give up
  conns,    \* connections, <<who dialled, who accepted>>
  wire,     \* wire[n][m]: lines n wrote and m's readers have not read, in any order
  heard,    \* ids the readers of a node have let through
  faults    \* crashes, breaks and drops so far

disk == <<chain, archive>>
net  == <<dialling, conns, wire>>
vars == <<disk, phase, net, heard, faults>>

Height == 0 .. MaxChain - 1

Msg ==
  [kind : {"hello"}, from : Producer \cup {"observer"}, height : Height]
    \cup [kind : {"blocksReq"}, from : 0 .. MaxChain]
    \cup [kind : {"blocks"}, first : Height, last : Height]
    \cup [kind : {"syncReq"}, have : Height]
    \cup [kind : {"sync"}, height : Height]

-----------------------------------------------------------------------------
\* state.height is 0 before the first block and after it
HeightOf(n) == IF chain[n] = 0 THEN 0 ELSE chain[n] - 1
Expected(n) == chain[n]

Longest == CHOOSE k \in 0 .. MaxChain :
             /\ \E n \in Node : chain[n] = k
             /\ \A n \in Node : chain[n] <= k

PeersIn(C, n) == {m \in Node : <<n, m>> \in C \/ <<m, n>> \in C}
Peers(n) == PeersIn(conns, n)

Running(n) == phase[n] = "running"

Init ==
  /\ chain    = [n \in Node |-> 0]
  /\ archive  = [n \in Node |-> {}]
  /\ phase    = [n \in Node |-> "down"]
  /\ dialling = [n \in Node |-> {}]
  /\ conns    = {}
  /\ wire     = [n \in Node |-> [m \in Node |-> {}]]
  /\ heard    = [n \in Node |-> {}]
  /\ faults   = [crash |-> 0, break |-> 0, drop |-> 0]

-----------------------------------------------------------------------------
(* Sending.  A line whose id the peer has heard is as good as not sent: its *)
(* reader would drop it.  (The ids are forgotten when there are 50000.)    *)

\* w after n broadcast the lines
Broadcast(w, n, lines) ==
  [w EXCEPT ![n] = [m \in Node |->
     IF m \in Peers(n) THEN @[m] \cup (lines \ heard[m]) ELSE @[m]]]

\* hub.broadcast refuses a line that is too long, and its callers go on
Fits(first, last) == last - first + 1 <= LineBlocks

\* (A state of more than 4 MiB is not even handed to broadcast.)
FitsState(height) == height \in LineStates

\* request_blocks_catchup
BlocksRequest(n) == [kind |-> "blocksReq", from |-> Expected(n)]
SyncRequest(n)   == [kind |-> "syncReq", have |-> HeightOf(n)]

ServedAfter(n, from) ==
  {h \in archive[n] : h \in from + 1 .. from + MaxBatch /\ from + 1 .. h \subseteq archive[n]}
\* load_finalized_blocks: the files from a height on, up to the first gap
Served(n, from) ==
  {h \in archive[n] : h \in from .. from + MaxBatch - 1 /\ from .. h \subseteq archive[n]}

BlocksFrom(n, from) ==
  LET s == Served(n, from)
  IN  IF s = {} \/ ~Fits(from, from + Cardinality(s) - 1) THEN {}
      ELSE {[kind |-> "blocks", first |-> from, last |-> from + Cardinality(s) - 1]}

-----------------------------------------------------------------------------
(* The handlers: what node n answers and what becomes of its chain         *)

HelloOfNext(n) ==
  [kind |-> "hello", from |-> IF n \in Producer THEN n ELSE "observer", height |-> Expected(n)]
Hello(n) ==
  [kind |-> "hello", from |-> IF n \in Producer THEN n ELSE "observer", height |-> HeightOf(n)]

\* The snapshot, for observers
StateOf(n) ==
  IF FitsState(HeightOf(n)) THEN {[kind |-> "sync", height |-> HeightOf(n)]} ELSE {}

Answer(n, m) ==
  CASE m.kind = "hello" /\ m.height > HeightOf(n) ->
         IF n \in Observer THEN {BlocksRequest(n), SyncRequest(n)} ELSE {BlocksRequest(n)}
    [] m.kind = "blocksReq" -> BlocksFrom(n, m.from)
    [] m.kind = "syncReq" /\ HeightOf(n) > m.have ->
         BlocksFrom(n, m.have + 1) \cup StateOf(n)
    [] OTHER -> {}

\* Blocks below the next one are skipped; a gap ends the batch
AppliedAnyway(n, m) == m.kind = "blocks"
Applied(n, m) == m.kind = "blocks" /\ Expected(n) \in m.first .. m.last

\* accept_sync_snapshot: the state of the peer, without its block files
Adopted(n, m) == n \in Observer /\ m.kind = "sync" /\ m.height > HeightOf(n)

\* Memory, block files and chain_state.json, one after the other: a process
\* that dies in between has some of the files only (Crash)
Handle(n, m) ==
  /\ chain' = [chain EXCEPT ![n] = IF Applied(n, m) THEN m.last + 1
                                   ELSE IF Adopted(n, m) THEN m.height + 1 ELSE @]
  /\ archive' = [archive EXCEPT ![n] =
                   IF Applied(n, m) THEN @ \cup (Expected(n) .. m.last) ELSE @]

(* A reader thread of n takes a line of m and the loop handles it; copies  *)
(* from other peers are dropped from now on.                               *)
Receive(m, n, line) ==
  LET read == [k \in Node |-> [wire[k] EXCEPT ![n] = @ \ {line}]]
  IN  /\ Running(n) /\ line \in wire[m][n]
      /\ heard' = [heard EXCEPT ![n] = @ \cup {line}]
      /\ Handle(n, line)
      /\ wire' = Broadcast(read, n, Answer(n, line))
      /\ UNCHANGED <<phase, dialling, conns, faults>>

\* More than 200 lines of the peer in a second: the line is not looked at
RateLimit(m, n, line) ==
  /\ Running(n) /\ line \in wire[m][n]
  /\ faults.drop < MaxDrops
  /\ faults' = [faults EXCEPT !.drop = @ + 1]
  /\ wire' = [wire EXCEPT ![m][n] = @ \ {line}]
  /\ UNCHANGED <<disk, phase, dialling, conns, heard>>

-----------------------------------------------------------------------------
(* The loop *)

\* Every 15 s, and when a tip above the own one is heard over the radio
AskBlocks(n) ==
  /\ Running(n) /\ Peers(n) # {}
  /\ wire' = Broadcast(wire, n, {BlocksRequest(n)})
  /\ UNCHANGED <<disk, phase, dialling, conns, heard, faults>>

\* Every 60 s; every 5 s by an observer at height 0
AskState(n) ==
  /\ Running(n) /\ Peers(n) # {}
  /\ wire' = Broadcast(wire, n, {SyncRequest(n)})
  /\ UNCHANGED <<disk, phase, dialling, conns, heard, faults>>

\* The next block becomes final at the nodes G that have the chain so far
FinalizeLive(G) ==
  /\ G # {} /\ Longest < MaxChain
  /\ \A n \in G : Running(n) /\ chain[n] = Longest
  /\ chain' = [n \in Node |-> IF n \in G THEN Longest + 1 ELSE chain[n]]
  /\ archive' = [n \in Node |-> IF n \in G THEN archive[n] \cup {Longest} ELSE archive[n]]
  /\ UNCHANGED <<phase, net, heard, faults>>

-----------------------------------------------------------------------------
(* Processes and connections *)

Start(n) ==
  /\ phase[n] = "down"
  /\ phase' = [phase EXCEPT ![n] = "starting"]
  /\ dialling' = [dialling EXCEPT ![n] = Bootstrap[n]]
  /\ UNCHANGED <<disk, conns, wire, heard, faults>>

\* Said once, to the peers that the other threads have connected by then
SayHello(n) ==
  /\ phase[n] = "starting"
  /\ phase' = [phase EXCEPT ![n] = "running"]
  /\ wire' = Broadcast(wire, n, {Hello(n)})
  /\ UNCHANGED <<disk, dialling, conns, heard, faults>>

Dial(n, p) ==
  /\ p \in dialling[n] /\ phase[p] # "down"
  /\ conns' = conns \cup {<<n, p>>}
  /\ dialling' = [dialling EXCEPT ![n] = @ \ {p}]
  /\ UNCHANGED <<disk, phase, wire, heard, faults>>

\* The peer could not be reached in 30 attempts, and is not dialled again
GiveUp(n, p) ==
  /\ p \in dialling[n] /\ phase[p] = "down"
  /\ dialling' = [dialling EXCEPT ![n] = @ \ {p}]
  /\ UNCHANGED <<disk, phase, conns, wire, heard, faults>>

\* Connections C end: what is on its way is still read, or lost, and lost
\* when it is the process of m that ended
Cut(C, gone) ==
  /\ conns' = conns \ C
  /\ \E keep \in [Node \X Node -> 0 .. 1] :
       wire' = [n \in Node |-> [m \in Node |->
                  IF m = gone THEN {}
                  ELSE IF m \in Peers(n) \ PeersIn(conns', n) /\ keep[n, m] = 0 THEN {}
                  ELSE wire[n][m]]]

\* A write fails: the peer is removed, and nobody dials it again
Break(c) ==
  /\ c \in conns /\ faults.break < MaxBreaks
  /\ faults' = [faults EXCEPT !.break = @ + 1]
  /\ Cut({c}, "nobody")
  /\ UNCHANGED <<disk, phase, dialling, heard>>

\* Block files a process may leave without its state in chain_state.json: of
\* the batch it was applying, or of the block it was finalizing
LeftFiles(n) ==
  LET batches == {line \in UNION {wire[m][n] : m \in Node} : Applied(n, line)}
  IN  IF ~Running(n) THEN {{}}
      ELSE {{}, {Longest} \cap {chain[n]} \cap Height}
             \cup UNION {{Expected(n) .. h : h \in Expected(n) .. b.last} : b \in batches}

Crash(n) ==
  /\ phase[n] # "down" /\ faults.crash < MaxCrashes
  /\ \E files \in LeftFiles(n) : archive' = [archive EXCEPT ![n] = @ \cup files]
  /\ faults' = [faults EXCEPT !.crash = @ + 1]
  /\ phase' = [phase EXCEPT ![n] = "down"]
  /\ dialling' = [dialling EXCEPT ![n] = {}]
  /\ heard' = [heard EXCEPT ![n] = {}]
  /\ Cut({c \in conns : n \in {c[1], c[2]}}, n)
  /\ UNCHANGED chain

Next ==
  \/ \E m, n \in Node : \E line \in wire[m][n] : Receive(m, n, line) \/ RateLimit(m, n, line)
  \/ \E n \in Node : AskBlocks(n) \/ AskState(n)
  \/ \E G \in SUBSET Node : FinalizeLive(G)
  \/ \E n \in Node : Start(n) \/ SayHello(n) \/ Crash(n)
  \/ \E n, p \in Node : Dial(n, p) \/ GiveUp(n, p)
  \/ \E c \in conns : Break(c)

Spec == Init /\ [][Next]_vars

(* The loop of a running node asks again and again, and its threads read   *)
(* and dial; nothing restarts a process or ends a connection.              *)
Fairness ==
  /\ \A n \in Node : WF_vars(AskBlocks(n)) /\ WF_vars(AskState(n)) /\ WF_vars(SayHello(n))
  /\ \A m, n \in Node : WF_vars(Dial(m, n)) /\ WF_vars(\E line \in wire[m][n] : Receive(m, n, line))

FairSpec == Spec /\ Fairness

-----------------------------------------------------------------------------
TypeOK ==
  /\ chain \in [Node -> 0 .. MaxChain]
  /\ archive \in [Node -> SUBSET Height]
  /\ phase \in [Node -> {"down", "starting", "running"}]
  /\ dialling \in [Node -> SUBSET Node] /\ conns \subseteq Node \X Node
  /\ wire \in [Node -> [Node -> SUBSET Msg]]
  /\ heard \in [Node -> SUBSET Msg]
  /\ faults \in [crash : 0 .. MaxCrashes, break : 0 .. MaxBreaks, drop : 0 .. MaxDrops]

(* No answer takes a block back, however late it comes and whatever was    *)
(* applied since it was asked for, also across a crash of either side.     *)
NeverRewinds == [][\A n \in Node : chain[n] <= chain'[n]]_vars

Connected(n, s) == Running(n) /\ Running(s) /\ s \in Peers(n)

(* run.rs:839 "Periodic catch-up for lagging producers and observers": a   *)
(* node that stays connected to a peer with the next block gets it.        *)
LaggardsCatchUp ==
  \A n \in Node : \A s \in Node \ {n}, h \in Height :
    Connected(n, s) /\ Expected(n) = h /\ h \in archive[s]
      ~> Expected(n) > h \/ ~Connected(n, s)

(* What holds of the catch-up: a request that the peer has not heard yet,  *)
(* for a block the peer has, is answered, and the answer used if no other  *)
(* answer from that block on was heard before.                             *)
Unheard(n, s, h) ==
  /\ [kind |-> "blocksReq", from |-> h] \notin heard[s]
  /\ \A m \in heard[n] : m.kind = "blocks" => m.first # h

UnheardIsServed ==
  \A n \in Node : \A s \in Node \ {n}, h \in Height :
    (/\ Connected(n, s) /\ Expected(n) = h /\ h \in archive[s] /\ Unheard(n, s, h)
     /\ faults.drop = MaxDrops)
      ~> (\/ Expected(n) > h \/ ~Connected(n, s)
          \/ ~Fits(h, h + Cardinality(Served(s, h)) - 1))

=============================================================================
