-------------------------- MODULE GossipSyncProofs --------------------------
(***************************************************************************)
(* Proofs about GossipSync, for any nodes, peers, batches and bounds: its  *)
(* types, and that no answer takes a block back, however late it comes.    *)
(***************************************************************************)
EXTENDS GossipSync, FiniteSetTheorems, TLAPS

-----------------------------------------------------------------------------
(* Messages *)

LEMMA HeightIsTyped ==
  ASSUME TypeOK, NEW n \in Node
  PROVE  /\ chain[n] \in 0 .. MaxChain /\ Expected(n) = chain[n]
         /\ HeightOf(n) \in Height /\ HeightOf(n) <= chain[n] /\ chain[n] <= HeightOf(n) + 1
BY GossipAssumption DEF TypeOK, HeightOf, Expected, Height

LEMMA BlocksRequestIsMsg ==
  ASSUME TypeOK, NEW n \in Node
  PROVE  BlocksRequest(n) \in Msg
BY HeightIsTyped DEF BlocksRequest, Msg

LEMMA SyncRequestIsMsg ==
  ASSUME TypeOK, NEW n \in Node
  PROVE  SyncRequest(n) \in Msg
BY HeightIsTyped DEF SyncRequest, Msg

LEMMA HelloIsMsg ==
  ASSUME TypeOK, NEW n \in Node
  PROVE  Hello(n) \in Msg
BY HeightIsTyped DEF Hello, Msg

\* A batch ends at a block the node has: the files from a height on are no
\* more than the heights there are.
LEMMA BlocksFromAreMsgs ==
  ASSUME TypeOK, NEW n \in Node, NEW from \in 0 .. MaxChain
  PROVE  BlocksFrom(n, from) \subseteq Msg
<1> DEFINE s == Served(n, from)
<1>1. CASE s = {}
  BY <1>1 DEF BlocksFrom
<1>2. CASE s # {}
  <2>1. s \subseteq from .. MaxChain - 1 /\ from \in Nat /\ MaxChain \in Nat
    BY GossipAssumption DEF Served, TypeOK, Height
  <2>2. IsFiniteSet(from .. MaxChain - 1)
        /\ Cardinality(from .. MaxChain - 1)
             = IF from > MaxChain - 1 THEN 0 ELSE MaxChain - 1 - from + 1
    BY <2>1, FS_Interval
  <2>3. IsFiniteSet(s) /\ Cardinality(s) <= Cardinality(from .. MaxChain - 1)
    BY <2>1, <2>2, FS_Subset
  <2>4. Cardinality(s) \in Nat /\ Cardinality(s) # 0
    BY <2>3, <1>2, FS_CardinalityType, FS_EmptySet
  <2>5. from \in Height /\ from + Cardinality(s) - 1 \in Height
    BY <2>1, <2>2, <2>3, <2>4 DEF Height
  <2>6. [kind |-> "blocks", first |-> from, last |-> from + Cardinality(s) - 1] \in Msg
    BY <2>5 DEF Msg
  <2> QED
    BY <2>6 DEF BlocksFrom
<1> QED
  BY <1>1, <1>2

LEMMA AnswerIsMsgs ==
  ASSUME TypeOK, NEW n \in Node, NEW m \in Msg
  PROVE  Answer(n, m) \subseteq Msg
<1>1. CASE m.kind = "hello"
  BY <1>1, BlocksRequestIsMsg, SyncRequestIsMsg DEF Answer
<1>2. CASE m.kind = "blocksReq"
  <2>1. m.from \in 0 .. MaxChain
    BY <1>2 DEF Msg
  <2> QED
    BY <1>2, <2>1, BlocksFromAreMsgs DEF Answer
<1>3. CASE m.kind = "syncReq"
  <2>1. m.have + 1 \in 0 .. MaxChain
    BY <1>3, GossipAssumption DEF Msg, Height
  <2>2. StateOf(n) \subseteq Msg
    <3>1. [kind |-> "sync", height |-> HeightOf(n)] \in Msg
      BY HeightIsTyped DEF Msg
    <3> QED
      BY <3>1 DEF StateOf
  <2>3. BlocksFrom(n, m.have + 1) \subseteq Msg
    BY <2>1, BlocksFromAreMsgs
  <2> QED
    BY <1>3, <2>2, <2>3 DEF Answer
<1>4. CASE m.kind \notin {"hello", "blocksReq", "syncReq"}
  BY <1>4 DEF Answer
<1> QED
  BY <1>1, <1>2, <1>3, <1>4

LEMMA BroadcastIsTyped ==
  ASSUME TypeOK, NEW w \in [Node -> [Node -> SUBSET Msg]], NEW n \in Node,
         NEW lines \in SUBSET Msg
  PROVE  Broadcast(w, n, lines) \in [Node -> [Node -> SUBSET Msg]]
BY DEF Broadcast

-----------------------------------------------------------------------------
(* Handlers: the chain only grows, within its bound *)

LEMMA HandleGrows ==
  ASSUME TypeOK, NEW n \in Node, NEW m \in Msg, Handle(n, m)
  PROVE  /\ chain' \in [Node -> 0 .. MaxChain] /\ archive' \in [Node -> SUBSET Height]
         /\ \A k \in Node : chain[k] <= chain'[k]
<1>1. chain[n] \in 0 .. MaxChain /\ \A k \in Node : chain[k] \in 0 .. MaxChain
  BY DEF TypeOK
<1>2. CASE Applied(n, m)
  <2>1. m.first \in Height /\ m.last \in Height
    BY <1>2 DEF Applied, Msg
  <2>2. m.last + 1 \in 0 .. MaxChain /\ chain[n] <= m.last + 1
    BY <1>1, <1>2, <2>1, GossipAssumption DEF Applied, Expected, Height
  <2>3. chain[n] .. m.last \subseteq Height
    BY <1>1, <2>1, GossipAssumption DEF Height
  <2>4. chain' = [chain EXCEPT ![n] = m.last + 1]
        /\ archive' = [archive EXCEPT ![n] = @ \cup (chain[n] .. m.last)]
    BY <1>2 DEF Handle, Expected
  <2> QED
    BY <1>1, <2>2, <2>3, <2>4 DEF TypeOK
<1>3. CASE ~Applied(n, m) /\ Adopted(n, m)
  <2>1. m.height \in Height
    BY <1>3 DEF Adopted, Msg
  <2>2. m.height + 1 \in 0 .. MaxChain /\ chain[n] <= m.height + 1
    BY <1>1, <1>3, <2>1, HeightIsTyped, GossipAssumption DEF Adopted, Height
  <2>3. chain' = [chain EXCEPT ![n] = m.height + 1] /\ archive' = archive
    BY <1>3 DEF Handle, TypeOK
  <2> QED
    BY <1>1, <2>2, <2>3 DEF TypeOK
<1>4. CASE ~Applied(n, m) /\ ~Adopted(n, m)
  <2>1. chain' = chain /\ archive' = archive
    BY <1>4 DEF Handle, TypeOK
  <2> QED
    BY <1>1, <2>1 DEF TypeOK
<1> QED
  BY <1>2, <1>3, <1>4

-----------------------------------------------------------------------------
(* The steps *)

LEMMA InitTypeOK == Init => TypeOK
BY GossipAssumption DEF Init, TypeOK

\* What every step must keep: the types, and the blocks a node has.
Kept == TypeOK' /\ \A n \in Node : chain[n] <= chain'[n]

\* A step that applies nothing, given the rest of the types.
LEMMA DiskKept ==
  ASSUME TypeOK, UNCHANGED disk, phase' \in [Node -> {"down", "starting", "running"}],
         dialling' \in [Node -> SUBSET Node], conns' \subseteq Node \X Node,
         wire' \in [Node -> [Node -> SUBSET Msg]], heard' \in [Node -> SUBSET Msg],
         faults' \in [crash : 0 .. MaxCrashes, break : 0 .. MaxBreaks, drop : 0 .. MaxDrops]
  PROVE  Kept
<1>1. TypeOK'
  BY DEF TypeOK, disk
<1>2. \A n \in Node : chain[n] \in 0 .. MaxChain /\ chain'[n] = chain[n]
  BY DEF TypeOK, disk
<1> QED
  BY <1>1, <1>2, GossipAssumption DEF Kept

LEMMA ReceiveStep ==
  ASSUME TypeOK, NEW m \in Node, NEW n \in Node, NEW line \in wire[m][n], Receive(m, n, line)
  PROVE  Kept
<1> DEFINE read == [k \in Node |-> [wire[k] EXCEPT ![n] = @ \ {line}]]
<1>1. line \in Msg
  BY DEF TypeOK
<1>2. /\ chain' \in [Node -> 0 .. MaxChain] /\ archive' \in [Node -> SUBSET Height]
      /\ \A k \in Node : chain[k] <= chain'[k]
  BY <1>1, HandleGrows DEF Receive
<1>3. read \in [Node -> [Node -> SUBSET Msg]]
  BY DEF TypeOK
<1>4. wire' \in [Node -> [Node -> SUBSET Msg]]
  <2>1. wire' = Broadcast(read, n, Answer(n, line))
    BY DEF Receive
  <2>2. Answer(n, line) \in SUBSET Msg
    BY <1>1, AnswerIsMsgs
  <2> QED
    BY <1>3, <2>1, <2>2, BroadcastIsTyped
<1>5. heard' \in [Node -> SUBSET Msg]
  BY <1>1 DEF Receive, TypeOK
<1>6. UNCHANGED <<phase, dialling, conns, faults>>
  BY DEF Receive
<1>7. TypeOK'
  BY <1>2, <1>4, <1>5, <1>6 DEF TypeOK
<1> QED
  BY <1>2, <1>7 DEF Kept

LEMMA RateLimitStep ==
  ASSUME TypeOK, NEW m \in Node, NEW n \in Node, NEW line \in wire[m][n], RateLimit(m, n, line)
  PROVE  Kept
<1>1. wire' \in [Node -> [Node -> SUBSET Msg]]
  <2>1. wire[m] \in [Node -> SUBSET Msg] /\ wire[m][n] \ {line} \in SUBSET Msg
    BY DEF TypeOK
  <2>2. [wire[m] EXCEPT ![n] = @ \ {line}] \in [Node -> SUBSET Msg]
    BY <2>1
  <2>3. wire' = [wire EXCEPT ![m] = [wire[m] EXCEPT ![n] = @ \ {line}]]
    BY DEF RateLimit
  <2> QED
    BY <2>2, <2>3 DEF TypeOK
<1>2. faults' \in [crash : 0 .. MaxCrashes, break : 0 .. MaxBreaks, drop : 0 .. MaxDrops]
  <2>1. faults.drop < MaxDrops /\ faults' = [faults EXCEPT !.drop = @ + 1]
    BY DEF RateLimit
  <2> QED
    BY <2>1, GossipAssumption DEF TypeOK
<1>3. UNCHANGED <<disk, phase, dialling, conns, heard>>
  BY DEF RateLimit
<1> QED
  BY <1>1, <1>2, <1>3, DiskKept DEF TypeOK

LEMMA AskStep ==
  ASSUME TypeOK, NEW n \in Node, AskBlocks(n) \/ AskState(n)
  PROVE  Kept
<1>1. wire \in [Node -> [Node -> SUBSET Msg]]
      /\ {BlocksRequest(n)} \in SUBSET Msg /\ {SyncRequest(n)} \in SUBSET Msg
  BY BlocksRequestIsMsg, SyncRequestIsMsg DEF TypeOK
<1>2. wire' \in [Node -> [Node -> SUBSET Msg]]
  BY <1>1, BroadcastIsTyped DEF AskBlocks, AskState
<1>3. UNCHANGED <<disk, phase, dialling, conns, heard, faults>>
  BY DEF AskBlocks, AskState
<1> QED
  BY <1>2, <1>3, DiskKept DEF TypeOK

LEMMA FinalizeLiveStep ==
  ASSUME TypeOK, NEW G \in SUBSET Node, FinalizeLive(G)
  PROVE  Kept
<1>1. \A n \in Node : chain[n] \in 0 .. MaxChain
  BY DEF TypeOK
<1>2. PICK g \in G : chain[g] = Longest
  BY DEF FinalizeLive
<1>3. Longest \in Height /\ Longest + 1 \in 0 .. MaxChain
  BY <1>1, <1>2, GossipAssumption DEF FinalizeLive, Height
<1>4. \A n \in Node : chain[n] <= chain'[n] /\ chain'[n] \in 0 .. MaxChain
  BY <1>1, <1>3, GossipAssumption DEF FinalizeLive
<1>5. chain' \in [Node -> 0 .. MaxChain] /\ archive' \in [Node -> SUBSET Height]
  BY <1>3, <1>4 DEF FinalizeLive, TypeOK
<1>6. UNCHANGED <<phase, net, heard, faults>>
  BY DEF FinalizeLive
<1>7. TypeOK'
  BY <1>5, <1>6 DEF TypeOK, net
<1> QED
  BY <1>4, <1>7 DEF Kept

LEMMA StartStep ==
  ASSUME TypeOK, NEW n \in Node, Start(n)
  PROVE  Kept
<1>1. phase' \in [Node -> {"down", "starting", "running"}] /\ dialling' \in [Node -> SUBSET Node]
  BY GossipAssumption DEF Start, TypeOK
<1> QED
  BY <1>1, DiskKept DEF Start, TypeOK

LEMMA SayHelloStep ==
  ASSUME TypeOK, NEW n \in Node, SayHello(n)
  PROVE  Kept
<1>1. wire \in [Node -> [Node -> SUBSET Msg]] /\ {Hello(n)} \in SUBSET Msg
  BY HelloIsMsg DEF TypeOK
<1>2. wire' \in [Node -> [Node -> SUBSET Msg]]
  BY <1>1, BroadcastIsTyped DEF SayHello
<1>3. phase' \in [Node -> {"down", "starting", "running"}]
  BY DEF SayHello, TypeOK
<1> QED
  BY <1>2, <1>3, DiskKept DEF SayHello, TypeOK

LEMMA DialStep ==
  ASSUME TypeOK, NEW n \in Node, NEW p \in Node, Dial(n, p) \/ GiveUp(n, p)
  PROVE  Kept
<1>1. dialling' \in [Node -> SUBSET Node] /\ conns' \subseteq Node \X Node
  BY DEF Dial, GiveUp, TypeOK
<1>2. UNCHANGED <<disk, phase, wire, heard, faults>>
  BY DEF Dial, GiveUp
<1> QED
  BY <1>1, <1>2, DiskKept DEF TypeOK

LEMMA CutIsTyped ==
  ASSUME TypeOK, NEW C, NEW gone, Cut(C, gone)
  PROVE  conns' \subseteq Node \X Node /\ wire' \in [Node -> [Node -> SUBSET Msg]]
<1>1. PICK keep \in [Node \X Node -> 0 .. 1] :
        wire' = [n \in Node |-> [m \in Node |->
                  IF m = gone THEN {}
                  ELSE IF m \in Peers(n) \ PeersIn(conns', n) /\ keep[n, m] = 0 THEN {}
                  ELSE wire[n][m]]]
  BY DEF Cut
<1>2. \A n \in Node, m \in Node : wire[n][m] \in SUBSET Msg
  BY DEF TypeOK
<1> QED
  BY <1>1, <1>2 DEF Cut, TypeOK

LEMMA BreakStep ==
  ASSUME TypeOK, NEW c \in conns, Break(c)
  PROVE  Kept
<1>1. conns' \subseteq Node \X Node /\ wire' \in [Node -> [Node -> SUBSET Msg]]
  BY CutIsTyped DEF Break
<1>2. faults' \in [crash : 0 .. MaxCrashes, break : 0 .. MaxBreaks, drop : 0 .. MaxDrops]
  BY GossipAssumption DEF Break, TypeOK
<1> QED
  BY <1>1, <1>2, DiskKept DEF Break, TypeOK

\* What a process leaves behind are files of blocks: of a batch it could have
\* applied, or of the block after the longest chain.
LEMMA LeftFilesAreTyped ==
  ASSUME TypeOK, NEW n \in Node, NEW files \in LeftFiles(n)
  PROVE  files \subseteq Height
<1> DEFINE batches == {line \in UNION {wire[m][n] : m \in Node} : Applied(n, line)}
<1>1. \A b \in batches : b \in Msg /\ b.kind = "blocks"
  BY DEF TypeOK, Applied
<1>2. ASSUME NEW b \in batches, NEW h \in Expected(n) .. b.last
      PROVE  Expected(n) .. h \subseteq Height
  <2>1. b.last \in Height
    BY <1>1 DEF Msg
  <2>2. Expected(n) \in Nat
    BY HeightIsTyped
  <2> QED
    BY <2>1, <2>2, GossipAssumption DEF Height
<1>3. \/ files = {}
      \/ files = {Longest} \cap {chain[n]} \cap Height
      \/ \E b \in batches : \E h \in Expected(n) .. b.last : files = Expected(n) .. h
  BY DEF LeftFiles
<1> HIDE DEF batches
<1> QED
  BY <1>2, <1>3

LEMMA CrashStep ==
  ASSUME TypeOK, NEW n \in Node, Crash(n)
  PROVE  Kept
<1>1. conns' \subseteq Node \X Node /\ wire' \in [Node -> [Node -> SUBSET Msg]]
  BY CutIsTyped DEF Crash
<1>2. faults' \in [crash : 0 .. MaxCrashes, break : 0 .. MaxBreaks, drop : 0 .. MaxDrops]
  BY GossipAssumption DEF Crash, TypeOK
<1>3. /\ phase' \in [Node -> {"down", "starting", "running"}]
      /\ dialling' \in [Node -> SUBSET Node] /\ heard' \in [Node -> SUBSET Msg]
  BY DEF Crash, TypeOK
<1>4. archive' \in [Node -> SUBSET Height]
  <2>1. PICK files \in LeftFiles(n) : archive' = [archive EXCEPT ![n] = @ \cup files]
    BY DEF Crash
  <2>2. files \subseteq Height
    BY LeftFilesAreTyped
  <2> QED
    BY <2>1, <2>2 DEF TypeOK
<1>5. chain' = chain
  BY DEF Crash
<1>6. TypeOK'
  BY <1>1, <1>2, <1>3, <1>4, <1>5 DEF TypeOK
<1>7. \A k \in Node : chain[k] \in 0 .. MaxChain /\ chain'[k] = chain[k]
  BY <1>5 DEF TypeOK
<1> QED
  BY <1>6, <1>7, GossipAssumption DEF Kept

LEMMA StutterStep ==
  ASSUME TypeOK, UNCHANGED vars
  PROVE  Kept
BY DiskKept DEF vars, net, TypeOK

LEMMA NextKeeps == TypeOK /\ [Next]_vars => Kept
<1> SUFFICES ASSUME TypeOK, [Next]_vars PROVE Kept
  OBVIOUS
<1>1. CASE \E m, n \in Node : \E line \in wire[m][n] : Receive(m, n, line) \/ RateLimit(m, n, line)
  BY <1>1, ReceiveStep, RateLimitStep
<1>2. CASE \E n \in Node : AskBlocks(n) \/ AskState(n)
  BY <1>2, AskStep
<1>3. CASE \E G \in SUBSET Node : FinalizeLive(G)
  BY <1>3, FinalizeLiveStep
<1>4. CASE \E n \in Node : Start(n) \/ SayHello(n) \/ Crash(n)
  BY <1>4, StartStep, SayHelloStep, CrashStep
<1>5. CASE \E n, p \in Node : Dial(n, p) \/ GiveUp(n, p)
  BY <1>5, DialStep
<1>6. CASE \E c \in conns : Break(c)
  BY <1>6, BreakStep
<1>7. CASE UNCHANGED vars
  BY <1>7, StutterStep
<1> QED
  BY <1>1, <1>2, <1>3, <1>4, <1>5, <1>6, <1>7 DEF Next

-----------------------------------------------------------------------------
(* Chains, archives, connections and every line on its way keep their      *)
(* types (net.rs, run.rs): no batch names a block that is not.             *)
THEOREM TypeCorrect == Spec => []TypeOK
<1>1. Init => TypeOK
  BY InitTypeOK
<1>2. TypeOK /\ [Next]_vars => TypeOK'
  BY NextKeeps DEF Kept
<1> QED
  BY <1>1, <1>2, PTL DEF Spec

(* No node loses a block to an answer, late, repeated or from a peer that  *)
(* is behind, nor to a crash (run.rs, accept_sync_snapshot).               *)
THEOREM ChainsOnlyGrow == Spec => NeverRewinds
<1>1. TypeOK /\ [Next]_vars => [\A n \in Node : chain[n] <= chain'[n]]_vars
  BY NextKeeps DEF Kept
<1> QED
  BY <1>1, TypeCorrect, PTL DEF Spec, NeverRewinds
=============================================================================
