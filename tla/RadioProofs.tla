---------------------------- MODULE RadioProofs ----------------------------
(***************************************************************************)
(* Proofs about the radio, for any messages, limits, time-outs and widths  *)
(* of a number.  Fragments: types, that what is handed on is a message     *)
(* that was sent with every fragment of it, and that no assembler and no   *)
(* cache outgrows its limit.  Codecs: frames, fixed layouts, varints, mesh *)
(* packets, serial streams and names are read back as they were written,   *)
(* whatever follows them, and what is cut short is not taken for less.     *)
(***************************************************************************)
EXTENDS MCRadio, DataProofs

-----------------------------------------------------------------------------
(* Sets of sessions *)

\* With room made for k there are no more sessions than before, and k fits.
LEMMA RoomIsBounded ==
  ASSUME NEW S, IsFiniteSet(S), Cardinality(S) <= MaxSessions,
         NEW k, NEW sessions, NEW keep \in BOOLEAN,
         NEW T \in Room(S, k, sessions, keep)
  PROVE  /\ T \subseteq S
         /\ IsFiniteSet(T \cup {k}) /\ Cardinality(T \cup {k}) <= MaxSessions
<1>1. MaxSessions \in Nat \ {0} /\ Cardinality(S) \in Nat
  BY FragmentsAssumption, FS_CardinalityType
<1>2. CASE (k \in S /\ keep) \/ ~Full(S)
  <2>1. T = S
    BY <1>2 DEF Room
  <2>2. /\ IsFiniteSet(S \cup {k})
        /\ Cardinality(S \cup {k}) = IF k \in S THEN Cardinality(S) ELSE Cardinality(S) + 1
    BY FS_AddElement
  <2>3. k \in S \/ Cardinality(S) < MaxSessions
    BY <1>1, <1>2 DEF Full
  <2> QED
    BY <1>1, <2>1, <2>2, <2>3
<1>3. CASE ~((k \in S /\ keep) \/ ~Full(S))
  <2>1. PICK o \in S : T = S \ {o}
    BY <1>3 DEF Room
  <2>2. IsFiniteSet(T) /\ Cardinality(T) = Cardinality(S) - 1
    BY <2>1, FS_RemoveElement
  <2>3. /\ IsFiniteSet(T \cup {k})
        /\ Cardinality(T \cup {k}) = IF k \in T THEN Cardinality(T) ELSE Cardinality(T) + 1
    BY <2>2, FS_AddElement
  <2> QED
    BY <1>1, <2>1, <2>2, <2>3
<1> QED
  BY <1>2, <1>3

\* Fewer sessions stay within the limit.
LEMMA FewerAreBounded ==
  ASSUME NEW S, IsFiniteSet(S), Cardinality(S) <= MaxSessions, NEW T \in SUBSET S
  PROVE  IsFiniteSet(T) /\ Cardinality(T) <= MaxSessions
<1>1. /\ MaxSessions \in Nat /\ Cardinality(S) \in Nat
      /\ IsFiniteSet(T) /\ Cardinality(T) <= Cardinality(S) /\ Cardinality(T) \in Nat
  BY FragmentsAssumption, FS_Subset, FS_CardinalityType
<1> QED
  BY <1>1

-----------------------------------------------------------------------------
(* Frames and sessions *)

LEMMA FragIsFrame ==
  ASSUME NEW m \in Sendable, NEW i \in Index(m)
  PROVE  Frag(m, i) \in FragsOf(m) /\ Frag(m, i) \in Frame
<1>1. Frag(m, i) \in FragsOf(m)
  BY DEF FragsOf
<1>2. Frag(m, i) \in Frags
  BY <1>1 DEF Frags
<1> QED
  BY <1>1, <1>2 DEF Frame

LEMMA NackIsFrame ==
  ASSUME NEW s \in SessionIds, NEW S \in SUBSET (1 .. MaxChunks)
  PROVE  Nack(s, S) \in Frame /\ Nack(s, S).kind # "frag"
BY DEF Frame, Nacks, Nack

\* Ages stay within the time to live.
LEMMA OlderAge ==
  ASSUME NEW age \in 0 .. TimeToLive
  PROVE  Older(age) \in 0 .. TimeToLive
BY FragmentsAssumption DEF Older

\* A function cut down.
LEMMA OnlyApplies ==
  ASSUME NEW f, NEW S
  PROVE  DOMAIN Only(f, S) = S /\ \A k \in S : Only(f, S)[k] = f[k]
BY DEF Only

\* A session that waits: some of one payload that was sent, not all of it.
WellHalf(s, e) ==
  /\ s \in SessionIds /\ e \in Half
  /\ \E m \in Sendable : Session[m] = s /\ sends[m] > 0 /\ PartOf(e, m)
  /\ (1 .. e.total) \ DOMAIN e.chunks # {} /\ DOMAIN e.chunks # {}

\* Only fragments of payloads that were sent.
GenuineAir(frames) ==
  \A f \in frames : f.kind = "frag" => \E m \in Sendable : sends[m] > 0 /\ f \in FragsOf(m)

\* What is known of a session that waits.
LEMMA Waiting ==
  ASSUME IInv
  PROVE  \A s \in Sessions : WellHalf(s, pending[s])
<1> SUFFICES ASSUME NEW s \in Sessions PROVE WellHalf(s, pending[s])
  OBVIOUS
<1>1. s \in SessionIds /\ pending[s] \in Half
  BY DEF IInv, TypeOK
<1>2. \E m \in Sendable : Session[m] = s /\ sends[m] > 0 /\ PartOf(pending[s], m)
  BY DEF IInv, HalfInv
<1>3. Missing(s) # {} /\ DOMAIN pending[s].chunks # {}
  BY DEF IInv, SessionsBounded
<1> QED
  BY <1>1, <1>2, <1>3 DEF WellHalf, Missing

\* The age of a session says nothing of what it holds.
LEMMA AgeIsApart ==
  ASSUME NEW s, NEW e, WellHalf(s, e), NEW age \in 0 .. TimeToLive
  PROVE  WellHalf(s, [e EXCEPT !.age = age])
<1> DEFINE d == [e EXCEPT !.age = age]
<1>1. e \in Half
  BY DEF WellHalf
<1>2. d \in Half /\ d.total = e.total /\ d.chunks = e.chunks
  BY <1>1 DEF Half
<1> HIDE DEF d
<1>3. \A m \in Sendable : PartOf(e, m) => PartOf(d, m)
  BY <1>2 DEF PartOf
<1>4. WellHalf(s, d)
  BY <1>2, <1>3 DEF WellHalf
<1> QED
  BY <1>4 DEF d

\* A part of a payload is of its type.
LEMMA PartIsHalf ==
  ASSUME NEW m \in Sendable, NEW total, NEW chunks, NEW age \in 0 .. TimeToLive,
         chunks = [i \in DOMAIN chunks |-> chunks[i]],
         PartOf([total |-> total, chunks |-> chunks, age |-> age], m)
  PROVE  [total |-> total, chunks |-> chunks, age |-> age] \in Half
<1>1. /\ total = Total[m] /\ DOMAIN chunks \subseteq Index(m)
      /\ \A i \in DOMAIN chunks : chunks[i] = Chunk(m, i)
  BY DEF PartOf
<1>2. m \in Message /\ Total[m] \in Nat \ {0} /\ Total[m] <= MaxChunks /\ MaxChunks \in Nat
  BY FragmentsAssumption DEF Sendable
<1>3. total \in 1 .. MaxChunks /\ DOMAIN chunks \in SUBSET (1 .. MaxChunks)
  BY <1>1, <1>2 DEF Index
<1>4. \A i \in DOMAIN chunks : chunks[i] \in Chunks
  BY <1>1, <1>2 DEF Chunks
<1>5. chunks \in [DOMAIN chunks -> Chunks]
  BY <1>4
<1>6. chunks \in UNION {[S -> Chunks] : S \in SUBSET (1 .. MaxChunks)}
  BY <1>3, <1>5
<1> QED
  BY <1>3, <1>6 DEF Half

-----------------------------------------------------------------------------
(* The initial states and the steps *)

LEMMA InitIInv == Init => IInv
<1> SUFFICES ASSUME Init PROVE IInv
  OBVIOUS
<1>1. IsFiniteSet({}) /\ Cardinality({}) = 0 /\ MaxSessions \in Nat
  BY FS_EmptySet, FragmentsAssumption
<1>2. DOMAIN cache = {} /\ Sessions = {}
  BY DEF Init, Sessions
<1>3. TypeOK
  BY <1>2, FragmentsAssumption DEF Init, TypeOK, CacheTypeOK
<1> QED
  BY <1>1, <1>2, <1>3
     DEF Init, IInv, SentInv, HalfInv, FiniteInv, DeliveredIsWhole, SessionsBounded

\* A step that leaves the receiver alone, given what it does to the sender's side.
LEMMA ReceiverKept ==
  ASSUME IInv, UNCHANGED <<pending, delivered>>, CacheTypeOK', SentInv',
         air' \subseteq Frame,
         DOMAIN sends' = Message,
         \A m \in Message : sends'[m] \in 0 .. MaxSends[m] /\ sends[m] <= sends'[m],
         IsFiniteSet(DOMAIN cache'), Cardinality(DOMAIN cache') <= MaxSessions
  PROVE  IInv'
<1>1. TypeOK /\ HalfInv /\ FiniteInv /\ DeliveredIsWhole /\ SessionsBounded
  BY DEF IInv
<1>2. Sessions' = Sessions
  BY DEF Sessions
<1>3. \A m \in Message : sends[m] > 0 => sends'[m] > 0
  <2> SUFFICES ASSUME NEW m \in Message, sends[m] > 0 PROVE sends'[m] > 0
    OBVIOUS
  <2>1. sends[m] \in 0 .. MaxSends[m] /\ sends'[m] \in 0 .. MaxSends[m] /\ MaxSends[m] \in Nat
    BY <1>1, FragmentsAssumption DEF TypeOK
  <2> QED
    BY <2>1
<1>4. TypeOK'
  BY <1>1, <1>2 DEF TypeOK
<1>5. HalfInv'
  BY <1>1, <1>2, <1>3 DEF HalfInv, Sendable
<1>6. FiniteInv'
  BY <1>1, <1>2 DEF FiniteInv
<1>7. DeliveredIsWhole'
  BY <1>1, <1>3 DEF DeliveredIsWhole
<1>8. SessionsBounded'
  BY <1>1, <1>2 DEF SessionsBounded, Missing
<1> QED
  BY <1>4, <1>5, <1>6, <1>7, <1>8 DEF IInv

\* A step that leaves the sender alone, given what it does to the sessions.
LEMMA SenderKept ==
  ASSUME IInv, UNCHANGED <<cache, sends>>,
         air' \subseteq Frame, GenuineAir(air'),
         IsFiniteSet(Sessions'), Cardinality(Sessions') <= MaxSessions,
         \A s \in Sessions' : WellHalf(s, pending'[s]),
         \A d \in delivered' \ delivered :
            \E m \in Sendable : d = Payload(m) /\ sends[m] > 0
  PROVE  IInv'
<1>1. TypeOK /\ SentInv /\ FiniteInv /\ DeliveredIsWhole /\ SessionsBounded
  BY DEF IInv
<1>2. TypeOK'
  <2> DEFINE Wholes == UNION {[1 .. n -> Chunks] : n \in 1 .. MaxChunks}
  <2>1. delivered' \subseteq Wholes
    <3> SUFFICES ASSUME NEW d \in delivered' \ delivered
                 PROVE  d \in Wholes
      BY <1>1 DEF TypeOK
    <3>1. PICK m \in Sendable : d = Payload(m)
      OBVIOUS
    <3>2. m \in Message /\ Total[m] \in 1 .. MaxChunks
      BY FragmentsAssumption DEF Sendable
    <3>3. \A i \in Index(m) : Chunk(m, i) \in Chunks
      BY <3>2 DEF Chunks
    <3>4. Payload(m) \in [1 .. Total[m] -> Chunks]
      BY <3>3 DEF Payload, Index
    <3> QED
      BY <3>1, <3>2, <3>4
  <2>2. \A s \in Sessions' : s \in SessionIds /\ pending'[s] \in Half
    BY DEF WellHalf
  <2> QED
    BY <1>1, <2>1, <2>2 DEF TypeOK, CacheTypeOK
<1>3. SentInv'
  BY <1>1 DEF SentInv, GenuineAir
<1>4. HalfInv'
  BY DEF WellHalf, HalfInv
<1>5. FiniteInv'
  BY <1>1 DEF FiniteInv
<1>6. DeliveredIsWhole'
  <2> SUFFICES ASSUME NEW d \in delivered'
               PROVE  \E m \in Message : sends[m] > 0 /\ d = Payload(m)
    BY DEF DeliveredIsWhole
  <2>1. CASE d \in delivered
    BY <1>1, <2>1 DEF DeliveredIsWhole
  <2>2. CASE d \notin delivered
    BY <2>2 DEF Sendable
  <2> QED
    BY <2>1, <2>2
<1>7. SessionsBounded'
  <2>1. \A s \in Sessions' : Missing(s)' # {} /\ DOMAIN pending'[s].chunks # {}
    BY DEF Missing, WellHalf
  <2> QED
    BY <1>1, <2>1 DEF SessionsBounded
<1> QED
  BY <1>2, <1>3, <1>4, <1>5, <1>6, <1>7 DEF IInv

-----------------------------------------------------------------------------
(* The sender *)

LEMMA SendStep ==
  ASSUME IInv, NEW m \in Message, Send(m)
  PROVE  IInv'
<1> DEFINE s == Session[m]
<1>1. TypeOK /\ CacheTypeOK /\ SentInv /\ FiniteInv /\ SessionsBounded
  BY DEF IInv, TypeOK
<1>2. m \in Sendable /\ s \in SessionIds
  BY DEF Send, SessionIds
<1>3. PICK S \in Room(Fresh(cache), s, cache, FALSE) :
        cache' = With(Only(cache, S), s, [msg |-> m, age |-> 0])
  BY DEF Send
<1>4. Fresh(cache) \in SUBSET DOMAIN cache
  BY DEF Fresh
<1>5. IsFiniteSet(Fresh(cache)) /\ Cardinality(Fresh(cache)) <= MaxSessions
  BY <1>1, <1>4, FewerAreBounded DEF FiniteInv, SessionsBounded
<1>6. S \subseteq Fresh(cache) /\ IsFiniteSet(S \cup {s}) /\ Cardinality(S \cup {s}) <= MaxSessions
  BY <1>5, RoomIsBounded
<1> HIDE DEF s
<1>7. /\ DOMAIN cache' = S \cup {s} /\ cache'[s] = [msg |-> m, age |-> 0]
      /\ \A k \in S : k # s => k \in DOMAIN cache /\ cache'[k] = cache[k]
  <2>1. /\ DOMAIN cache' = S \cup {s} /\ cache'[s] = [msg |-> m, age |-> 0]
        /\ \A k \in S : k # s => cache'[k] = cache[k]
    BY <1>3 DEF With, Only
  <2> QED
    BY <1>4, <1>6, <2>1
<1>8. /\ DOMAIN sends' = Message /\ sends'[m] > 0
      /\ \A k \in Message : sends'[k] \in 0 .. MaxSends[k] /\ sends[k] <= sends'[k]
      /\ \A k \in Message : sends[k] > 0 => sends'[k] > 0
  <2>1. /\ DOMAIN sends = Message /\ sends' = [sends EXCEPT ![m] = @ + 1] /\ sends[m] < MaxSends[m]
        /\ \A k \in Message : sends[k] \in 0 .. MaxSends[k] /\ MaxSends[k] \in Nat
    BY <1>1, FragmentsAssumption DEF Send, TypeOK
  <2> QED
    BY <2>1
<1>9. CacheTypeOK'
  <2>1. [msg |-> m, age |-> 0] \in [msg : Sendable, age : 0 .. TimeToLive]
    BY <1>2, FragmentsAssumption
  <2> QED
    BY <1>1, <1>2, <1>7, <2>1 DEF CacheTypeOK
<1>10. \A k \in DOMAIN cache' : Session[cache'[k].msg] = k /\ sends'[cache'[k].msg] > 0
  <2> SUFFICES ASSUME NEW k \in DOMAIN cache'
               PROVE  Session[cache'[k].msg] = k /\ sends'[cache'[k].msg] > 0
    OBVIOUS
  <2>1. CASE k = s
    BY <2>1, <1>7, <1>8 DEF s
  <2>2. CASE k # s
    <3>1. k \in DOMAIN cache /\ cache'[k] = cache[k]
      BY <2>2, <1>7
    <3>2. cache[k].msg \in Message /\ Session[cache[k].msg] = k /\ sends[cache[k].msg] > 0
      BY <1>1, <3>1 DEF SentInv, CacheTypeOK, Sendable
    <3> QED
      BY <1>8, <3>1, <3>2
  <2> QED
    BY <2>1, <2>2
<1>11. \A f \in air' : f \in Frame /\
         (f.kind = "frag" => \E k \in Sendable : sends'[k] > 0 /\ f \in FragsOf(k))
  <2> SUFFICES ASSUME NEW f \in air'
               PROVE  f \in Frame /\
                      (f.kind = "frag" => \E k \in Sendable : sends'[k] > 0 /\ f \in FragsOf(k))
    OBVIOUS
  <2>1. CASE f \in air
    BY <1>1, <1>8, <2>1 DEF TypeOK, SentInv, Sendable
  <2>2. CASE f \notin air
    <3>1. f \in FragsOf(m)
      BY <2>2 DEF Send
    <3>2. f \in Frame
      BY <1>2, <3>1, FragIsFrame DEF FragsOf
    <3> QED
      BY <1>2, <1>8, <3>1, <3>2
  <2> QED
    BY <2>1, <2>2
<1>12. SentInv' /\ air' \subseteq Frame
  BY <1>10, <1>11 DEF SentInv
<1>13. IsFiniteSet(DOMAIN cache') /\ Cardinality(DOMAIN cache') <= MaxSessions
  BY <1>6, <1>7
<1>14. UNCHANGED <<pending, delivered>>
  BY DEF Send
<1> QED
  BY <1>8, <1>9, <1>12, <1>13, <1>14, ReceiverKept

\* A step of the sender that sends no message and adds nothing to the cache.
LEMMA CacheCut ==
  ASSUME IInv, UNCHANGED <<pending, delivered, sends>>,
         air' \subseteq Frame, GenuineAir(air'),
         DOMAIN cache' \subseteq DOMAIN cache,
         \A s \in DOMAIN cache' : cache'[s] = cache[s]
  PROVE  IInv'
<1>1. TypeOK /\ CacheTypeOK /\ SentInv /\ FiniteInv /\ SessionsBounded
  BY DEF IInv, TypeOK
<1>2. CacheTypeOK' /\ SentInv'
  BY <1>1 DEF CacheTypeOK, SentInv, GenuineAir
<1>3. IsFiniteSet(DOMAIN cache') /\ Cardinality(DOMAIN cache') <= MaxSessions
  BY <1>1, FewerAreBounded DEF FiniteInv, SessionsBounded
<1>4. \A m \in Message : sends'[m] \in 0 .. MaxSends[m] /\ sends[m] <= sends'[m]
  BY <1>1, FragmentsAssumption DEF TypeOK
<1> QED
  BY <1>1, <1>2, <1>3, <1>4, ReceiverKept DEF TypeOK

LEMMA HearNackStep ==
  ASSUME IInv, NEW g \in air, HearNack(g)
  PROVE  IInv'
<1> DEFINE s == g.session
<1>1. TypeOK /\ CacheTypeOK /\ SentInv
  BY DEF IInv, TypeOK
<1>2. UNCHANGED <<cache, pending, delivered, sends>>
  BY DEF HearNack
<1>3. ASSUME NEW f \in air'
      PROVE  f \in Frame /\
             (f.kind = "frag" => \E k \in Sendable : sends[k] > 0 /\ f \in FragsOf(k))
  <2>1. CASE f \in air
    BY <1>1, <2>1 DEF SentInv, TypeOK
  <2>2. CASE f \notin air
    <3>1. s \in DOMAIN cache /\ f \in Retransmitted(s, g.missing)
      BY <2>2 DEF HearNack
    <3> DEFINE m == cache[s].msg
    <3>2. m \in Sendable /\ sends[m] > 0
      BY <1>1, <3>1 DEF CacheTypeOK, SentInv
    <3>3. PICK i \in Index(m) : f = Frag(m, i)
      BY <3>1 DEF Retransmitted
    <3> HIDE DEF m
    <3> QED
      BY <3>2, <3>3, FragIsFrame
  <2> QED
    BY <2>1, <2>2
<1>4. air' \subseteq Frame /\ GenuineAir(air')
  BY <1>3 DEF GenuineAir
<1> QED
  BY <1>2, <1>4, CacheCut

LEMMA PruneStep ==
  ASSUME IInv, Prune
  PROVE  IInv'
<1>1. UNCHANGED <<air, pending, delivered, sends>> /\ cache' = Only(cache, Fresh(cache))
  BY DEF Prune
<1>2. /\ DOMAIN cache' \subseteq DOMAIN cache
      /\ \A s \in DOMAIN cache' : cache'[s] = cache[s]
  BY <1>1, OnlyApplies DEF Fresh
<1>3. air' \subseteq Frame /\ GenuineAir(air')
  BY <1>1 DEF IInv, TypeOK, SentInv, GenuineAir
<1> QED
  BY <1>1, <1>2, <1>3, CacheCut

-----------------------------------------------------------------------------
(* The receiver *)

LEMMA AliveAreBounded ==
  ASSUME IInv
  PROVE  /\ Alive \subseteq Sessions /\ IsFiniteSet(Alive)
         /\ Cardinality(Alive) <= MaxSessions
<1>1. Alive \in SUBSET Sessions
  BY DEF Alive, Fresh, Sessions
<1> QED
  BY <1>1, FewerAreBounded DEF IInv, FiniteInv, SessionsBounded

\* The session of a fragment is a part of one payload, before the fragment
\* is added: what it was made for, if it is a new one.
LEMMA EntryOf ==
  ASSUME IInv, NEW m \in Sendable, sends[m] > 0, NEW i \in Index(m)
  PROVE  LET old == [Entry(Frag(m, i)) EXCEPT !.age = 0]
         IN  /\ old \in Half
             /\ \E k \in Sendable : Session[k] = Session[m] /\ sends[k] > 0 /\ PartOf(old, k)
             /\ WellHalf(Session[m], old) \/ old.total = Total[m]
<1> DEFINE f == Frag(m, i)
           new == [total |-> Total[m], chunks |-> [j \in {} |-> 0], age |-> 0]
           old == [Entry(f) EXCEPT !.age = 0]
<1>1. f.session = Session[m] /\ f.total = Total[m]
  BY DEF Frag
<1>2. 0 \in 0 .. TimeToLive
  BY FragmentsAssumption
<1>3. CASE Session[m] \in Alive
  <2>1. Entry(f) = pending[Session[m]] /\ Session[m] \in Sessions
    BY <1>1, <1>3, AliveAreBounded DEF Entry
  <2>2. WellHalf(Session[m], Entry(f))
    BY <2>1, Waiting
  <2> HIDE DEF f
  <2>3. WellHalf(Session[m], old)
    BY <1>2, <2>2, AgeIsApart
  <2> HIDE DEF old
  <2>4. old \in Half /\ \E k \in Sendable : Session[k] = Session[m] /\ sends[k] > 0 /\ PartOf(old, k)
    BY <2>3 DEF WellHalf
  <2> QED
    BY <2>3, <2>4 DEF old, f
<1>4. CASE Session[m] \notin Alive
  <2>1. Entry(f) = new
    BY <1>1, <1>4 DEF Entry
  <2>2. old = new
    BY <2>1
  <2>3. PartOf(new, m)
    BY DEF PartOf
  <2>4. new \in Half
    BY <1>2, <2>3, PartIsHalf
  <2>5. new.total = Total[m]
    OBVIOUS
  <2> HIDE DEF new, old
  <2>6. old \in Half /\ PartOf(old, m) /\ old.total = Total[m]
    BY <2>2, <2>3, <2>4, <2>5
  <2> QED
    BY <2>6 DEF old, f
<1> QED
  BY <1>3, <1>4

\* As many chunks as there are numbers: none is missing.
LEMMA WholeIsPayload ==
  ASSUME NEW m \in Sendable, NEW e, PartOf(e, m)
  PROVE  /\ IsWhole(e) => Joined(e) = Payload(m)
         /\ ~IsWhole(e) => (1 .. e.total) \ DOMAIN e.chunks # {}
<1> DEFINE D == DOMAIN e.chunks
           n == Total[m]
<1>1. n \in Nat /\ e.total = n /\ D \in SUBSET (1 .. n) /\ \A i \in D : e.chunks[i] = Chunk(m, i)
  BY FragmentsAssumption DEF PartOf, Index, Sendable
<1> HIDE DEF n, D
<1>2. IsFiniteSet(1 .. n) /\ Cardinality(1 .. n) = n
  BY <1>1, FS_Interval
<1>3. Cardinality(D) = n <=> D = 1 .. n
  BY <1>1, <1>2, FS_Subset
<1>4. ASSUME IsWhole(e)
      PROVE  Joined(e) = Payload(m)
  <2>1. D = 1 .. n
    BY <1>1, <1>3, <1>4 DEF IsWhole, D
  <2>2. Joined(e) = [i \in 1 .. n |-> e.chunks[i]]
    BY <1>1 DEF Joined
  <2>3. Payload(m) = [i \in 1 .. n |-> Chunk(m, i)]
    BY DEF Payload, Index, n
  <2> QED
    BY <1>1, <2>1, <2>2, <2>3
<1>5. ASSUME ~IsWhole(e)
      PROVE  (1 .. e.total) \ DOMAIN e.chunks # {}
  <2>1. D # 1 .. n
    BY <1>1, <1>3, <1>5 DEF IsWhole, D
  <2> QED
    BY <1>1, <2>1 DEF D
<1> QED
  BY <1>4, <1>5

\* A chunk added to its own payload.
LEMMA ChunkAdded ==
  ASSUME NEW m \in Sendable, NEW i \in Index(m),
         NEW old \in Half, PartOf(old, m), old.age = 0
  PROVE  LET e == [old EXCEPT !.chunks = With(@, i, Chunk(m, i))]
         IN  e \in Half /\ PartOf(e, m) /\ DOMAIN e.chunks # {}
<1> DEFINE h == old.chunks
           x == Chunk(m, i)
           c == With(h, i, x)
           e == [total |-> old.total, chunks |-> c, age |-> 0]
<1>1. [old EXCEPT !.chunks = With(@, i, Chunk(m, i))] = e
  BY DEF Half
<1>2. /\ DOMAIN c = DOMAIN h \cup {i} /\ c[i] = x
      /\ \A k \in DOMAIN h : k # i => c[k] = h[k]
      /\ c = [k \in DOMAIN c |-> c[k]]
  <2> HIDE DEF h, x
  <2> QED
    BY DEF With
<1> HIDE DEF c
<1>3. PartOf(e, m)
  BY <1>2 DEF PartOf
<1>4. 0 \in 0 .. TimeToLive
  BY FragmentsAssumption
<1>5. e \in Half
  BY <1>2, <1>3, <1>4, PartIsHalf
<1>6. DOMAIN e.chunks # {}
  BY <1>2
<1> QED
  BY <1>1, <1>3, <1>5, <1>6

LEMMA HearFragStep ==
  ASSUME IInv, NEW f \in air, HearFrag(f)
  PROVE  IInv'
<1>1. PICK m \in Sendable : sends[m] > 0 /\ f \in FragsOf(m)
  BY DEF IInv, SentInv, HearFrag
<1>2. PICK i \in Index(m) : f = Frag(m, i)
  BY <1>1 DEF FragsOf
<1> DEFINE s == Session[m]
           old == [Entry(f) EXCEPT !.age = 0]
           e == [old EXCEPT !.chunks = With(@, i, Chunk(m, i))]
<1>3. f.session = s /\ f.total = Total[m] /\ f.idx = i /\ f.chunk = Chunk(m, i)
  BY <1>2 DEF Frag
<1>4. UNCHANGED <<cache, sends>> /\ air' = air \ {f}
  BY DEF HearFrag
<1>5. PICK S \in Room(Alive, s, pending, TRUE) :
        \/ /\ ~SameTotal(f, old)
           /\ pending' = With(Only(pending, S), s, old)
           /\ UNCHANGED delivered
        \/ /\ SameTotal(f, old) /\ ~IsWhole(e)
           /\ pending' = With(Only(pending, S), s, e)
           /\ UNCHANGED delivered
        \/ /\ SameTotal(f, old) /\ IsWhole(e)
           /\ pending' = Only(pending, S \ {s})
           /\ delivered' = delivered \cup {Joined(e)}
  BY <1>3 DEF HearFrag
<1>6. S \subseteq Alive /\ IsFiniteSet(S \cup {s}) /\ Cardinality(S \cup {s}) <= MaxSessions
  BY AliveAreBounded, RoomIsBounded
<1>7. \A k \in S : WellHalf(k, pending[k])
  BY <1>6, AliveAreBounded, Waiting
<1>8. air' \subseteq Frame /\ GenuineAir(air')
  BY <1>4 DEF IInv, TypeOK, SentInv, GenuineAir
<1>9. /\ old \in Half
      /\ \E k \in Sendable : Session[k] = s /\ sends[k] > 0 /\ PartOf(old, k)
      /\ WellHalf(s, old) \/ old.total = Total[m]
  BY <1>1, <1>2, EntryOf
<1>10. old.age = 0
  <2>1. \/ Entry(f) = pending[s] /\ s \in Sessions
        \/ Entry(f) = [total |-> f.total, chunks |-> [j \in {} |-> 0], age |-> 0]
    BY <1>3, AliveAreBounded DEF Entry
  <2>2. \A k \in Sessions : pending[k] \in Half
    BY DEF IInv, TypeOK
  <2> QED
    BY <2>1, <2>2 DEF Half
<1> HIDE DEF old, s
<1>11. SameTotal(f, old) => e \in Half /\ PartOf(e, m) /\ DOMAIN e.chunks # {}
  <2> SUFFICES ASSUME SameTotal(f, old)
               PROVE  e \in Half /\ PartOf(e, m) /\ DOMAIN e.chunks # {}
    OBVIOUS
  <2>1. PICK k \in Sendable : Session[k] = s /\ PartOf(old, k)
    BY <1>9
  <2>2. k = m
    BY <1>3, <2>1, FragmentsAssumption DEF SameTotal, PartOf, Sendable, s
  <2> QED
    BY <1>9, <1>10, <2>1, <2>2, ChunkAdded
<1> HIDE DEF e
<1>12. s \in SessionIds /\ Session[m] = s
  BY DEF SessionIds, s
<1>13. ASSUME NEW v, pending' = With(Only(pending, S), s, v), WellHalf(s, v), UNCHANGED delivered
       PROVE  IInv'
  <2>1. /\ Sessions' = S \cup {s} /\ pending'[s] = v
        /\ \A k \in S : k # s => pending'[k] = pending[k]
    <3>1. /\ DOMAIN pending' = S \cup {s} /\ pending'[s] = v
          /\ \A k \in S : k # s => pending'[k] = pending[k]
      BY <1>13 DEF With, Only
    <3> QED
      BY <3>1 DEF Sessions
  <2>2. \A k \in Sessions' : WellHalf(k, pending'[k])
    BY <1>7, <1>13, <2>1
  <2> QED
    BY <1>4, <1>6, <1>8, <1>13, <2>1, <2>2, SenderKept
<1>14. CASE ~SameTotal(f, old)
  <2>1. WellHalf(s, old)
    BY <1>3, <1>9, <1>14 DEF SameTotal
  <2> QED
    BY <1>5, <1>13, <1>14, <2>1
<1>15. CASE SameTotal(f, old) /\ ~IsWhole(e)
  <2>1. WellHalf(s, e)
    BY <1>1, <1>11, <1>12, <1>15, WholeIsPayload DEF WellHalf
  <2> QED
    BY <1>5, <1>13, <1>15, <2>1
<1>16. CASE SameTotal(f, old) /\ IsWhole(e)
  <2>1. pending' = Only(pending, S \ {s}) /\ delivered' = delivered \cup {Joined(e)}
    BY <1>5, <1>16
  <2>2. Joined(e) = Payload(m)
    BY <1>11, <1>16, WholeIsPayload
  <2>3. Sessions' = S \ {s} /\ \A k \in S \ {s} : pending'[k] = pending[k]
    BY <2>1, OnlyApplies DEF Sessions
  <2>4. S \ {s} \in SUBSET (S \cup {s})
    OBVIOUS
  <2>5. IsFiniteSet(Sessions') /\ Cardinality(Sessions') <= MaxSessions
    BY <1>6, <2>3, <2>4, FewerAreBounded
  <2>6. \A k \in Sessions' : WellHalf(k, pending'[k])
    BY <1>7, <2>3
  <2>7. \A d \in delivered' \ delivered : \E k \in Sendable : d = Payload(k) /\ sends[k] > 0
    BY <1>1, <2>1, <2>2
  <2> QED
    BY <1>4, <1>8, <2>5, <2>6, <2>7, SenderKept
<1> QED
  BY <1>14, <1>15, <1>16

LEMMA HearNoiseStep ==
  ASSUME IInv, HearNoise
  PROVE  IInv'
<1>1. UNCHANGED <<cache, air, delivered, sends>> /\ pending' = Only(pending, Alive)
  BY DEF HearNoise
<1>2. Sessions' = Alive /\ \A s \in Alive : s \in Sessions /\ pending'[s] = pending[s]
  BY <1>1, OnlyApplies, AliveAreBounded DEF Sessions
<1>3. air' \subseteq Frame /\ GenuineAir(air')
  BY <1>1 DEF IInv, TypeOK, SentInv, GenuineAir
<1>4. \A s \in Sessions' : WellHalf(s, pending'[s])
  BY <1>2, Waiting
<1> QED
  BY <1>1, <1>2, <1>3, <1>4, AliveAreBounded, SenderKept

LEMMA CheckTimeoutsStep ==
  ASSUME IInv, CheckTimeouts
  PROVE  IInv'
<1> DEFINE late == {s \in Sessions : pending[s].age >= NackTimeout /\ Missing(s) # {}}
<1>1. UNCHANGED <<cache, delivered, sends>>
  BY DEF CheckTimeouts
<1>2. /\ Sessions' = Sessions
      /\ \A s \in Sessions :
           pending'[s] = [pending[s] EXCEPT !.age = 0] \/ pending'[s] = pending[s]
  BY DEF CheckTimeouts, Sessions
<1>3. \A s \in Sessions : s \in SessionIds /\ AskedFor(s) \in SUBSET (1 .. MaxChunks)
  <2> SUFFICES ASSUME NEW s \in Sessions
               PROVE  s \in SessionIds /\ AskedFor(s) \in SUBSET (1 .. MaxChunks)
    OBVIOUS
  <2>1. s \in SessionIds /\ pending[s].total \in 1 .. MaxChunks /\ MaxChunks \in Nat
    BY Waiting, FragmentsAssumption DEF WellHalf, Half
  <2> QED
    BY <2>1 DEF AskedFor, Missing
<1>4. ASSUME NEW f \in air'
      PROVE  f \in Frame /\
             (f.kind = "frag" => \E k \in Sendable : sends[k] > 0 /\ f \in FragsOf(k))
  <2>1. CASE f \in air
    BY <2>1 DEF IInv, TypeOK, SentInv
  <2>2. CASE f \notin air
    <3>1. PICK s \in Sessions : f = Nack(s, AskedFor(s))
      BY <2>2 DEF CheckTimeouts
    <3> QED
      BY <3>1, <1>3, NackIsFrame
  <2> QED
    BY <2>1, <2>2
<1>5. air' \subseteq Frame /\ GenuineAir(air')
  BY <1>4 DEF GenuineAir
<1>6. \A s \in Sessions' : WellHalf(s, pending'[s])
  <2>1. 0 \in 0 .. TimeToLive
    BY FragmentsAssumption
  <2>2. \A s \in Sessions : WellHalf(s, [pending[s] EXCEPT !.age = 0])
    BY <2>1, Waiting, AgeIsApart
  <2> QED
    BY <1>2, <2>2, Waiting
<1>7. IsFiniteSet(Sessions') /\ Cardinality(Sessions') <= MaxSessions
  BY <1>2 DEF IInv, FiniteInv, SessionsBounded
<1> QED
  BY <1>1, <1>5, <1>6, <1>7, SenderKept

-----------------------------------------------------------------------------
(* The radio and the clock *)

LEMMA LoseStep ==
  ASSUME IInv, NEW f \in air, Lose(f)
  PROVE  IInv'
<1>1. UNCHANGED <<cache, pending, delivered, sends>> /\ air' \subseteq air
  BY DEF Lose
<1>2. air' \subseteq Frame /\ GenuineAir(air')
  BY <1>1 DEF IInv, TypeOK, SentInv, GenuineAir
<1> QED
  BY <1>1, <1>2, CacheCut

LEMMA TickStep ==
  ASSUME IInv, Tick
  PROVE  IInv'
<1>1. TypeOK /\ CacheTypeOK /\ SentInv /\ HalfInv /\ FiniteInv /\ DeliveredIsWhole /\ SessionsBounded
  BY DEF IInv, TypeOK
<1>2. UNCHANGED <<air, delivered, sends>>
  BY DEF Tick
<1>3. /\ DOMAIN cache' = DOMAIN cache
      /\ \A s \in DOMAIN cache : cache'[s] = [cache[s] EXCEPT !.age = Older(@)]
  BY DEF Tick
<1>4. /\ Sessions' = Sessions
      /\ \A s \in Sessions : pending'[s] = [pending[s] EXCEPT !.age = Older(@)]
  BY DEF Tick, Sessions
<1>5. \A s \in DOMAIN cache :
        /\ cache'[s] \in [msg : Sendable, age : 0 .. TimeToLive]
        /\ cache'[s].msg = cache[s].msg
  BY <1>1, <1>3, OlderAge DEF CacheTypeOK
<1>6. CacheTypeOK' /\ SentInv'
  BY <1>1, <1>2, <1>3, <1>5 DEF CacheTypeOK, SentInv
<1>7. ASSUME NEW s \in Sessions
      PROVE  WellHalf(s, pending'[s])
  <2>1. WellHalf(s, pending[s]) /\ pending[s] \in Half
    BY Waiting DEF WellHalf
  <2>2. Older(pending[s].age) \in 0 .. TimeToLive
    BY <2>1, OlderAge DEF Half
  <2>3. pending'[s] = [pending[s] EXCEPT !.age = Older(pending[s].age)]
    BY <1>4
  <2> QED
    BY <2>1, <2>2, <2>3, AgeIsApart
<1>8. TypeOK'
  BY <1>1, <1>2, <1>4, <1>6, <1>7 DEF TypeOK, WellHalf
<1>9. HalfInv'
  BY <1>2, <1>4, <1>7 DEF HalfInv, WellHalf
<1>10. FiniteInv' /\ DeliveredIsWhole'
  BY <1>1, <1>2, <1>3, <1>4 DEF FiniteInv, DeliveredIsWhole
<1>11. SessionsBounded'
  BY <1>1, <1>3, <1>4, <1>7 DEF SessionsBounded, Missing, WellHalf
<1> QED
  BY <1>6, <1>8, <1>9, <1>10, <1>11 DEF IInv

-----------------------------------------------------------------------------
LEMMA NextIInv == IInv /\ [Next]_vars => IInv'
<1> SUFFICES ASSUME IInv, [Next]_vars PROVE IInv'
  OBVIOUS
<1>1. CASE \E m \in Message : Send(m)
  BY <1>1, SendStep
<1>2. CASE \E f \in air : HearFrag(f)
  BY <1>2, HearFragStep
<1>3. CASE \E f \in air : HearNack(f)
  BY <1>3, HearNackStep
<1>4. CASE \E f \in air : Lose(f)
  BY <1>4, LoseStep
<1>5. CASE Prune
  BY <1>5, PruneStep
<1>6. CASE HearNoise
  BY <1>6, HearNoiseStep
<1>7. CASE CheckTimeouts
  BY <1>7, CheckTimeoutsStep
<1>8. CASE Tick
  BY <1>8, TickStep
<1>9. CASE UNCHANGED vars
  BY <1>9 DEF vars, IInv, TypeOK, CacheTypeOK, SentInv, HalfInv, FiniteInv,
              DeliveredIsWhole, SessionsBounded, Sessions, Missing
<1> QED
  BY <1>1, <1>2, <1>3, <1>4, <1>5, <1>6, <1>7, <1>8, <1>9 DEF Next

(* The inductive invariant holds of every behaviour of the two hubs: it    *)
(* adds that whatever is cached or on the air was sent, and that a session *)
(* holds chunks of one payload only.                                       *)
THEOREM Invariant == Spec => []IInv
<1>1. Init => IInv
  BY InitIInv
<1>2. IInv /\ [Next]_vars => IInv'
  BY NextIInv
<1> QED
  BY <1>1, <1>2, PTL DEF Spec

(* Every state of cache, air and sessions keeps its type, for any limits   *)
(* (frag.rs, MeshRadioHub).                                                *)
THEOREM TypeCorrect == Spec => []TypeOK
<1>1. IInv => TypeOK
  BY DEF IInv
<1> QED
  BY <1>1, Invariant, PTL

(* What push_payload hands on is, chunk by chunk, a payload that was sent, *)
(* although it only counts the chunks: whatever is lost, repeated,         *)
(* reordered, expired or evicted, and although payloads of different       *)
(* lengths may share a session id.                                         *)
THEOREM WholeOnly == Spec => []DeliveredIsWhole
<1>1. IInv => DeliveredIsWhole
  BY DEF IInv
<1> QED
  BY <1>1, Invariant, PTL

(* Neither the assembler nor the cache holds more than MaxSessions, and no *)
(* session waits that has all its fragments.                               *)
THEOREM BoundedSessions == Spec => []SessionsBounded
<1>1. IInv => SessionsBounded
  BY DEF IInv
<1> QED
  BY <1>1, Invariant, PTL

-----------------------------------------------------------------------------
(* Shifts *)

\* The powers of two, from one on.
LEMMA Pow2Unfolds ==
  /\ Pow2[0] = 1
  /\ \A n \in Nat : Pow2[n] \in Nat \ {0} /\ Pow2[n+1] = 2 * Pow2[n]
<1> DEFINE Pos == Nat \ {0}
           step == [n \in Nat |-> [a \in Pos |-> 2 * a]]
           Solves(f) == f = [n \in Nat |-> IF n = 0 THEN 1 ELSE 2 * f[n-1]]
<1>1. \A n \in Nat : Steps(step, Pos, 0, n)
  BY DEF Steps
<1>2. PICK f : FollowsOn(f, step, Pos, 1)
  <2>1. 1 \in Pos
    OBVIOUS
  <2> HIDE DEF step, Pos
  <2> QED
    BY <1>1, <2>1, NatRecursionExists
<1>3. Solves(f)
  <2>1. f \in [Nat -> Pos] /\ f[0] = 1 /\ \A n \in Nat : f[n+1] = step[n+1][f[n]]
    <3> HIDE DEF step, Pos
    <3> QED
      BY <1>2 DEF FollowsOn
  <2>2. ASSUME NEW n \in Nat, n # 0
        PROVE  f[n] = 2 * f[n-1]
    <3>1. n - 1 \in Nat /\ (n - 1) + 1 = n
      BY <2>2
    <3> QED
      BY <2>1, <3>1
  <2> QED
    BY <2>1, <2>2
<1>4. Solves(Pow2)
  <2>1. Pow2 = CHOOSE g : Solves(g)
    BY DEF Pow2
  <2> HIDE DEF Solves
  <2> QED
    BY <1>3, <2>1
<1>5. Pow2[0] = 1 /\ \A n \in Nat : Pow2[n+1] = 2 * Pow2[n]
  <2>1. \A n \in Nat : n + 1 \in Nat /\ n + 1 # 0 /\ (n + 1) - 1 = n
    OBVIOUS
  <2>2. 0 \in Nat /\ \A n \in Nat : Pow2[n] = IF n = 0 THEN 1 ELSE 2 * Pow2[n-1]
    BY <1>4
  <2> QED
    BY <2>1, <2>2
<1> DEFINE Q == {n \in Nat : Pow2[n] \in Nat \ {0}}
<1>6. 0 \in Q /\ \A n \in Nat : n \in Q => n + 1 \in Q
  BY <1>5
<1>7. Nat \subseteq Q
  <2> HIDE DEF Q
  <2> QED
    BY <1>6, NatSetInduction
<1> QED
  BY <1>5, <1>7

\* A power is positive.
LEMMA Pow2Positive ==
  ASSUME NEW n \in Nat
  PROVE  Pow2[n] \in Nat /\ Pow2[n] > 0
BY Pow2Unfolds

\* The power of a sum is the product of the powers.
LEMMA Pow2Sum ==
  ASSUME NEW a \in Nat, NEW b \in Nat
  PROVE  Pow2[a+b] = Pow2[a] * Pow2[b]
<1> DEFINE Q == {n \in Nat : Pow2[a+n] = Pow2[a] * Pow2[n]}
<1>1. 0 \in Q
  BY Pow2Unfolds, Pow2Positive
<1>2. ASSUME NEW n \in Nat, n \in Q
      PROVE  n + 1 \in Q
  <2>1. Pow2[a+(n+1)] = 2 * (Pow2[a] * Pow2[n])
    <3>1. a + n \in Nat /\ a + (n + 1) = (a + n) + 1
      OBVIOUS
    <3> QED
      BY <1>2, <3>1, Pow2Unfolds
  <2>2. 2 * (Pow2[a] * Pow2[n]) = Pow2[a] * (2 * Pow2[n])
    BY Pow2Positive
  <2> QED
    BY <2>1, <2>2, Pow2Unfolds
<1>3. Nat \subseteq Q
  <2> HIDE DEF Q
  <2> QED
    BY <1>1, <1>2, NatSetInduction
<1> QED
  BY <1>3

\* A product grows with a factor.
LEMMA ProductGrows ==
  ASSUME NEW a \in Nat, NEW b \in Nat, NEW c \in Nat, a <= b
  PROVE  a * c \in Nat /\ b * c \in Nat /\ a * c <= b * c
OBVIOUS

\* A greater power is greater.
LEMMA Pow2Grows ==
  ASSUME NEW a \in Nat, NEW b \in Nat, a <= b
  PROVE  Pow2[a] <= Pow2[b]
<1>1. b - a \in Nat /\ a + (b - a) = b
  OBVIOUS
<1>2. Pow2[b] = Pow2[a] * Pow2[b-a]
  BY <1>1, Pow2Sum
<1>3. 1 <= Pow2[b-a] /\ Pow2[b-a] \in Nat /\ Pow2[a] \in Nat
  BY <1>1, Pow2Positive
<1>4. 1 * Pow2[a] <= Pow2[b-a] * Pow2[a]
  BY <1>3, ProductGrows
<1> QED
  BY <1>2, <1>3, <1>4

\* A number is its bits above and its bits below.
LEMMA ShrLow ==
  ASSUME NEW x \in Nat, NEW n \in Nat
  PROVE  /\ Shr(x, n) \in Nat /\ Low(x, n) \in Nat /\ Low(x, n) < Pow2[n]
         /\ x = Shr(x, n) * Pow2[n] + Low(x, n)
<1>1. Pow2[n] \in Nat /\ Pow2[n] > 0
  BY Pow2Positive
<1>2. ASSUME NEW p \in Nat, p > 0
      PROVE  x \div p \in Nat /\ (x % p) \in Nat /\ (x % p) < p /\ x = ((x \div p) * p) + (x % p)
  <2>1. (x % p) \in 0 .. p - 1 /\ x \div p \in Int /\ x \div p >= 0
    BY <1>2
  <2>2. x % p = x - p * (x \div p)
    BY <1>2
  <2> QED
    BY <2>1, <2>2
<1> QED
  BY <1>1, <1>2 DEF Shr, Low

\* What is put together of bits above and bits below is taken apart again.
LEMMA ShrLowUnique ==
  ASSUME NEW q \in Nat, NEW n \in Nat, NEW r \in Nat, r < Pow2[n]
  PROVE  Shr(q * Pow2[n] + r, n) = q /\ Low(q * Pow2[n] + r, n) = r
<1>1. Pow2[n] \in Nat /\ Pow2[n] > 0
  BY Pow2Positive
<1>2. ASSUME NEW p \in Nat, p > 0, r < p
      PROVE  (q * p + r) \div p = q /\ (q * p + r) % p = r
  <2>1. (q * p + r) \div p = q
    BY <1>2
  <2>2. (q * p + r) % p = (q * p + r) - p * ((q * p + r) \div p)
    BY <1>2
  <2>3. (q * p + r) - p * q = r
    BY <1>2
  <2> QED
    BY <2>1, <2>2, <2>3
<1> QED
  BY <1>1, <1>2 DEF Shr, Low

\* Two shifts are one, and the bits below it are those below each.
LEMMA ShrTwice ==
  ASSUME NEW x \in Nat, NEW a \in Nat, NEW b \in Nat
  PROVE  /\ Shr(Shr(x, a), b) = Shr(x, a + b)
         /\ Low(x, a + b) = Low(x, a) + Low(Shr(x, a), b) * Pow2[a]
<1> DEFINE P == Pow2[a]
           R == Pow2[b]
           q == Shr(Shr(x, a), b)
           r == Low(Shr(x, a), b)
           t == Low(x, a)
<1>1. P \in Nat /\ R \in Nat /\ P > 0 /\ R > 0
  BY Pow2Positive
<1>2. /\ Shr(x, a) = q * R + r /\ q \in Nat /\ r \in Nat /\ r < R
      /\ x = Shr(x, a) * P + t /\ t \in Nat /\ t < P
  BY ShrLow
<1>3. Pow2[b+a] = R * P /\ a + b = b + a /\ a + b \in Nat
  BY Pow2Sum
<1> HIDE DEF P, R, q, r, t
<1>4. x = q * (R * P) + (r * P + t)
  <2>1. (q * R + r) * P + t = q * (R * P) + (r * P + t)
    BY <1>1, <1>2
  <2> QED
    BY <1>2, <2>1
<1>5. r * P + t \in Nat /\ r * P + t < R * P
  <2>1. r <= R - 1 /\ R - 1 \in Nat
    BY <1>1, <1>2
  <2>2. r * P \in Nat /\ r * P <= (R - 1) * P
    BY <1>1, <1>2, <2>1, ProductGrows
  <2>3. (R - 1) * P = R * P - P
    BY <1>1
  <2>4. R * P \in Nat
    BY <1>1
  <2> QED
    BY <1>1, <1>2, <2>2, <2>3, <2>4
<1>6. /\ Shr(q * Pow2[a+b] + (r * P + t), a + b) = q
      /\ Low(q * Pow2[a+b] + (r * P + t), a + b) = r * P + t
  BY <1>2, <1>3, <1>5, ShrLowUnique
<1>7. x = q * Pow2[a+b] + (r * P + t)
  BY <1>3, <1>4
<1>8. Shr(x, a + b) = q /\ Low(x, a + b) = r * P + t
  BY <1>6, <1>7
<1>9. r * P + t = t + r * P
  BY <1>1, <1>2
<1> QED
  BY <1>8, <1>9 DEF q, r, t, P

\* Nothing is left of a number below the power it is shifted by.
LEMMA ShrOfSmall ==
  ASSUME NEW n \in Nat, NEW x \in Nat, x < Pow2[n]
  PROVE  Shr(x, n) = 0 /\ Low(x, n) = x
<1>1. 0 * Pow2[n] + x = x
  BY Pow2Positive
<1>2. Shr(0 * Pow2[n] + x, n) = 0 /\ Low(0 * Pow2[n] + x, n) = x
  BY ShrLowUnique
<1> QED
  BY <1>1, <1>2

\* The greatest length that two bytes can say.
MaxU16 == 65535

\* A number that two bytes can say is in its high and its low byte.
LEMMA HighAndLow ==
  ASSUME NEW n \in Nat, n <= MaxU16
  PROVE  /\ ((n \div 256) % 256) \in Nat /\ (n % 256) \in Nat
         /\ 256 * ((n \div 256) % 256) + (n % 256) = n
         /\ (n % 256) + 256 * ((n \div 256) % 256) = n
<1> DEFINE h == n \div 256
           l == n % 256
<1>1. l \in Nat /\ l < 256 /\ h \in Int /\ h >= 0 /\ l = n - 256 * h
  OBVIOUS
<1> HIDE DEF h, l
<1>2. h \in Nat /\ h < 256
  BY <1>1 DEF MaxU16
<1>3. (h % 256) = h
  BY <1>2
<1> QED
  BY <1>1, <1>2, <1>3 DEF h, l

-----------------------------------------------------------------------------
(* Varints *)

\* A group has a bit, and a word too.
LEMMA BaseIsPower ==
  GroupBits \in Nat \ {0} /\ WordBits \in Nat \ {0} /\ Base \in Nat /\ Base >= 2
<1>1. GroupBits \in Nat \ {0} /\ WordBits \in Nat \ {0}
  BY ProtoAssumption
<1>2. GroupBits - 1 \in Nat /\ (GroupBits - 1) + 1 = GroupBits
  BY <1>1
<1>3. Pow2[GroupBits] = 2 * Pow2[GroupBits - 1] /\ Pow2[GroupBits - 1] \in Nat \ {0}
  BY <1>2, Pow2Unfolds
<1> QED
  BY <1>1, <1>3 DEF Base

\* The number of groups is the least that holds the value, and each of them
\* starts within the word.
LEMMA GroupsHold ==
  ASSUME NEW val \in Word
  PROVE  /\ Groups(val) \in 1 .. WordBits
         /\ val \in Nat /\ val < Pow2[GroupBits * Groups(val)] /\ val < Pow2[WordBits]
         /\ Shiftable(Groups(val))
<1> DEFINE Fits(n) == val < Pow2[GroupBits * n]
           S == {n \in Nat : n >= 1 /\ Fits(n)}
<1>1. GroupBits \in Nat \ {0} /\ WordBits \in Nat \ {0}
  BY BaseIsPower
<1>2. val \in Nat /\ val < Pow2[WordBits] /\ Pow2[WordBits] \in Nat
  BY <1>1, Pow2Positive DEF Word
<1>3. WordBits \in S
  <2>1. GroupBits * WordBits \in Nat /\ 1 * WordBits <= GroupBits * WordBits
    BY <1>1, ProductGrows
  <2>2. Pow2[WordBits] <= Pow2[GroupBits * WordBits] /\ Pow2[GroupBits * WordBits] \in Nat
    BY <1>1, <2>1, Pow2Grows, Pow2Positive
  <2> QED
    BY <1>1, <1>2, <2>2
<1>4. PICK n \in S : \A m \in 0 .. n - 1 : m \notin S
  <2> HIDE DEF S
  <2>1. S \subseteq Nat
    BY DEF S
  <2> QED
    BY <1>1, <1>3, <2>1, LeastNumber
<1>5. n \in 1 .. WordBits /\ Fits(n) /\ \A m \in 1 .. n - 1 : val >= Pow2[GroupBits * m]
  <2>1. n <= WordBits
    BY <1>1, <1>3, <1>4
  <2>2. ASSUME NEW m \in 1 .. n - 1
        PROVE  val >= Pow2[GroupBits * m]
    <3>1. m \in 0 .. n - 1 /\ m >= 1 /\ m \in Nat
      BY <1>4
    <3>2. ~ Fits(m) /\ GroupBits * m \in Nat
      BY <1>1, <1>4, <3>1
    <3>3. Pow2[GroupBits * m] \in Nat
      BY <3>2, Pow2Positive
    <3> QED
      BY <1>2, <3>2, <3>3
  <2> QED
    BY <1>1, <1>4, <2>1, <2>2
<1> DEFINE g == Groups(val)
<1>6. g \in 1 .. WordBits /\ Fits(g) /\ \A m \in 1 .. g - 1 : val >= Pow2[GroupBits * m]
  BY <1>5 DEF Groups
<1> HIDE DEF g
<1>7. Shiftable(g)
  <2>1. CASE g = 1
    BY <1>1, <2>1 DEF Shiftable
  <2>2. CASE g # 1
    <3>1. g - 1 \in 1 .. g - 1
      BY <1>6, <2>2
    <3>2. Pow2[GroupBits * (g - 1)] <= val
      BY <1>6, <3>1
    <3>3. GroupBits * (g - 1) \in Nat /\ GroupBits * (g - 1) = (g - 1) * GroupBits
      BY <1>1, <1>6, <3>1
    <3>4. ~ (WordBits <= GroupBits * (g - 1))
      BY <1>1, <1>2, <3>2, <3>3, Pow2Grows, Pow2Positive
    <3> QED
      BY <1>1, <3>3, <3>4 DEF Shiftable
  <2> QED
    BY <2>1, <2>2
<1> QED
  BY <1>2, <1>6, <1>7 DEF g

\* Groups that start before one within the word are within it.
LEMMA ShiftableBelow ==
  ASSUME NEW n \in Nat, Shiftable(n), NEW i \in 1 .. n
  PROVE  Shiftable(i)
<1>1. GroupBits \in Nat /\ WordBits \in Nat /\ i - 1 \in Nat /\ n - 1 \in Nat /\ i - 1 <= n - 1
  BY BaseIsPower
<1>2. /\ (i - 1) * GroupBits \in Nat /\ (n - 1) * GroupBits \in Nat
      /\ (i - 1) * GroupBits <= (n - 1) * GroupBits
  BY <1>1, ProductGrows
<1> QED
  BY <1>1, <1>2 DEF Shiftable

\* The bytes of a number: its bits, group by group, with the mark that more
\* follow on all but the last.
LEMMA BytesOfNumber ==
  ASSUME NEW val \in Word
  PROVE  LET n == Groups(val)
             d(i) == Low(Shr(val, GroupBits * (i - 1)), GroupBits)
             buf == EncodeVarint(val)
         IN  /\ buf \in Seq(Nat) /\ Len(buf) = n /\ DOMAIN buf = 1 .. n
             /\ \A i \in 1 .. n : Low(buf[i], GroupBits) = d(i) /\ d(i) \in Nat
             /\ \A i \in 1 .. n : buf[i] < Base <=> i = n
<1> DEFINE n == Groups(val)
           d(i) == Low(Shr(val, GroupBits * (i - 1)), GroupBits)
           buf == EncodeVarint(val)
<1>1. GroupBits \in Nat /\ Base \in Nat /\ Base = Pow2[GroupBits]
  BY BaseIsPower DEF Base
<1>2. n \in Nat /\ n >= 1 /\ val \in Nat
  BY GroupsHold, BaseIsPower
<1>3. buf = [i \in 1 .. n |-> d(i) + (IF i < n THEN Base ELSE 0)]
  BY DEF EncodeVarint
<1> HIDE DEF n, buf
<1>4. ASSUME NEW i \in 1 .. n
      PROVE  d(i) \in Nat /\ d(i) < Base
  <2>1. GroupBits * (i - 1) \in Nat
    BY <1>1, <1>2
  <2> QED
    BY <1>1, <1>2, <2>1, ShrLow
<1> HIDE DEF d
<1>5. \A i \in 1 .. n : buf[i] = d(i) + (IF i < n THEN Base ELSE 0)
  BY <1>3
<1>6. \A i \in 1 .. n : buf[i] \in Nat /\ (buf[i] < Base <=> i = n)
  BY <1>1, <1>2, <1>4, <1>5
<1>7. buf \in [1 .. n -> Nat]
  BY <1>3, <1>6
<1>8. buf \in Seq(Nat) /\ Len(buf) = n
  BY <1>2, <1>7
<1>9. ASSUME NEW i \in 1 .. n
      PROVE  Low(buf[i], GroupBits) = d(i)
  <2>1. CASE i < n
    <3>1. buf[i] = 1 * Pow2[GroupBits] + d(i)
      BY <1>1, <1>4, <1>5, <2>1
    <3>2. Low(1 * Pow2[GroupBits] + d(i), GroupBits) = d(i)
      BY <1>1, <1>4, ShrLowUnique
    <3> QED
      BY <3>1, <3>2
  <2>2. CASE ~ (i < n)
    <3>1. buf[i] = d(i)
      BY <1>4, <1>5, <2>2
    <3> QED
      BY <1>1, <1>4, <3>1, ShrOfSmall
  <2> QED
    BY <2>1, <2>2
<1> QED
  BY <1>4, <1>6, <1>7, <1>8, <1>9 DEF n, d, buf

\* What decode_varint has put together of the first bytes.
Result(buf, n) ==
  LET result[i \in 0 .. n] ==
        IF i = 0 THEN 0
        ELSE result[i - 1] + Low(buf[i], GroupBits) * Pow2[GroupBits * (i - 1)]
  IN  result

\* Bytes are read one by one.
LEMMA ResultUnfolds ==
  ASSUME NEW buf, NEW n \in Nat, \A i \in 1 .. n : Low(buf[i], GroupBits) \in Nat
  PROVE  /\ Result(buf, n)[0] = 0
         /\ \A i \in 1 .. n : Result(buf, n)[i] =
              Result(buf, n)[i-1] + Low(buf[i], GroupBits) * Pow2[GroupBits * (i - 1)]
<1> DEFINE add(i) == Low(buf[i], GroupBits) * Pow2[GroupBits * (i - 1)]
           step == [i \in 1 .. n |-> [a \in Nat |-> a + add(i)]]
           Solves(f) == f = [i \in 0 .. n |-> IF i = 0 THEN 0 ELSE f[i-1] + add(i)]
           B == Result(buf, n)
<1>1. \A i \in 1 .. n : add(i) \in Nat
  <2>1. ASSUME NEW i \in 1 .. n
        PROVE  Pow2[GroupBits * (i - 1)] \in Nat
    <3>1. GroupBits * (i - 1) \in Nat
      BY BaseIsPower
    <3> QED
      BY <3>1, Pow2Positive
  <2>2. \A x, y \in Nat : x * y \in Nat
    OBVIOUS
  <2> QED
    BY <2>1, <2>2
<1> HIDE DEF add
<1>2. Steps(step, Nat, 0, n)
  BY <1>1 DEF Steps
<1>3. PICK f : Follows(f, step, Nat, 0, n, 0)
  <2>1. n \in Int /\ 0 \in Int /\ 0 <= n /\ 0 \in Nat
    OBVIOUS
  <2> HIDE DEF step
  <2> QED
    BY <1>2, <2>1, RecursionExists
<1>4. Solves(f)
  <2>1. /\ f \in [0 .. n -> Nat] /\ f[0] = 0
        /\ \A i \in 1 .. n : f[i] = step[i][f[i-1]]
    <3> HIDE DEF step
    <3> QED
      BY <1>3 DEF Follows
  <2>2. ASSUME NEW i \in 1 .. n
        PROVE  f[i] = f[i-1] + add(i)
    <3>1. f[i-1] \in Nat
      <4>1. i - 1 \in 0 .. n
        OBVIOUS
      <4> QED
        BY <2>1, <4>1
    <3> QED
      BY <2>1, <3>1
  <2>3. \A i \in 0 .. n : i # 0 => i \in 1 .. n
    OBVIOUS
  <2> HIDE DEF step
  <2> QED
    BY <2>1, <2>2, <2>3
<1>5. Solves(B)
  <2>1. B = CHOOSE g : Solves(g)
    BY DEF Result, add
  <2> HIDE DEF Solves, B
  <2> QED
    BY <1>4, <2>1
<1>6. 0 \in 0 .. n /\ \A i \in 1 .. n : i \in 0 .. n /\ i # 0
  OBVIOUS
<1> QED
  <2> HIDE DEF B
  <2>1. B[0] = 0 /\ \A i \in 1 .. n : B[i] = B[i-1] + add(i)
    BY <1>5, <1>6
  <2> QED
    BY <2>1 DEF B, add

\* The first byte without the mark ends the number.
LEMMA DecodeStops ==
  ASSUME NEW buf, NEW n \in DOMAIN buf, n \in Nat, DOMAIN buf \subseteq Nat,
         buf[n] < Base, \A i \in DOMAIN buf : i < n => ~ (buf[i] < Base)
  PROVE  DecodeVarint(buf) = [value |-> Low(Result(buf, n)[n], WordBits), used |-> n]
<1> DEFINE c == CHOOSE i \in LastBytes(buf) : \A j \in LastBytes(buf) : i <= j
<1>1. n \in LastBytes(buf) /\ \A i \in LastBytes(buf) : i \in Nat /\ n <= i
  BY DEF LastBytes
<1>2. c \in LastBytes(buf) /\ \A j \in LastBytes(buf) : c <= j
  BY <1>1
<1>3. c = n
  <2> HIDE DEF c
  <2> QED
    BY <1>1, <1>2
<1>4. DecodeVarint(buf) = [value |-> Low(Result(buf, c)[c], WordBits), used |-> c]
  BY Zenon DEF DecodeVarint, Result
<1> HIDE DEF c
<1> QED
  BY <1>3, <1>4

\* After each byte the result is that much of the number.
LEMMA ResultOfNumber ==
  ASSUME NEW val \in Word, NEW buf,
         \A i \in 1 .. Groups(val) : buf[i] = EncodeVarint(val)[i]
  PROVE  Result(buf, Groups(val))[Groups(val)] = val
<1> DEFINE n == Groups(val)
           R == Result(buf, n)
           B(i) == GroupBits * i
           d(i) == Low(Shr(val, B(i - 1)), GroupBits)
           Q == {i \in 0 .. n : R[i] = Low(val, B(i))}
<1>1. GroupBits \in Nat /\ n \in Nat /\ n >= 1 /\ val \in Nat /\ val < Pow2[B(n)]
  BY GroupsHold, BaseIsPower
<1>2. \A i \in 1 .. n : Low(buf[i], GroupBits) = d(i) /\ d(i) \in Nat
  BY BytesOfNumber
<1>3. \A i \in 0 .. n : B(i) \in Nat /\ B(i) + GroupBits = B(i + 1)
  BY <1>1
<1> HIDE DEF n, d
<1>4. R[0] = 0 /\ \A i \in 1 .. n : R[i] = R[i-1] + d(i) * Pow2[B(i - 1)]
  BY <1>1, <1>2, ResultUnfolds
<1> HIDE DEF R
<1>5. 0 \in Q
  <2>1. B(0) = 0 /\ Pow2[0] = 1
    BY <1>1, Pow2Unfolds
  <2>2. \A x \in Nat : (x % 1) = 0
    OBVIOUS
  <2>3. Low(val, B(0)) = 0
    BY <1>1, <2>1, <2>2 DEF Low
  <2> QED
    BY <1>1, <1>4, <2>3
<1>6. ASSUME NEW i \in 0 .. n - 1, i \in Q
      PROVE  i + 1 \in Q
  <2>1. i + 1 \in 1 .. n /\ i + 1 \in 0 .. n /\ (i + 1) - 1 = i /\ i \in 0 .. n
    BY <1>1
  <2>2. B(i) \in Nat /\ B(i + 1) = B(i) + GroupBits
    BY <1>3, <2>1
  <2>3. d(i + 1) = Low(Shr(val, B(i)), GroupBits)
    BY <2>1 DEF d
  <2> HIDE DEF B
  <2>4. Low(val, B(i) + GroupBits) = Low(val, B(i)) + d(i + 1) * Pow2[B(i)]
    <3>1. /\ val \in Nat /\ B(i) \in Nat /\ GroupBits \in Nat
      BY <1>1, <2>2
    <3>2. Low(val, B(i) + GroupBits)
            = Low(val, B(i)) + Low(Shr(val, B(i)), GroupBits) * Pow2[B(i)]
      BY ONLY <3>1, ShrTwice
    <3> QED
      BY <2>3, <3>2
  <2>5. R[i+1] = R[i] + d(i + 1) * Pow2[B(i)]
    BY <1>4, <2>1
  <2> QED
    BY <1>6, <2>1, <2>2, <2>4, <2>5
<1>7. 0 .. n \subseteq Q
  <2> HIDE DEF Q
  <2> QED
    BY <1>1, <1>5, <1>6, IntervalInduction
<1>8. R[n] = Low(val, B(n)) /\ B(n) \in Nat
  BY <1>1, <1>3, <1>7
<1>9. Low(val, B(n)) = val
  <2> HIDE DEF B
  <2> QED
    BY <1>1, <1>8, ShrOfSmall
<1> QED
  BY <1>8, <1>9 DEF R, n

\* A number is read back whatever follows its bytes.
LEMMA NumberThenRest ==
  ASSUME NEW val \in Word, NEW rest \in Seq(Nat)
  PROVE  LET buf == EncodeVarint(val) \o rest
         IN  /\ VarintVerdict(buf) = "ok"
             /\ DecodeVarint(buf) = [value |-> val, used |-> Groups(val)]
<1> DEFINE n == Groups(val)
           own == EncodeVarint(val)
           buf == own \o rest
<1>1. n \in Nat /\ n >= 1 /\ val \in Nat /\ val < Pow2[WordBits] /\ Shiftable(n)
  BY GroupsHold, BaseIsPower
<1>2. /\ own \in Seq(Nat) /\ Len(own) = n
      /\ \A i \in 1 .. n : own[i] < Base <=> i = n
  BY BytesOfNumber
<1>3. Result(buf, n)[n] = val
  <2>1. \A i \in 1 .. n : buf[i] = own[i]
    <3> HIDE DEF own, n
    <3> QED
      BY <1>1, <1>2, ConcatProperties
  <2> QED
    BY <2>1, ResultOfNumber
<1> HIDE DEF n, own
<1>4. /\ buf \in Seq(Nat) /\ n <= Len(buf) /\ Len(buf) \in Nat
      /\ \A i \in 1 .. n : buf[i] = own[i]
  BY <1>1, <1>2, ConcatProperties, LenProperties
<1>5. DOMAIN buf = 1 .. Len(buf)
  BY <1>4, LenProperties
<1> HIDE DEF buf
<1>6. n \in DOMAIN buf /\ buf[n] < Base
  BY <1>1, <1>2, <1>4, <1>5
<1>7. \A i \in DOMAIN buf : i < n => ~ (buf[i] < Base)
  BY <1>1, <1>2, <1>4, <1>5
<1>8. VarintVerdict(buf) = "ok"
  BY <1>1, <1>6 DEF VarintVerdict, LastBytes
<1>9. DecodeVarint(buf) = [value |-> Low(val, WordBits), used |-> n]
  BY <1>1, <1>3, <1>5, <1>6, <1>7, DecodeStops
<1>10. Low(val, WordBits) = val
  BY <1>1, ShrOfSmall, BaseIsPower
<1> QED
  BY <1>8, <1>9, <1>10 DEF buf, own, n

\* No part of a number's bytes is taken for a number.
LEMMA NumberCutShort ==
  ASSUME NEW val \in Word, NEW k \in 0 .. Groups(val) - 1
  PROVE  VarintVerdict(SubSeq(EncodeVarint(val), 1, k)) = "truncated"
<1> DEFINE n == Groups(val)
           own == EncodeVarint(val)
           cut == SubSeq(own, 1, k)
<1>1. n \in Nat /\ n >= 1 /\ Shiftable(n)
  BY GroupsHold, BaseIsPower
<1>2. /\ own \in Seq(Nat) /\ Len(own) = n
      /\ \A i \in 1 .. n : own[i] < Base <=> i = n
  BY BytesOfNumber
<1> HIDE DEF n, own
<1>3. k \in 0 .. n - 1
  BY DEF n
<1>4. DOMAIN cut = 1 .. k /\ \A i \in 1 .. k : cut[i] = own[i]
  BY <1>1, <1>2, <1>3
<1> HIDE DEF cut
<1>5. LastBytes(cut) = {}
  BY <1>1, <1>2, <1>3, <1>4 DEF LastBytes
<1>6. \A i \in DOMAIN cut : Shiftable(i)
  BY <1>1, <1>3, <1>4, ShiftableBelow
<1> QED
  BY <1>5, <1>6 DEF VarintVerdict, cut, own

(* decode_varint reads every number of a word back from what encode_varint *)
(* makes of it, whatever the width of a group and of the word, with more   *)
(* bytes behind it or without, and reads nothing from a part of it.        *)
THEOREM NumbersAreReadBack ==
  \A val \in Word : NumberIsReadBack(val)
<1> SUFFICES ASSUME NEW val \in Word PROVE NumberIsReadBack(val)
  OBVIOUS
<1>1. \A rest \in {<<>>, << 0 >>, <<Base>>} : rest \in Seq(Nat)
  <2>1. <<>> \in Seq(Nat) /\ << 0 >> \in Seq(Nat) /\ <<Base>> \in Seq(Nat)
    BY BaseIsPower
  <2> QED
    BY <2>1
<1>2. Len(EncodeVarint(val)) = Groups(val)
  BY BytesOfNumber
<1>3. ASSUME NEW rest \in {<<>>, << 0 >>, <<Base>>}
      PROVE  /\ VarintVerdict(EncodeVarint(val) \o rest) = "ok"
             /\ DecodeVarint(EncodeVarint(val) \o rest) = [value |-> val, used |-> Groups(val)]
  BY <1>1, NumberThenRest
<1>4. \A k \in 0 .. Groups(val) - 1 : VarintVerdict(SubSeq(EncodeVarint(val), 1, k)) = "truncated"
  BY NumberCutShort
<1> QED
  BY <1>2, <1>3, <1>4 DEF NumberIsReadBack

(* decode_varint refuses a number that goes on when the word has no bits   *)
(* for more, and reads one that ends before.                               *)
THEOREM LongIsRefused ==
  \A n \in Nat \ {0} : LongIsOverflow(n)
<1> SUFFICES ASSUME NEW n \in Nat \ {0} PROVE LongIsOverflow(n)
  OBVIOUS
<1> DEFINE more == [i \in 1 .. n |-> Base]
           buf == more \o <<1>>
<1>1. Base \in Nat /\ Base >= 2
  BY BaseIsPower
<1>2. /\ DOMAIN buf = 1 .. n + 1 /\ buf[n+1] = 1
      /\ \A i \in 1 .. n : buf[i] = Base
  <2>1. more \in Seq(Nat) /\ Len(more) = n /\ <<1>> \in Seq(Nat) /\ Len(<<1>>) = 1
    BY <1>1
  <2>2. \A i \in 1 .. n : more[i] = Base
    OBVIOUS
  <2> HIDE DEF more
  <2>3. /\ buf \in Seq(Nat) /\ Len(buf) = n + 1
        /\ \A i \in 1 .. n + 1 : buf[i] = IF i <= n THEN more[i] ELSE <<1>>[i - n]
    BY <2>1, ConcatProperties
  <2>4. n + 1 \in 1 .. n + 1 /\ (n + 1) - n = 1 /\ ~ (n + 1 <= n)
    OBVIOUS
  <2> QED
    BY <2>2, <2>3, <2>4, LenProperties
<1> HIDE DEF buf
<1>3. LastBytes(buf) = {n + 1}
  BY <1>1, <1>2 DEF LastBytes
<1>4. Shiftable(n + 1) <=> n * GroupBits < WordBits
  BY DEF Shiftable
<1>5. n + 1 \in DOMAIN buf
  BY <1>2
<1>6. VarintVerdict(buf) = IF n * GroupBits < WordBits THEN "ok" ELSE "overflow"
  BY <1>3, <1>4, <1>5 DEF VarintVerdict
<1> QED
  BY <1>6 DEF LongIsOverflow, buf

-----------------------------------------------------------------------------
(* Mesh packets *)

\* i is the place of the last field of number k.
IsLast(u, k, i) ==
  i \in DOMAIN u /\ u[i].number = k /\ \A j \in DOMAIN u : u[j].number = k => j <= i

\* No field of u has number k.
Lacks(u, k) == \A i \in DOMAIN u : u[i].number # k

\* The last field is the one that is read.
LEMMA LastIsRead ==
  ASSUME NEW u, DOMAIN u \subseteq Nat, NEW k, NEW i, IsLast(u, k, i), NEW d
  PROVE  LastOf(u, k, d) = u[i].value
<1> DEFINE at == {j \in DOMAIN u : u[j].number = k}
           c == CHOOSE x \in at : \A j \in at : j <= x
<1>1. i \in at /\ at \subseteq Nat /\ \A j \in at : j <= i
  BY DEF IsLast
<1>2. c \in at /\ \A j \in at : j <= c
  <2> HIDE DEF at
  <2> QED
    BY <1>1
<1>3. c = i
  <2> HIDE DEF at, c
  <2>1. c \in Nat /\ i \in Nat /\ c <= i /\ i <= c
    BY <1>1, <1>2
  <2> QED
    BY <2>1
<1>4. LastOf(u, k, d) = u[c].value
  BY <1>1 DEF LastOf
<1> HIDE DEF c
<1> QED
  BY <1>3, <1>4

\* Without a field of the number the default is read.
LEMMA AbsentIsDefault ==
  ASSUME NEW u, NEW k, Lacks(u, k), NEW d
  PROVE  LastOf(u, k, d) = d
<1>1. {j \in DOMAIN u : u[j].number = k} = {}
  BY DEF Lacks
<1> QED
  BY <1>1 DEF LastOf

\* If there is a field of the number, there is a last one.
LEMMA LastExists ==
  ASSUME NEW S, NEW u \in Seq(S), NEW k, ~ Lacks(u, k)
  PROVE  \E i : IsLast(u, k, i)
<1> DEFINE n == Len(u)
           A == {m \in Nat : m < n /\ u[n - m].number = k}
<1>1. n \in Nat /\ DOMAIN u = 1 .. n
  BY ElementsOfSeq
<1> HIDE DEF n
<1>2. PICK i \in 1 .. n : u[i].number = k
  BY <1>1 DEF Lacks
<1>3. n - i \in A
  <2>1. n - i \in Nat /\ n - i < n /\ n - (n - i) = i
    BY <1>1
  <2> QED
    BY <1>2, <2>1
<1>4. PICK m \in A : \A l \in 0 .. m - 1 : l \notin A
  <2> HIDE DEF A
  <2>1. A \subseteq Nat
    BY DEF A
  <2> QED
    BY <1>3, <2>1, LeastNumber
<1>5. m \in Nat /\ m < n /\ u[n - m].number = k /\ n - m \in 1 .. n
  BY <1>1, <1>4
<1>6. ASSUME NEW j \in 1 .. n, u[j].number = k
      PROVE  j <= n - m
  <2>1. n - j \in Nat /\ n - j < n /\ n - (n - j) = j
    BY <1>1
  <2>2. n - j \in A
    BY <1>6, <2>1
  <2>3. ~ (n - j \in 0 .. m - 1)
    <3> HIDE DEF A
    <3> QED
      BY <1>4, <2>2
  <2> QED
    BY <1>1, <1>5, <2>1, <2>3
<1>7. IsLast(u, k, n - m)
  BY <1>1, <1>5, <1>6 DEF IsLast
<1> QED
  BY <1>7

\* The later of two messages put together is read before the earlier one.
LEMMA LastOfJoined ==
  ASSUME NEW S, NEW s \in Seq(S), NEW t \in Seq(S), NEW k, NEW d
  PROVE  LastOf(s \o t, k, d) = LastOf(t, k, LastOf(s, k, d))
<1> DEFINE u == s \o t
<1>1. u \in Seq(S) /\ Joins(u, s, t)
  BY ConcatJoins
<1> HIDE DEF u
<1>2. DOMAIN u = 1 .. Len(u) /\ DOMAIN s = 1 .. Len(s) /\ DOMAIN t = 1 .. Len(t)
  BY <1>1, ElementsOfSeq
<1>3. Len(s) \in Nat /\ Len(t) \in Nat /\ Len(u) = Len(s) + Len(t)
  BY <1>1 DEF Joins
<1>4. /\ \A i \in DOMAIN s : i \in DOMAIN u /\ i <= Len(s) /\ u[i] = s[i]
      /\ \A i \in DOMAIN t : Len(s) + i \in DOMAIN u /\ u[Len(s) + i] = t[i]
      /\ \A i \in DOMAIN u : i \in DOMAIN s \/ (i - Len(s) \in DOMAIN t /\ i = Len(s) + (i - Len(s)))
  <2>1. /\ \A i \in 1 .. Len(s) : i \in 1 .. Len(u) /\ i <= Len(s)
        /\ \A i \in 1 .. Len(t) : Len(s) + i \in 1 .. Len(u)
        /\ \A i \in 1 .. Len(u) : i \in 1 .. Len(s)
                                  \/ (i - Len(s) \in 1 .. Len(t) /\ i = Len(s) + (i - Len(s)))
    BY <1>3
  <2>2. /\ \A i \in 1 .. Len(s) : u[i] = s[i]
        /\ \A i \in 1 .. Len(t) : u[Len(s) + i] = t[i]
    BY <1>1 DEF Joins
  <2> QED
    BY <1>2, <2>1, <2>2
<1>5. /\ DOMAIN u \subseteq Nat /\ DOMAIN s \subseteq Nat /\ DOMAIN t \subseteq Nat
      /\ \A i \in DOMAIN t : i > 0
  BY <1>2, <1>3
<1>6. CASE ~ Lacks(t, k)
  <2>1. PICK i : IsLast(t, k, i)
    BY <1>6, LastExists
  <2>2. i \in DOMAIN t /\ u[Len(s) + i] = t[i] /\ i \in Nat /\ i > 0
    BY <1>4, <1>5, <2>1 DEF IsLast
  <2>3. ASSUME NEW j \in DOMAIN u, u[j].number = k
        PROVE  j <= Len(s) + i
    <3>1. CASE j \in DOMAIN s
      BY <1>3, <1>4, <1>5, <2>2, <3>1
    <3>2. CASE j - Len(s) \in DOMAIN t /\ j = Len(s) + (j - Len(s))
      <4>1. t[j - Len(s)].number = k
        BY <1>4, <2>3, <3>2
      <4>2. j - Len(s) <= i
        BY <2>1, <3>2, <4>1 DEF IsLast
      <4>3. j \in Nat
        BY <1>5
      <4> QED
        BY <1>3, <2>2, <4>2, <4>3
    <3> QED
      BY <1>4, <3>1, <3>2
  <2>4. IsLast(u, k, Len(s) + i)
    BY <1>4, <2>1, <2>2, <2>3 DEF IsLast
  <2>5. LastOf(u, k, d) = t[i].value
    BY <1>5, <2>2, <2>4, LastIsRead
  <2>6. LastOf(t, k, LastOf(s, k, d)) = t[i].value
    BY <1>5, <2>1, LastIsRead
  <2> QED
    BY <2>5, <2>6 DEF u
<1>7. CASE Lacks(t, k) /\ ~ Lacks(s, k)
  <2>1. PICK i : IsLast(s, k, i)
    BY <1>7, LastExists
  <2>2. i \in DOMAIN s /\ u[i] = s[i] /\ i \in DOMAIN u
    BY <1>4, <2>1 DEF IsLast
  <2>3. ASSUME NEW j \in DOMAIN u, u[j].number = k
        PROVE  j <= i
    <3>1. CASE j \in DOMAIN s
      BY <1>4, <2>1, <2>3, <3>1 DEF IsLast
    <3>2. CASE j - Len(s) \in DOMAIN t /\ j = Len(s) + (j - Len(s))
      BY <1>4, <1>7, <2>3, <3>2 DEF Lacks
    <3> QED
      BY <1>4, <3>1, <3>2
  <2>4. IsLast(u, k, i)
    BY <2>1, <2>2, <2>3 DEF IsLast
  <2>5. LastOf(u, k, d) = s[i].value /\ LastOf(s, k, d) = s[i].value
    BY <1>5, <2>1, <2>2, <2>4, LastIsRead
  <2>6. LastOf(t, k, LastOf(s, k, d)) = LastOf(s, k, d)
    BY <1>7, AbsentIsDefault
  <2> QED
    BY <2>5, <2>6 DEF u
<1>8. CASE Lacks(t, k) /\ Lacks(s, k)
  <2>1. Lacks(u, k)
    BY <1>4, <1>8 DEF Lacks
  <2>2. LastOf(u, k, d) = d /\ LastOf(s, k, d) = d /\ LastOf(t, k, d) = d
    BY <1>8, <2>1, AbsentIsDefault
  <2> QED
    BY <2>2 DEF u
<1> QED
  BY <1>6, <1>7, <1>8

\* One field is read if it has the number.
LEMMA LastOfOne ==
  ASSUME NEW x, NEW k, NEW d
  PROVE  LastOf(<<x>>, k, d) = IF x.number = k THEN x.value ELSE d
<1> DEFINE u == <<x>>
<1>1. DOMAIN u = {1} /\ u[1] = x
  OBVIOUS
<1> HIDE DEF u
<1>2. CASE x.number = k
  <2>1. IsLast(u, k, 1) /\ DOMAIN u \subseteq Nat
    BY <1>1, <1>2 DEF IsLast
  <2> QED
    BY <1>1, <1>2, <2>1, LastIsRead DEF u
<1>3. CASE x.number # k
  <2>1. Lacks(u, k)
    BY <1>1, <1>3 DEF Lacks
  <2> QED
    BY <1>3, <2>1, AbsentIsDefault DEF u
<1> QED
  BY <1>2, <1>3

\* A field that is left out when it is zero.
LEMMA LastOfUnless0 ==
  ASSUME NEW f, NEW v, NEW k, NEW d
  PROVE  LastOf(Unless0(f, v), k, d) = IF v # 0 /\ Number[f] = k THEN v ELSE d
<1>1. CASE v = 0
  <2>1. Unless0(f, v) = <<>>
    BY <1>1 DEF Unless0
  <2>2. Lacks(<<>>, k)
    BY DEF Lacks
  <2> QED
    BY <1>1, <2>1, <2>2, AbsentIsDefault
<1>2. CASE v # 0
  <2>1. Unless0(f, v) = <<Field(f, v)>>
    BY <1>2 DEF Unless0
  <2>2. Field(f, v).number = Number[f] /\ Field(f, v).value = v
    BY DEF Field
  <2> QED
    BY <1>2, <2>1, <2>2, LastOfOne
<1> QED
  BY <1>1, <1>2

\* The numbers of the fields, and what they have when they are not sent.
LEMMA FieldNumbers ==
  /\ Number["from"] = 1 /\ Number["to"] = 2 /\ Number["channel"] = 3
  /\ Number["id"] = 5 /\ Number["hop_limit"] = 10
  /\ Absent["from"] = 0 /\ Absent["channel"] = 0 /\ Absent["id"] = 0 /\ Absent["hop_limit"] = 3
<1>1. /\ Number["from"] = 1 /\ Number["to"] = 2 /\ Number["channel"] = 3
      /\ Number["id"] = 5 /\ Number["hop_limit"] = 10
      /\ PacketField = {"from", "to", "channel", "id", "hop_limit"}
  BY DEF Number, PacketField
<1> QED
  BY <1>1 DEF Absent

\* The packets there are.
MeshPackets ==
  [from : Nat, to : Nat, channel : Nat, portnum : Nat, payload : Seq(Nat),
   hop_limit : Nat, id : Nat]

\* What is read of an encoded packet, number by number.
LEMMA FieldsOfPacket ==
  ASSUME NEW p, NEW k, NEW d
  PROVE  LET data == <<[number |-> 1, value |-> p.portnum], [number |-> 2, value |-> p.payload]>>
             a == IF p.from # 0 /\ 1 = k THEN p.from ELSE d
             b == IF 2 = k THEN p.to ELSE a
             c == IF p.channel # 0 /\ 3 = k THEN p.channel ELSE b
             e == IF 4 = k THEN data ELSE c
             f == IF p.id # 0 /\ 5 = k THEN p.id ELSE e
         IN  LastOf(EncodePacket(p), k, d) = IF p.hop_limit # 0 /\ 10 = k THEN p.hop_limit ELSE f
<1> DEFINE data == <<[number |-> 1, value |-> p.portnum], [number |-> 2, value |-> p.payload]>>
           to == Field("to", p.to)
           body == [number |-> 4, value |-> data]
           S == {Field("from", p.from), to, Field("channel", p.channel), body,
                 Field("id", p.id), Field("hop_limit", p.hop_limit)}
           s1 == Unless0("from", p.from)
           s2 == <<to>>
           s3 == Unless0("channel", p.channel)
           s4 == <<body>>
           s5 == Unless0("id", p.id)
           s6 == Unless0("hop_limit", p.hop_limit)
<1>1. /\ s1 \in Seq(S) /\ s2 \in Seq(S) /\ s3 \in Seq(S)
      /\ s4 \in Seq(S) /\ s5 \in Seq(S) /\ s6 \in Seq(S)
  <2>1. /\ Field("from", p.from) \in S /\ to \in S /\ Field("channel", p.channel) \in S
        /\ body \in S /\ Field("id", p.id) \in S /\ Field("hop_limit", p.hop_limit) \in S
    OBVIOUS
  <2> HIDE DEF S, to, body
  <2>2. \A x \in S : <<x>> \in Seq(S) /\ <<>> \in Seq(S)
    OBVIOUS
  <2> QED
    BY <2>1, <2>2 DEF Unless0
<1>2. /\ to.number = 2 /\ to.value = p.to /\ body.number = 4 /\ body.value = data
  BY FieldNumbers DEF Field
<1> DEFINE r1 == LastOf(s1, k, d)
           r2 == LastOf(s2, k, r1)
           r3 == LastOf(s3, k, r2)
           r4 == LastOf(s4, k, r3)
           r5 == LastOf(s5, k, r4)
           r6 == LastOf(s6, k, r5)
           t2 == s1 \o s2
           t3 == t2 \o s3
           t4 == t3 \o s4
           t5 == t4 \o s5
           t6 == t5 \o s6
<1>3. EncodePacket(p) = t6
  BY DEF EncodePacket
<1>4. /\ r1 = IF p.from # 0 /\ 1 = k THEN p.from ELSE d
      /\ r2 = IF 2 = k THEN p.to ELSE r1
      /\ r3 = IF p.channel # 0 /\ 3 = k THEN p.channel ELSE r2
      /\ r4 = IF 4 = k THEN data ELSE r3
      /\ r5 = IF p.id # 0 /\ 5 = k THEN p.id ELSE r4
      /\ r6 = IF p.hop_limit # 0 /\ 10 = k THEN p.hop_limit ELSE r5
  <2>1. r1 = IF p.from # 0 /\ 1 = k THEN p.from ELSE d
    BY LastOfUnless0, FieldNumbers
  <2>2. r2 = IF 2 = k THEN p.to ELSE r1
    <3> HIDE DEF r1, to
    <3> QED
      BY <1>2, LastOfOne
  <2>3. r3 = IF p.channel # 0 /\ 3 = k THEN p.channel ELSE r2
    <3> HIDE DEF r2
    <3> QED
      BY LastOfUnless0, FieldNumbers
  <2>4. r4 = IF 4 = k THEN data ELSE r3
    <3> HIDE DEF r3, body, data
    <3> QED
      BY <1>2, LastOfOne
  <2>5. r5 = IF p.id # 0 /\ 5 = k THEN p.id ELSE r4
    <3> HIDE DEF r4
    <3> QED
      BY LastOfUnless0, FieldNumbers
  <2>6. r6 = IF p.hop_limit # 0 /\ 10 = k THEN p.hop_limit ELSE r5
    <3> HIDE DEF r5
    <3> QED
      BY LastOfUnless0, FieldNumbers
  <2> QED
    BY <2>1, <2>2, <2>3, <2>4, <2>5, <2>6
<1> HIDE DEF s1, s2, s3, s4, s5, s6, S
<1>5. LastOf(t6, k, d) = r6
  <2>1. t2 \in Seq(S) /\ LastOf(t2, k, d) = r2
    BY <1>1, ConcatJoins, LastOfJoined
  <2> HIDE DEF t2, r2
  <2>2. t3 \in Seq(S) /\ LastOf(t3, k, d) = r3
    BY <1>1, <2>1, ConcatJoins, LastOfJoined
  <2> HIDE DEF t3, r3
  <2>3. t4 \in Seq(S) /\ LastOf(t4, k, d) = r4
    BY <1>1, <2>2, ConcatJoins, LastOfJoined
  <2> HIDE DEF t4, r4
  <2>4. t5 \in Seq(S) /\ LastOf(t5, k, d) = r5
    BY <1>1, <2>3, ConcatJoins, LastOfJoined
  <2> HIDE DEF t5, r5
  <2> QED
    BY <1>1, <2>4, LastOfJoined
<1> HIDE DEF r1, r2, r3, r4, r5, r6, t6
<1> QED
  BY <1>3, <1>4, <1>5 DEF data

\* A packet is read as it was sent, but for a hop limit of zero.
LEMMA PacketDecoded ==
  ASSUME NEW p \in MeshPackets
  PROVE  DecodePacket(EncodePacket(p)) = [p EXCEPT !.hop_limit = IF @ = 0 THEN 3 ELSE @]
<1> DEFINE e == EncodePacket(p)
           data == <<[number |-> 1, value |-> p.portnum], [number |-> 2, value |-> p.payload]>>
<1>1. LastOf(e, 1, Absent["from"]) = p.from
  BY FieldsOfPacket, FieldNumbers
<1>2. LastOf(e, 2, Absent["to"]) = p.to
  BY FieldsOfPacket
<1>3. LastOf(e, 3, Absent["channel"]) = p.channel
  BY FieldsOfPacket, FieldNumbers
<1>4. LastOf(e, 4, <<>>) = data
  BY FieldsOfPacket
<1>5. LastOf(e, 5, Absent["id"]) = p.id
  BY FieldsOfPacket, FieldNumbers
<1>6. LastOf(e, 10, Absent["hop_limit"]) = IF p.hop_limit = 0 THEN 3 ELSE p.hop_limit
  BY FieldsOfPacket, FieldNumbers
<1> HIDE DEF e
<1>7. LastOf(data, 1, 0) = p.portnum /\ LastOf(data, 2, <<>>) = p.payload
  <2>1. /\ DOMAIN data = {1, 2} /\ data[1].number = 1 /\ data[2].number = 2
        /\ data[1].value = p.portnum /\ data[2].value = p.payload
    OBVIOUS
  <2> HIDE DEF data
  <2>2. IsLast(data, 1, 1) /\ IsLast(data, 2, 2) /\ DOMAIN data \subseteq Nat
    BY <2>1 DEF IsLast
  <2> QED
    BY <2>1, <2>2, LastIsRead
<1> HIDE DEF data
<1>8. DecodePacket(e) =
        [from |-> p.from, to |-> p.to, channel |-> p.channel, portnum |-> p.portnum,
         payload |-> p.payload, hop_limit |-> IF p.hop_limit = 0 THEN 3 ELSE p.hop_limit,
         id |-> p.id]
  BY <1>1, <1>2, <1>3, <1>4, <1>5, <1>6, <1>7 DEF DecodePacket
<1> DEFINE v == IF p.hop_limit = 0 THEN 3 ELSE p.hop_limit
<1>9. [p EXCEPT !.hop_limit = v] =
        [from |-> p.from, to |-> p.to, channel |-> p.channel, portnum |-> p.portnum,
         payload |-> p.payload, hop_limit |-> v, id |-> p.id]
  <2> HIDE DEF v
  <2> QED
    BY DEF MeshPackets
<1>10. DecodePacket(e) = [p EXCEPT !.hop_limit = v]
  <2> HIDE DEF e
  <2> QED
    BY <1>8, <1>9
<1> QED
  BY <1>10, Zenon DEF e

\* The first packet in what a radio sends is taken, whatever came before it.
LEMMA FirstIsTaken ==
  ASSUME NEW S, NEW s \in Seq(S), Lacks(s, 2), NEW x \in S, x.number = 2
  PROVE  FromRadio(s \o <<x>>) = {DecodePacket(x.value)}
<1> DEFINE u == s \o <<x>>
           n == Len(s) + 1
           at == {i \in DOMAIN u : u[i].number = 2}
           c == CHOOSE i \in at : \A j \in at : i <= j
<1>1. <<x>> \in Seq(S) /\ Len(<<x>>) = 1 /\ <<x>>[1] = x
  OBVIOUS
<1>2. u \in Seq(S) /\ Joins(u, s, <<x>>)
  BY <1>1, ConcatJoins
<1> HIDE DEF u
<1>3. DOMAIN u = 1 .. Len(u) /\ DOMAIN s = 1 .. Len(s)
  BY <1>2, ElementsOfSeq
<1>4. /\ Len(s) \in Nat /\ DOMAIN u = 1 .. n /\ n \in Nat /\ n >= 1
      /\ u[n] = x /\ \A i \in 1 .. n - 1 : u[i].number # 2
  BY <1>1, <1>2, <1>3 DEF Joins, Lacks
<1> HIDE DEF n
<1>5. at = {n}
  BY <1>4
<1>6. c = n
  <2> HIDE DEF at
  <2>1. n <= n
    BY <1>4
  <2> QED
    BY <1>5, <2>1
<1>7. FromRadio(u) = {DecodePacket(u[c].value)}
  BY <1>5 DEF FromRadio
<1> HIDE DEF c
<1> QED
  BY <1>4, <1>6, <1>7 DEF u

(* decode_mesh_packet reads every packet back as encode_mesh_packet was    *)
(* given it, but for a hop limit of zero, and what is written for a radio  *)
(* is not taken for something a radio sent.                                *)
THEOREM PacketsAreReadBack ==
  \A p \in MeshPackets : PacketIsReadBack(p)
<1> SUFFICES ASSUME NEW p \in MeshPackets PROVE PacketIsReadBack(p)
  OBVIOUS
<1> DEFINE relayed == [p EXCEPT !.hop_limit = IF @ = 0 THEN 3 ELSE @]
           x == [number |-> 2, value |-> EncodePacket(p)]
           y == [number |-> 7, value |-> 0]
<1>1. DecodePacket(EncodePacket(p)) = relayed
  BY PacketDecoded
<1> HIDE DEF relayed
<1>2. x.number = 2 /\ x.value = EncodePacket(p) /\ y.number = 7
  OBVIOUS
<1> HIDE DEF x, y
<1>3. ASSUME NEW extra \in {<<>>, <<y>>}
      PROVE  FromRadio(extra \o <<x>>) = {relayed}
  <2>1. extra \in Seq({x, y})
    <3>1. <<>> \in Seq({x, y}) /\ <<y>> \in Seq({x, y})
      OBVIOUS
    <3> QED
      BY <3>1
  <2>2. Lacks(extra, 2)
    <3>1. CASE extra = <<>>
      BY <3>1 DEF Lacks
    <3>2. CASE extra = <<y>>
      <4>1. DOMAIN <<y>> = {1} /\ <<y>>[1] = y
        OBVIOUS
      <4> QED
        BY <1>2, <3>2, <4>1 DEF Lacks
    <3> QED
      BY <3>1, <3>2
  <2>3. FromRadio(extra \o <<x>>) = {DecodePacket(x.value)}
    <3>1. x \in {x, y}
      OBVIOUS
    <3> QED
      BY <1>2, <2>1, <2>2, <3>1, FirstIsTaken
  <2> QED
    BY <1>1, <1>2, <2>3
<1>4. FromRadio(ToRadio(p)) = {}
  <2> DEFINE u == ToRadio(p)
  <2>1. DOMAIN u = {1} /\ u[1].number = 1
    BY DEF ToRadio
  <2> HIDE DEF u
  <2>2. {i \in DOMAIN u : u[i].number = 2} = {}
    BY <2>1
  <2>3. FromRadio(u) = {}
    BY <2>2 DEF FromRadio
  <2> QED
    BY <2>3 DEF u
<1> QED
  BY <1>1, <1>3, <1>4 DEF PacketIsReadBack, relayed, x, y

-----------------------------------------------------------------------------
(* Serial streams *)

\* The bytes before the payload.
LEMMA SerialHeader ==
  ASSUME NEW n \in Nat, n <= MaxU16
  PROVE  LET head == Start \o U16Be(n)
         IN  /\ head \in Seq(Nat) /\ Len(head) = 4
             /\ head[1] = 148 /\ head[2] = 195 /\ 256 * head[3] + head[4] = n
<1> DEFINE h == (n \div 256) % 256
           l == n % 256
           u == U16Be(n)
           s == Start
           head == s \o u
<1>1. h \in Nat /\ l \in Nat /\ 256 * h + l = n
  BY HighAndLow
<1>2. u = <<h, l>>
  BY DEF U16Be
<1> HIDE DEF h, l, u
<1>3. u \in Seq(Nat) /\ Len(u) = 2 /\ u[1] = h /\ u[2] = l
  BY <1>1, <1>2
<1>4. s \in Seq(Nat) /\ Len(s) = 2 /\ s[1] = 148 /\ s[2] = 195
  BY DEF Start
<1> HIDE DEF s
<1>5. head \in Seq(Nat) /\ Joins(head, s, u)
  BY <1>3, <1>4, ConcatJoins
<1> HIDE DEF head
<1>6. 1 \in 1 .. 2 /\ 2 \in 1 .. 2 /\ 2 + 1 = 3 /\ 2 + 2 = 4
  OBVIOUS
<1>7. /\ head[1] = 148 /\ head[2] = 195 /\ head[2 + 1] = h /\ head[2 + 2] = l
      /\ Len(head) = Len(s) + Len(u)
  BY <1>3, <1>4, <1>5, <1>6 DEF Joins
<1>8. head \in Seq(Nat) /\ Len(head) = 4 /\ 256 * head[3] + head[4] = n
  BY <1>1, <1>3, <1>4, <1>5, <1>6, <1>7
<1> QED
  BY <1>7, <1>8 DEF head, s, u

\* A frame is read off the stream whatever follows it, and none is read
\* before its last byte is there.
LEMMA SerialThenRest ==
  ASSUME NEW p \in Seq(Nat), Len(p) <= MaxU16, NEW rest \in Seq(Nat)
  PROVE  LET buf == EncodeSerial(p) \o rest
         IN  /\ EncodeSerial(p) \in Seq(Nat)
             /\ SerialVerdict(buf) = "ok" /\ SerialPayload(buf) = p
             /\ SubSeq(buf, 5 + Len(p), Len(buf)) = rest
             /\ \A k \in 0 .. Len(p) + 3 : SerialVerdict(SubSeq(buf, 1, k)) = "truncated"
<1> DEFINE n == Len(p)
           head == Start \o U16Be(n)
           own == EncodeSerial(p)
           buf == own \o rest
<1>1. n \in Nat /\ n <= MaxU16 /\ Len(rest) \in Nat
  BY ElementsOfSeq
<1>2. own = head \o p
  BY DEF EncodeSerial
<1> HIDE DEF n, own
<1>3. /\ head \in Seq(Nat) /\ Len(head) = 4
      /\ head[1] = 148 /\ head[2] = 195 /\ 256 * head[3] + head[4] = n
  BY <1>1, SerialHeader
<1> HIDE DEF head
<1>4. /\ head \in Seq(Nat) /\ Len(head) = 4
      /\ head[1] = 148 /\ head[2] = 195 /\ 256 * head[3] + head[4] = n
      /\ \A i \in 1 .. 4 : head[i] \in Nat
  <2>1. \A i \in 1 .. Len(head) : head[i] \in Nat
    BY <1>3, ElementsOfSeq
  <2> QED
    BY <1>3, <2>1
<1>5. own \in Seq(Nat) /\ Joins(own, head, p)
  BY <1>2, <1>4, ConcatJoins
<1>6. /\ own \in Seq(Nat) /\ Len(own) = 4 + n
      /\ \A i \in 1 .. 4 : own[i] = head[i]
      /\ \A i \in 1 .. n : own[4 + i] = p[i]
  BY <1>4, <1>5 DEF Joins, n
<1>7. buf \in Seq(Nat) /\ Joins(buf, own, rest)
  BY <1>6, ConcatJoins
<1> HIDE DEF buf
<1>8. /\ buf \in Seq(Nat) /\ Len(buf) = 4 + n + Len(rest)
      /\ \A i \in 1 .. 4 + n : buf[i] = own[i]
      /\ \A i \in 1 .. Len(rest) : buf[4 + n + i] = rest[i]
  BY <1>6, <1>7 DEF Joins
<1>9. /\ \A i \in 1 .. 4 : buf[i] = head[i] /\ i \in 1 .. 4 + n
      /\ \A i \in 1 .. n : buf[4 + i] = p[i]
  BY <1>1, <1>6, <1>8
<1>10. /\ buf[1] = 148 /\ buf[2] = 195 /\ buf[3] \in Nat /\ buf[4] \in Nat
      /\ 256 * buf[3] + buf[4] = n
  BY <1>4, <1>9
<1>11. Start \in Seq(Nat) /\ Len(Start) = 2 /\ Start[1] = 148 /\ Start[2] = 195
  BY DEF Start
<1>12. ASSUME NEW u \in Seq(Nat), Len(u) >= 4, \A i \in 1 .. 4 : u[i] = buf[i]
      PROVE  SerialVerdict(u) = IF Len(u) < 4 + n THEN "truncated" ELSE "ok"
  <2>1. u[1] = 148 /\ u[2] = 195 /\ u[3] = buf[3] /\ u[4] = buf[4]
    <3>1. 1 \in 1 .. 4 /\ 2 \in 1 .. 4 /\ 3 \in 1 .. 4 /\ 4 \in 1 .. 4
      OBVIOUS
    <3>2. u[1] = buf[1] /\ u[2] = buf[2] /\ u[3] = buf[3] /\ u[4] = buf[4]
      BY <1>12, <3>1, Zenon
    <3> QED
      BY <1>10, <3>2
  <2>2. \A i \in 1 .. Len(Start) : u[0 + i] = Start[i]
    BY <1>11, <2>1
  <2>3. 0 + Len(Start) <= Len(u)
    BY <1>11, <1>12
  <2>4. SubSeq(u, 0 + 1, 0 + Len(Start)) = Start
    BY <1>11, <2>2, <2>3, PartIs
  <2>5. SubSeq(u, 1, 2) = Start
    BY <1>11, <2>4
  <2>6. Len(u) \in Nat /\ ~ (Len(u) < 4)
    BY <1>12, ElementsOfSeq
  <2>7. 4 + 256 * u[3] + u[4] = 4 + n
    BY <1>10, <2>1
  <2> QED
    BY <2>5, <2>6, <2>7 DEF SerialVerdict
<1>13. SerialVerdict(buf) = "ok"
  <2>1. Len(buf) >= 4 /\ ~ (Len(buf) < 4 + n)
    BY <1>1, <1>8
  <2> QED
    BY <1>8, <1>12, <2>1
<1>14. SerialPayload(buf) = p
  <2>1. SubSeq(buf, 4 + 1, 4 + Len(p)) = p
    <3>1. 4 + Len(p) <= Len(buf) /\ \A i \in 1 .. Len(p) : buf[4 + i] = p[i]
      BY <1>1, <1>8, <1>9 DEF n
    <3> QED
      BY <1>8, <3>1, PartIs
  <2>2. 4 + 256 * buf[3] + buf[4] = 4 + Len(p)
    <3>1. 4 + 256 * buf[3] + buf[4] = 4 + n
      BY <1>10
    <3> QED
      BY <3>1 DEF n
  <2> QED
    BY <2>1, <2>2 DEF SerialPayload
<1>15. SubSeq(buf, 5 + n, Len(buf)) = rest
  <2>1. 4 + n \in Nat /\ (4 + n) + 1 = 5 + n /\ (4 + n) + Len(rest) = Len(buf)
    BY <1>1, <1>8
  <2>2. SubSeq(buf, (4 + n) + 1, (4 + n) + Len(rest)) = rest
    BY <1>1, <1>8, <2>1, PartIs
  <2> QED
    BY <2>1, <2>2
<1>16. ASSUME NEW k \in 0 .. n + 3
       PROVE  SerialVerdict(SubSeq(buf, 1, k)) = "truncated"
  <2> DEFINE cut == SubSeq(buf, 1, k)
  <2>1. k \in Nat /\ k < 4 + n /\ k <= Len(buf)
    BY <1>1, <1>8
  <2>2. cut \in Seq(Nat) /\ Len(cut) = k /\ \A i \in 1 .. k : cut[i] = buf[i]
    BY <1>8, <2>1, CutOff
  <2> HIDE DEF cut
  <2>3. CASE k < 4
    BY <2>2, <2>3 DEF SerialVerdict, cut
  <2>4. CASE k >= 4
    <3>1. \A i \in 1 .. 4 : cut[i] = buf[i]
      BY <2>1, <2>2, <2>4
    <3>2. SerialVerdict(cut) = IF Len(cut) < 4 + n THEN "truncated" ELSE "ok"
      BY <1>12, <2>2, <2>4, <3>1
    <3> QED
      BY <2>1, <2>2, <3>2 DEF cut
  <2> QED
    BY <2>1, <2>3, <2>4
<1> QED
  BY <1>6, <1>13, <1>14, <1>15, <1>16 DEF buf, own, n

(* decode_serial_frame tells two frames of encode_serial_frame apart, of   *)
(* any length that two bytes can say, and waits for the last byte of each. *)
THEOREM StreamsAreReadBack ==
  \A n, m \in Nat : n <= MaxU16 /\ m <= MaxU16 => StreamIsReadBack(n, m)
<1> SUFFICES ASSUME NEW n \in Nat, NEW m \in Nat, n <= MaxU16, m <= MaxU16
             PROVE  StreamIsReadBack(n, m)
  OBVIOUS
<1> DEFINE first == [i \in 1 .. n |-> 148]
           next  == [i \in 1 .. m |-> 195]
           buf   == EncodeSerial(first) \o EncodeSerial(next)
           left  == SubSeq(buf, 5 + n, Len(buf))
<1>1. /\ first \in Seq(Nat) /\ Len(first) = n /\ Len(first) <= MaxU16
      /\ next \in Seq(Nat) /\ Len(next) = m /\ Len(next) <= MaxU16
  OBVIOUS
<1> HIDE DEF first, next
<1>2. <<>> \in Seq(Nat)
  OBVIOUS
<1>3. EncodeSerial(next) \in Seq(Nat)
  BY <1>1, <1>2, SerialThenRest
<1>4. /\ SerialVerdict(buf) = "ok" /\ SerialPayload(buf) = first
      /\ left = EncodeSerial(next)
      /\ \A k \in 0 .. n + 3 : SerialVerdict(SubSeq(buf, 1, k)) = "truncated"
  BY <1>1, <1>3, SerialThenRest
<1>5. SerialVerdict(left) = "ok" /\ SerialPayload(left) = next
  <2>1. EncodeSerial(next) \o <<>> = EncodeSerial(next)
    BY <1>3, ConcatEmptySeq
  <2>2. /\ SerialVerdict(EncodeSerial(next) \o <<>>) = "ok"
        /\ SerialPayload(EncodeSerial(next) \o <<>>) = next
    BY <1>1, <1>2, SerialThenRest
  <2> HIDE DEF left
  <2> QED
    BY <1>4, <2>1, <2>2
<1> QED
  BY <1>4, <1>5 DEF StreamIsReadBack, first, next

-----------------------------------------------------------------------------
(* Names *)

Letters == ToSet(Alphabet)

\* The alphabet has 32 letters, and M, but none that looks like another.
LEMMA AlphabetLetters ==
  /\ DOMAIN Alphabet = 1 .. 32 /\ Letters = {Alphabet[i] : i \in 1 .. 32}
  /\ \A i, j \in 1 .. 32 : Alphabet[i] = Alphabet[j] => i = j
  /\ "M" \in Letters
  /\ \A c \in Letters : Normal(c) = c
<1>1. DOMAIN Alphabet = 1 .. 32 
  BY DEF Alphabet
<1>2. Letters = {Alphabet[i] : i \in 1 .. 32}
  BY <1>1 DEF Letters, ToSet
<1>3. Alphabet[21] = "M" /\ 21 \in 1 .. 32
  BY DEF Alphabet
<1>4. \A i, j \in 1 .. 32 : Alphabet[i] = Alphabet[j] => i = j
  BY DEF Alphabet
<1>5. \A i \in 1 .. 32 : Alphabet[i] \notin {"I", "L", "O", "U"}
  BY DEF Alphabet
<1>6. DOMAIN Lookalike = {"I", "L", "O", "U"}
  BY DEF Lookalike
<1>7. \A c \in Letters : Normal(c) = c
  BY <1>2, <1>5, <1>6 DEF Normal
<1> QED
  BY <1>1, <1>2, <1>3, <1>4, <1>7

\* A digit is the place of its letter.
LEMMA DigitOfLetter ==
  ASSUME NEW i \in 1 .. 32
  PROVE  /\ Alphabet[i] \in Letters /\ Alphabet[i] \in DOMAIN Digit
         /\ Digit[Alphabet[i]] = i - 1
<1>1. Alphabet[i] \in Letters /\ DOMAIN Digit = Letters
  BY AlphabetLetters DEF Digit, Letters
<1>2. Digit[Alphabet[i]] = (CHOOSE j \in 1 .. 32 : Alphabet[j] = Alphabet[i]) - 1
  BY <1>1, AlphabetLetters DEF Digit, Letters
<1>3. (CHOOSE j \in 1 .. 32 : Alphabet[j] = Alphabet[i]) = i
  BY AlphabetLetters
<1> QED
  BY <1>1, <1>2, <1>3

\* Five bits are a letter.
LEMMA FiveBits ==
  Pow2[5] = 32 /\ Pow2[1] = 2
<1>1. Pow2[0+1] = 2 /\ Pow2[1+1] = 4 /\ Pow2[2+1] = 8 /\ Pow2[3+1] = 16 /\ Pow2[4+1] = 32
  BY Pow2Unfolds
<1> QED
  BY <1>1

\* The letters of a name, and the number each one is.
LEMMA NameLetters ==
  ASSUME NEW id \in Nat
  PROVE  /\ NameBody(id) \in Seq(Letters) /\ Len(NameBody(id)) = NameLen
         /\ DOMAIN NameBody(id) = 1 .. NameLen
         /\ \A i \in 1 .. NameLen :
              /\ NameBody(id)[i] \in Letters
              /\ Digit[NameBody(id)[i]] = Low(Shr(2 * id, 5 * (NameLen - i)), 5)
<1>1. NameLen \in Nat
  BY NameAssumption
<1> DEFINE d(i) == Low(Shr(2 * id, 5 * (NameLen - i)), 5)
<1>2. ASSUME NEW i \in 1 .. NameLen
      PROVE  d(i) + 1 \in 1 .. 32 /\ (d(i) + 1) - 1 = d(i)
  <2>1. 5 * (NameLen - i) \in Nat /\ 2 * id \in Nat
    BY <1>1
  <2>2. d(i) \in Nat /\ d(i) < 32
    BY <2>1, ShrLow, FiveBits
  <2> HIDE DEF d
  <2> QED
    BY <2>2
<1>3. NameBody(id) = [i \in 1 .. NameLen |-> Alphabet[d(i) + 1]]
  BY DEF NameBody
<1> HIDE DEF d
<1>4. \A i \in 1 .. NameLen :
        NameBody(id)[i] \in Letters /\ Digit[NameBody(id)[i]] = d(i)
  BY <1>2, <1>3, DigitOfLetter
<1>5. NameBody(id) \in [1 .. NameLen -> Letters]
  BY <1>3, <1>4
<1>6. NameBody(id) \in Seq(Letters) /\ Len(NameBody(id)) = NameLen
  BY <1>1, <1>5
<1> QED
  BY <1>4, <1>5, <1>6 DEF d

\* What base32_decode has read after some of the letters of t.
Bits(t) ==
  LET bits[i \in 0 .. Len(t)] == IF i = 0 THEN 0 ELSE 32 * bits[i - 1] + Digit[t[i]]
  IN  bits

\* Reading goes letter by letter.
LEMMA BitsUnfold ==
  ASSUME NEW t, Len(t) \in Nat, \A i \in 1 .. Len(t) : Digit[t[i]] \in Nat
  PROVE  /\ Bits(t)[0] = 0
         /\ \A i \in 1 .. Len(t) : Bits(t)[i] = 32 * Bits(t)[i-1] + Digit[t[i]]
<1> DEFINE n == Len(t)
           step == [i \in 1 .. n |-> [a \in Nat |-> 32 * a + Digit[t[i]]]]
           Solves(f) == f = [i \in 0 .. n |-> IF i = 0 THEN 0 ELSE 32 * f[i-1] + Digit[t[i]]]
           B == Bits(t)
<1>1. Steps(step, Nat, 0, n)
  BY DEF Steps
<1>2. PICK f : Follows(f, step, Nat, 0, n, 0)
  <2>1. n \in Int /\ 0 \in Int /\ 0 <= n /\ 0 \in Nat
    OBVIOUS
  <2> HIDE DEF step, n
  <2> QED
    BY <1>1, <2>1, RecursionExists
<1>3. Solves(f)
  <2>1. /\ f \in [0 .. n -> Nat] /\ f[0] = 0
        /\ \A i \in 1 .. n : f[i] = step[i][f[i-1]]
    <3> HIDE DEF step
    <3> QED
      BY <1>2 DEF Follows
  <2>2. ASSUME NEW i \in 1 .. n
        PROVE  f[i] = 32 * f[i-1] + Digit[t[i]]
    <3>1. f[i-1] \in Nat
      <4>1. i - 1 \in 0 .. n
        OBVIOUS
      <4> QED
        BY <2>1, <4>1
    <3> QED
      BY <2>1, <3>1
  <2>3. \A i \in 0 .. n : i # 0 => i \in 1 .. n
    OBVIOUS
  <2> HIDE DEF step, n
  <2> QED
    BY <2>1, <2>2, <2>3
<1>4. Solves(B)
  <2>1. B = CHOOSE g : Solves(g)
    BY DEF Bits
  <2> HIDE DEF Solves, B
  <2> QED
    BY <1>3, <2>1
<1>5. 0 \in 0 .. n /\ \A i \in 1 .. n : i \in 0 .. n /\ i # 0
  OBVIOUS
<1> QED
  <2> HIDE DEF B
  <2>1. B[0] = 0 /\ \A i \in 1 .. n : B[i] = 32 * B[i-1] + Digit[t[i]]
    BY <1>4, <1>5
  <2> QED
    BY <2>1 DEF B

\* After some letters of a name its bits have been read down to the others.
LEMMA BitsOfName ==
  ASSUME NEW id \in Id
  PROVE  Bits(NameBody(id))[NameLen] = 2 * id
<1> DEFINE t == NameBody(id)
           S(i) == Shr(2 * id, 5 * (NameLen - i))
           Q == {i \in 0 .. NameLen : Bits(t)[i] = S(i)}
<1>1. NameLen \in Nat \ {0}
  BY NameAssumption
<1>2. id \in Nat /\ 2 * id \in Nat /\ 2 * id < Pow2[5 * NameLen]
  <2>1. 5 * NameLen - 1 \in Nat /\ (5 * NameLen - 1) + 1 = 5 * NameLen
    BY <1>1
  <2>2. Pow2[5 * NameLen] = 2 * Pow2[5 * NameLen - 1] /\ Pow2[5 * NameLen - 1] \in Nat
    BY <2>1, Pow2Unfolds
  <2> QED
    BY <2>2 DEF Id, IdBits
<1>3. /\ Len(t) = NameLen
      /\ \A i \in 1 .. NameLen : Digit[t[i]] = Low(S(i), 5)
  BY <1>2, NameLetters
<1>4. \A i \in 0 .. NameLen : 5 * (NameLen - i) \in Nat /\ S(i) \in Nat
  <2>1. \A i \in 0 .. NameLen : 5 * (NameLen - i) \in Nat
    BY <1>1
  <2> QED
    BY <1>2, <2>1, ShrLow
<1> HIDE DEF t
<1>5. /\ Bits(t)[0] = 0
      /\ \A i \in 1 .. NameLen : Bits(t)[i] = 32 * Bits(t)[i-1] + Low(S(i), 5)
  <2>1. \A i \in 1 .. NameLen : Low(S(i), 5) \in Nat
    BY <1>4, ShrLow
  <2> HIDE DEF S
  <2> QED
    BY <1>1, <1>3, <2>1, BitsUnfold
<1>6. 0 \in Q
  <2>1. S(0) = 0
    <3>1. 5 * (NameLen - 0) = 5 * NameLen /\ 5 * NameLen \in Nat
      BY <1>1
    <3> QED
      BY <1>2, <3>1, ShrOfSmall
  <2> QED
    BY <1>1, <1>5, <2>1
<1>7. ASSUME NEW i \in 0 .. NameLen - 1, i \in Q
      PROVE  i + 1 \in Q
  <2>1. i + 1 \in 1 .. NameLen /\ i + 1 \in 0 .. NameLen /\ (i + 1) - 1 = i
    BY <1>1
  <2>2. S(i) = Shr(S(i+1), 5)
    <3>1. 5 * (NameLen - (i + 1)) + 5 = 5 * (NameLen - i)
      BY <1>1
    <3> QED
      BY <1>2, <1>4, <2>1, <3>1, ShrTwice
  <2>3. S(i+1) = Shr(S(i+1), 5) * 32 + Low(S(i+1), 5) /\ Shr(S(i+1), 5) \in Nat
    <3>1. S(i+1) \in Nat /\ 5 \in Nat
      BY <1>4, <2>1
    <3> HIDE DEF S
    <3>2. S(i+1) = Shr(S(i+1), 5) * Pow2[5] + Low(S(i+1), 5) /\ Shr(S(i+1), 5) \in Nat
      BY <3>1, ShrLow
    <3> QED
      BY <3>2, FiveBits
  <2>4. Bits(t)[i+1] = 32 * S(i) + Low(S(i+1), 5)
    BY <1>5, <1>7, <2>1
  <2> QED
    <3> HIDE DEF S
    <3> QED
      BY <2>1, <2>2, <2>3, <2>4
<1>8. 0 .. NameLen \subseteq Q
  <2> HIDE DEF Q
  <2> QED
    BY <1>1, <1>6, <1>7, IntervalInduction
<1>9. Bits(t)[NameLen] = S(NameLen)
  BY <1>1, <1>8
<1>10. S(NameLen) = 2 * id
  <2>1. 5 * (NameLen - NameLen) = 0 /\ Pow2[0] = 1
    BY <1>1, Pow2Unfolds
  <2>2. \A x \in Nat : x \div 1 = x
    OBVIOUS
  <2> QED
    BY <1>2, <2>1, <2>2 DEF Shr
<1> QED
  BY <1>9, <1>10 DEF t

\* A text that is a name when lookalikes are read as what they look like
\* stands for the id of that name.
LEMMA ParseOfName ==
  ASSUME NEW id \in Id, NEW s,
         StripM([i \in DOMAIN s |-> Normal(s[i])]) = NameBody(id)
  PROVE  ParseName(s) = {id}
<1>1. id \in Nat
  <2>1. IdBits \in Nat
    BY NameAssumption DEF IdBits
  <2> QED
    BY <2>1, Pow2Positive DEF Id
<1> DEFINE t == NameBody(id)
<1>2. Len(t) = NameLen /\ ToSet(t) \subseteq DOMAIN Digit
  <2>1. Len(t) = NameLen /\ DOMAIN t = 1 .. NameLen /\ \A i \in 1 .. NameLen : t[i] \in Letters
    BY <1>1, NameLetters
  <2>2. DOMAIN Digit = Letters
    BY DEF Digit, Letters
  <2> HIDE DEF t
  <2> QED
    BY <2>1, <2>2 DEF ToSet
<1>3. ParseName(s) = {Shr(Bits(t)[Len(t)], 1)}
  BY <1>2, Zenon DEF ParseName, Bits
<1>4. Shr(2 * id, 1) = id
  <2>1. id * Pow2[1] + 0 = 2 * id /\ 0 < Pow2[1]
    BY <1>1, FiveBits
  <2>2. Shr(id * Pow2[1] + 0, 1) = id
    BY <1>1, <2>1, ShrLowUnique
  <2> QED
    BY <2>1, <2>2
<1> QED
  BY <1>2, <1>3, <1>4, BitsOfName

\* The characters of a name are no lookalikes.
LEMMA LettersAreNormal ==
  ASSUME NEW id \in Nat
  PROVE  [i \in DOMAIN NameBody(id) |-> Normal(NameBody(id)[i])] = NameBody(id)
<1> DEFINE body == NameBody(id)
<1>1. DOMAIN body = 1 .. NameLen /\ \A i \in 1 .. NameLen : body[i] \in Letters
  BY NameLetters
<1>2. body = [i \in DOMAIN body |-> body[i]]
  BY DEF NameBody
<1> HIDE DEF body
<1>3. [i \in DOMAIN body |-> Normal(body[i])] = [i \in DOMAIN body |-> body[i]]
  BY <1>1, AlphabetLetters
<1>4. [i \in DOMAIN body |-> Normal(body[i])] = body
  BY <1>2, <1>3
<1> QED
  BY <1>4 DEF body

(* parse_mesh_name reads the name of every id as that id, for names of any *)
(* length, also when a lookalike is typed in one place, and without its M  *)
(* if the rest of the name does not begin with an M.                       *)
THEOREM NamesAreReadBack ==
  \A id \in Id : NameIsReadBack(id)
<1> SUFFICES ASSUME NEW id \in Id PROVE NameIsReadBack(id)
  OBVIOUS
<1> DEFINE body == NameBody(id)
           name == MeshName(id)
<1>1. id \in Nat /\ NameLen \in Nat \ {0}
  <2>1. IdBits \in Nat
    BY NameAssumption DEF IdBits
  <2> QED
    BY <2>1, Pow2Positive, NameAssumption DEF Id
<1>2. /\ body \in Seq(Letters) /\ Len(body) = NameLen /\ DOMAIN body = 1 .. NameLen
      /\ \A i \in 1 .. NameLen : body[i] \in Letters
  BY <1>1, NameLetters
<1>3. name = <<"M">> \o body
  BY DEF MeshName
<1> HIDE DEF body, name
<1>4. /\ name \in Seq(Letters) /\ Len(name) = NameLen + 1 /\ DOMAIN name = 1 .. NameLen + 1
      /\ name[1] = "M" /\ \A i \in 1 .. NameLen : name[i+1] = body[i]
  <2>1. <<"M">> \in Seq(Letters) /\ Len(<<"M">>) = 1 /\ <<"M">>[1] = "M"
    BY AlphabetLetters
  <2>2. /\ name \in Seq(Letters) /\ Len(name) = 1 + NameLen
        /\ \A i \in 1 .. 1 + NameLen : name[i] = IF i <= 1 THEN <<"M">>[i] ELSE body[i - 1]
    BY <1>2, <1>3, <2>1, ConcatProperties
  <2> QED
    BY <1>1, <2>1, <2>2, LenProperties
<1>5. name # <<>> /\ Head(name) = "M" /\ Tail(name) = body
  <2>1. name # <<>>
    BY <1>1, <1>4, EmptySeq
  <2>2. Head(name) = "M"
    BY <1>4, <2>1
  <2>3. /\ Tail(name) \in Seq(Letters) /\ Len(Tail(name)) = NameLen
        /\ \A i \in 1 .. NameLen : Tail(name)[i] = name[i+1]
    BY <1>1, <1>4, <2>1, HeadTailProperties
  <2>4. Tail(name) = body
    BY <1>2, <1>4, <2>3, SeqEqual
  <2> QED
    BY <2>1, <2>2, <2>4
<1>6. StripM(name) = body
  BY <1>5 DEF StripM
<1>7. ASSUME NEW s, DOMAIN s = DOMAIN name, \A i \in DOMAIN s : Normal(s[i]) = name[i]
      PROVE  ParseName(s) = {id}
  <2>1. [i \in DOMAIN s |-> Normal(s[i])] = name
    <3>1. name = [i \in DOMAIN name |-> name[i]]
      BY <1>4
    <3>2. [i \in DOMAIN s |-> Normal(s[i])] = [i \in DOMAIN name |-> name[i]]
      BY <1>7
    <3> QED
      BY <3>1, <3>2
  <2> QED
    BY <1>6, <2>1, ParseOfName DEF body
<1>8. ParseName(name) = {id}
  <2>1. \A i \in DOMAIN name : Normal(name[i]) = name[i]
    BY <1>4, LenProperties, ElementOfSeq, AlphabetLetters
  <2> QED
    BY <1>7, <2>1
<1>9. ASSUME NEW s \in Misspelt(name), \A i \in DOMAIN s : Normal(s[i]) = name[i]
      PROVE  ParseName(s) = {id}
  <2>1. DOMAIN s = DOMAIN name
    BY DEF Misspelt
  <2> QED
    BY <1>7, <1>9, <2>1
<1>10. ASSUME Head(body) # "M"
       PROVE  ParseName(body) = {id}
  <2>1. [i \in DOMAIN body |-> Normal(body[i])] = body
    BY <1>1, LettersAreNormal DEF body
  <2>2. StripM(body) = body
    BY <1>10 DEF StripM
  <2> QED
    BY <2>1, <2>2, ParseOfName DEF body
<1> QED
  BY <1>8, <1>9, <1>10 DEF NameIsReadBack, name, body

(* parse_mesh_name takes an M that begins the rest of a name for the       *)
(* leading one: such a name is refused when it is typed without its own M. *)
THEOREM SecondMIsStripped ==
  \A id \in Id : Head(NameBody(id)) = "M" => ParseName(NameBody(id)) = {}
<1> SUFFICES ASSUME NEW id \in Id, Head(NameBody(id)) = "M"
             PROVE  ParseName(NameBody(id)) = {}
  OBVIOUS
<1> DEFINE body == NameBody(id)
<1>1. id \in Nat /\ NameLen \in Nat \ {0}
  <2>1. IdBits \in Nat
    BY NameAssumption DEF IdBits
  <2> QED
    BY <2>1, Pow2Positive, NameAssumption DEF Id
<1>2. body \in Seq(Letters) /\ Len(body) = NameLen
  BY <1>1, NameLetters
<1>3. [i \in DOMAIN body |-> Normal(body[i])] = body
  BY <1>1, LettersAreNormal
<1> HIDE DEF body
<1>4. body # <<>>
  BY <1>1, <1>2, EmptySeq
<1>5. Len(Tail(body)) # NameLen
  BY <1>1, <1>2, <1>4, HeadTailProperties
<1>6. StripM(body) = Tail(body)
  BY <1>4 DEF StripM, body
<1>7. ParseName(body) = {}
  BY <1>3, <1>5, <1>6 DEF ParseName
<1> QED
  BY <1>7 DEF body

-----------------------------------------------------------------------------
(* Frames *)

\* No two types of messages have the same code.
LEMMA CodesDiffer ==
  /\ \A t \in MsgType : Code[t] \in Nat
  /\ \A s, t \in MsgType : Code[s] = Code[t] => s = t
<1> DEFINE T == {"Tx", "Block", "BlockAck", "SyncReq", "SyncResp", "Frag", "Tip", "BlockHint",
                 "FragNack", "Control", "Compressed", "BalQuery", "BalReply", "AirBlockAck",
                 "GossipJson"}
<1>1. MsgType = T
  BY DEF MsgType, Code
<1>2. \A t \in T : Code[t] \in Nat
  BY DEF Code
<1>3. \A s, t \in T : Code[s] = Code[t] => s = t
  BY DEF Code
<1> QED
  BY <1>1, <1>2, <1>3

\* What stands before the payload.
HeaderOf(v, t, hops, n) ==
  Magic \o <<v, Code[t]>> \o (IF v = 2 THEN <<hops>> ELSE <<>>) \o U16(n)

\* The bytes of a header, where the decoder looks for them.
LEMMA HeaderBytes ==
  ASSUME NEW v \in Versions, NEW t \in MsgType, NEW hops \in Nat,
         NEW n \in Nat, n <= MaxU16
  PROVE  LET head == HeaderOf(v, t, hops, n)
             h == Header(v)
         IN  /\ head \in Seq(Nat) /\ Len(head) = h
             /\ h = IF v = 2 THEN 7 ELSE 6
             /\ head[1] = 77 /\ head[2] = 67 /\ head[3] = v /\ head[4] = Code[t]
             /\ v = 2 => head[5] = hops
             /\ head[h - 1] + 256 * head[h] = n
<1> DEFINE c == Code[t]
           a == Magic
           b == <<v, c>>
           e == IF v = 2 THEN <<hops>> ELSE <<>>
           lo == n % 256
           hi == (n \div 256) % 256
           f == U16(n)
           ab == a \o b
           abe == ab \o e
           head == abe \o f
<1>1. c \in Nat /\ v \in {1, 2}
  BY CodesDiffer DEF Versions
<1>2. lo \in Nat /\ hi \in Nat /\ lo + 256 * hi = n
  BY HighAndLow
<1>3. f = <<lo, hi>>
  BY DEF U16
<1> HIDE DEF c, lo, hi, f
<1>4. f \in Seq(Nat) /\ Len(f) = 2 /\ f[1] = lo /\ f[2] = hi
  BY <1>2, <1>3
<1>5. a \in Seq(Nat) /\ Len(a) = 2 /\ a[1] = 77 /\ a[2] = 67
  BY DEF Magic
<1>6. b \in Seq(Nat) /\ Len(b) = 2 /\ b[1] = v /\ b[2] = c
  BY <1>1
<1>7. e \in Seq(Nat) /\ Len(e) = (IF v = 2 THEN 1 ELSE 0) /\ (v = 2 => e[1] = hops)
  <2>1. <<hops>> \in Seq(Nat) /\ Len(<<hops>>) = 1 /\ <<hops>>[1] = hops
    OBVIOUS
  <2>2. <<>> \in Seq(Nat) /\ Len(<<>>) = 0
    OBVIOUS
  <2> QED
    BY <2>1, <2>2
<1> HIDE DEF a, b, e
<1>8. ab \in Seq(Nat) /\ Joins(ab, a, b)
  BY <1>5, <1>6, ConcatJoins
<1> HIDE DEF ab
<1>9. abe \in Seq(Nat) /\ Joins(abe, ab, e)
  BY <1>7, <1>8, ConcatJoins
<1> HIDE DEF abe
<1>10. head \in Seq(Nat) /\ Joins(head, abe, f)
  BY <1>4, <1>9, ConcatJoins
<1>11. HeaderOf(v, t, hops, n) = head
  BY DEF HeaderOf, a, b, c, e, f, ab, abe
<1> HIDE DEF head
<1>12. /\ Len(ab) = 4 /\ ab[1] = 77 /\ ab[2] = 67 /\ ab[3] = v /\ ab[4] = c
  <2>1. 1 \in 1 .. 2 /\ 2 \in 1 .. 2 /\ 2 + 1 = 3 /\ 2 + 2 = 4
    OBVIOUS
  <2>2. ab[2 + 1] = v /\ ab[2 + 2] = c
    BY <1>5, <1>6, <1>8, <2>1 DEF Joins
  <2> QED
    BY <1>5, <1>6, <1>8, <2>1, <2>2 DEF Joins
<1>13. /\ Len(abe) = 4 + Len(e) /\ \A i \in 1 .. 4 : abe[i] = ab[i]
       /\ v = 2 => abe[5] = hops
  <2>1. 1 \in 1 .. 1 /\ 4 + 1 = 5
    OBVIOUS
  <2>2. v = 2 => abe[4 + 1] = hops
    BY <1>7, <1>9, <1>12, <2>1 DEF Joins
  <2> QED
    BY <1>9, <1>12, <2>1, <2>2 DEF Joins
<1>14. /\ Len(head) = Len(abe) + 2 /\ \A i \in 1 .. Len(abe) : head[i] = abe[i]
       /\ head[Len(abe) + 1] = lo /\ head[Len(abe) + 2] = hi
  <2>1. 1 \in 1 .. 2 /\ 2 \in 1 .. 2
    OBVIOUS
  <2> QED
    BY <1>4, <1>10, <2>1 DEF Joins
<1> DEFINE h == Header(v)
<1>15. h = (IF v = 2 THEN 7 ELSE 6) /\ Len(abe) = h - 2
  BY <1>1, <1>7, <1>13 DEF Header
<1>16. \A i \in 1 .. 4 : i \in 1 .. Len(abe) /\ head[i] = ab[i]
  BY <1>13, <1>14, <1>15
<1>17. v = 2 => head[5] = hops
  <2>1. v = 2 => 5 \in 1 .. Len(abe)
    BY <1>15
  <2> QED
    BY <1>13, <1>14, <2>1
<1>18. Len(head) = h /\ head[h - 1] = lo /\ head[h] = hi
  <2>1. (h - 2) + 1 = h - 1 /\ (h - 2) + 2 = h
    BY <1>15
  <2> QED
    BY <1>14, <1>15, <2>1
<1>19. head[1] = 77 /\ head[2] = 67 /\ head[3] = v /\ head[4] = c
  BY <1>12, <1>16
<1> QED
  BY <1>2, <1>10, <1>11, <1>15, <1>17, <1>18, <1>19 DEF c

\* A frame is refused while bytes of it are missing, and accepted then.
LEMMA VerdictOfFrame ==
  ASSUME NEW v \in Versions, NEW t \in MsgType, NEW hops \in Nat,
         NEW n \in Nat, n <= MaxU16,
         NEW u \in Seq(Nat),
         \A i \in 1 .. Header(v) : i <= Len(u) => u[i] = HeaderOf(v, t, hops, n)[i]
  PROVE  Verdict(u) = IF Len(u) < Header(v) + n THEN "truncated" ELSE "ok"
<1> DEFINE head == HeaderOf(v, t, hops, n)
           h == Header(v)
<1>1. /\ head \in Seq(Nat) /\ Len(head) = h /\ h = (IF v = 2 THEN 7 ELSE 6)
      /\ head[1] = 77 /\ head[2] = 67 /\ head[3] = v /\ head[4] = Code[t]
      /\ head[h - 1] + 256 * head[h] = n
  BY HeaderBytes
<1>2. Len(u) \in Nat /\ v \in {1, 2} /\ h \in Nat /\ h >= 6
  BY <1>1, ElementsOfSeq DEF Versions
<1> HIDE DEF head, h
<1>3. \A i \in 1 .. h : i <= Len(u) => u[i] = head[i]
  BY DEF head, h
<1>4. CASE Len(u) < 6
  BY <1>2, <1>4 DEF Verdict, h
<1>5. CASE Len(u) >= 6
  <2>1. u[1] = 77 /\ u[2] = 67 /\ u[3] = v /\ u[4] = Code[t]
    <3>1. \A i \in 1 .. 4 : i \in 1 .. h /\ i <= Len(u)
      BY <1>2, <1>5
    <3>2. \A i \in 1 .. 4 : u[i] = head[i]
      BY <1>3, <3>1
    <3>3. 1 \in 1 .. 4 /\ 2 \in 1 .. 4 /\ 3 \in 1 .. 4 /\ 4 \in 1 .. 4
      OBVIOUS
    <3>4. u[1] = head[1] /\ u[2] = head[2] /\ u[3] = head[3] /\ u[4] = head[4]
      BY <3>2, <3>3
    <3> QED
      BY <1>1, <3>4
  <2>2. SubSeq(u, 1, 2) = Magic
    <3>1. Magic \in Seq(Nat) /\ Len(Magic) = 2 /\ Magic[1] = 77 /\ Magic[2] = 67
      BY DEF Magic
    <3>2. 0 + Len(Magic) <= Len(u) /\ \A i \in 1 .. Len(Magic) : u[0 + i] = Magic[i]
      BY <1>5, <2>1, <3>1
    <3>3. SubSeq(u, 0 + 1, 0 + Len(Magic)) = Magic
      BY <3>1, <3>2, PartIs
    <3> QED
      BY <3>1, <3>3
  <2>3. v \in Versions /\ ~ (Len(u) < 6)
    BY <1>2, <1>5
  <2>4. ~ (\A s \in MsgType : Code[s] # u[4])
    BY <2>1
  <2>5. Verdict(u) = IF Len(u) < h THEN "truncated"
                     ELSE IF Len(u) < h + LengthAt(u) THEN "truncated" ELSE "ok"
    BY <2>1, <2>2, <2>3, <2>4 DEF Verdict, h
  <2>6. CASE Len(u) < h
    BY <1>2, <2>5, <2>6 DEF h
  <2>7. CASE Len(u) >= h
    <3>1. h - 1 \in 1 .. h /\ h \in 1 .. h /\ h - 1 <= Len(u) /\ h <= Len(u)
      BY <1>2, <2>7
    <3>2. u[h - 1] + 256 * u[h] = n
      BY <1>1, <1>3, <3>1
    <3>3. LengthAt(u) = n
      BY <2>1, <3>2 DEF LengthAt, h
    <3>4. ~ (Len(u) < h)
      BY <1>2, <2>7
    <3> QED
      BY <2>5, <3>3, <3>4 DEF h
  <2> QED
    BY <1>2, <2>6, <2>7
<1> QED
  BY <1>2, <1>4, <1>5

\* What is to be read of a frame: version 1 has no hop limit.
AsSent(v, t, hops, p) ==
  [type |-> t, payload |-> p, hops |-> IF v = 2 THEN hops ELSE DefaultHops]

\* A frame is read with its type, payload and hop limit.
LEMMA FrameDecoded ==
  ASSUME NEW v \in Versions, NEW t \in MsgType, NEW hops \in Nat,
         NEW p \in Seq(Nat), Len(p) <= MaxU16,
         NEW u \in Seq(Nat), Header(v) + Len(p) <= Len(u),
         \A i \in 1 .. Header(v) : u[i] = HeaderOf(v, t, hops, Len(p))[i],
         \A i \in 1 .. Len(p) : u[Header(v) + i] = p[i]
  PROVE  Decoded(u) = AsSent(v, t, hops, p)
<1> DEFINE n == Len(p)
           head == HeaderOf(v, t, hops, n)
           h == Header(v)
<1>1. n \in Nat /\ n <= MaxU16
  BY ElementsOfSeq
<1>2. /\ h = (IF v = 2 THEN 7 ELSE 6)
      /\ head[3] = v /\ head[4] = Code[t] /\ (v = 2 => head[5] = hops)
      /\ head[h - 1] + 256 * head[h] = n
  BY <1>1, HeaderBytes
<1> HIDE DEF n, head, h
<1>3. /\ h + n <= Len(u) /\ h \in Nat /\ h >= 6
      /\ \A i \in 1 .. h : u[i] = head[i]
      /\ \A i \in 1 .. n : u[h + i] = p[i]
  BY <1>2 DEF n, head, h
<1>4. u[3] = v /\ u[4] = Code[t] /\ (v = 2 => u[5] = hops)
  <2>1. 3 \in 1 .. h /\ 4 \in 1 .. h /\ 5 \in 1 .. h
    BY <1>3
  <2> QED
    BY <1>2, <1>3, <2>1
<1>5. LengthAt(u) = n
  <2>1. h - 1 \in 1 .. h /\ h \in 1 .. h
    BY <1>3
  <2>2. u[h - 1] + 256 * u[h] = n
    BY <1>2, <1>3, <2>1
  <2> QED
    BY <1>4, <2>2 DEF LengthAt, h
<1>6. (CHOOSE s \in MsgType : Code[s] = Code[t]) = t
  BY CodesDiffer
<1>7. SubSeq(u, h + 1, h + Len(p)) = p
  BY <1>3, PartIs DEF n
<1> QED
  BY <1>4, <1>5, <1>6, <1>7 DEF Decoded, AsSent, h, n

\* The bytes of a frame with something after it.
LEMMA FrameBytes ==
  ASSUME NEW v \in Versions, NEW t \in MsgType, NEW hops \in Nat,
         NEW p \in Seq(Nat), Len(p) <= MaxU16, NEW rest \in Seq(Nat)
  PROVE  LET head == HeaderOf(v, t, hops, Len(p))
             data == Encoded(v, t, hops, p)
             u == data \o rest
         IN  /\ data \in Seq(Nat) /\ Len(data) = Header(v) + Len(p)
             /\ \A i \in 1 .. Header(v) : data[i] = head[i]
             /\ u \in Seq(Nat) /\ Len(data) <= Len(u)
             /\ \A i \in 1 .. Header(v) : u[i] = head[i]
             /\ \A i \in 1 .. Len(p) : u[Header(v) + i] = p[i]
<1> DEFINE n == Len(p)
           h == Header(v)
           head == HeaderOf(v, t, hops, n)
           data == Encoded(v, t, hops, p)
           u == data \o rest
<1>1. n \in Nat /\ n <= MaxU16 /\ Len(rest) \in Nat
  BY ElementsOfSeq
<1> HIDE DEF n
<1>2. head \in Seq(Nat) /\ Len(head) = h /\ h \in Nat
  <2>1. head \in Seq(Nat) /\ Len(head) = h
    BY <1>1, HeaderBytes
  <2>2. h \in Nat
    BY DEF Header
  <2> QED
    BY <2>1, <2>2
<1>3. data = head \o p
  BY DEF Encoded, HeaderOf, n
<1> HIDE DEF head, data, h
<1>4. data \in Seq(Nat) /\ Joins(data, head, p)
  BY <1>2, <1>3, ConcatJoins
<1>5. u \in Seq(Nat) /\ Joins(u, data, rest)
  BY <1>4, ConcatJoins
<1> HIDE DEF u
<1>6. /\ Len(data) = h + n /\ \A i \in 1 .. h : data[i] = head[i]
      /\ \A i \in 1 .. n : data[h + i] = p[i]
  BY <1>2, <1>4 DEF Joins, n
<1>7. /\ Len(data) <= Len(u) /\ \A i \in 1 .. h + n : u[i] = data[i]
  BY <1>1, <1>2, <1>5, <1>6 DEF Joins
<1>8. /\ \A i \in 1 .. h : i \in 1 .. h + n
      /\ \A i \in 1 .. n : h + i \in 1 .. h + n
  BY <1>1, <1>2
<1>9. /\ \A i \in 1 .. h : u[i] = head[i]
      /\ \A i \in 1 .. n : u[h + i] = p[i]
  BY <1>6, <1>7, <1>8
<1> QED
  BY <1>4, <1>5, <1>6, <1>7, <1>9 DEF n, h, head, data, u

\* A frame of any payload is read back, whatever follows it, and refused when
\* cut short.
LEMMA AnyFrameIsReadBack ==
  ASSUME NEW v \in Versions, NEW t \in MsgType, NEW hops \in Nat,
         NEW p \in Seq(Nat), Len(p) <= MaxU16
  PROVE  LET data == Encoded(v, t, hops, p)
         IN  /\ \A rest \in Seq(Nat) :
                  /\ Verdict(data \o rest) = "ok"
                  /\ Decoded(data \o rest) = AsSent(v, t, hops, p)
             /\ \A k \in 0 .. Len(data) - 1 : Verdict(SubSeq(data, 1, k)) = "truncated"
<1> DEFINE n == Len(p)
           h == Header(v)
           head == HeaderOf(v, t, hops, n)
           data == Encoded(v, t, hops, p)
<1>1. n \in Nat /\ n <= MaxU16
  BY ElementsOfSeq
<1>2. h \in Nat
  BY DEF Header
<1>3. ASSUME NEW rest \in Seq(Nat)
      PROVE  /\ Verdict(data \o rest) = "ok"
             /\ Decoded(data \o rest) = AsSent(v, t, hops, p)
  <2> DEFINE u == data \o rest
  <2>1. /\ u \in Seq(Nat) /\ Len(data) = h + n /\ Len(data) <= Len(u)
        /\ \A i \in 1 .. h : u[i] = head[i]
        /\ \A i \in 1 .. n : u[h + i] = p[i]
    BY FrameBytes
  <2>2. Len(u) \in Nat
    BY <2>1, ElementsOfSeq
  <2> HIDE DEF u, data
  <2>3. Verdict(u) = IF Len(u) < h + n THEN "truncated" ELSE "ok"
    <3> HIDE DEF n
    <3> QED
      BY <1>1, <2>1, VerdictOfFrame
  <2>4. ~ (Len(u) < h + n)
    BY <1>1, <1>2, <2>1, <2>2
  <2>5. Decoded(u) = AsSent(v, t, hops, p)
    <3>1. h + n <= Len(u)
      BY <2>1
    <3> QED
      BY <2>1, <3>1, FrameDecoded
  <2> QED
    BY <2>3, <2>4, <2>5 DEF u
<1>4. ASSUME NEW k \in 0 .. Len(data) - 1
      PROVE  Verdict(SubSeq(data, 1, k)) = "truncated"
  <2> DEFINE cut == SubSeq(data, 1, k)
  <2>1. <<>> \in Seq(Nat)
    OBVIOUS
  <2>2. /\ data \in Seq(Nat) /\ Len(data) = h + n
        /\ \A i \in 1 .. h : data[i] = head[i]
    BY <2>1, FrameBytes
  <2> HIDE DEF data, n, h, head
  <2>3. k \in Nat /\ k <= Len(data) /\ k < h + n
    BY <1>1, <1>2, <2>2
  <2>4. cut \in Seq(Nat) /\ Len(cut) = k /\ \A i \in 1 .. k : cut[i] = data[i]
    BY <2>2, <2>3, CutOff
  <2> HIDE DEF cut
  <2>5. \A i \in 1 .. h : i <= Len(cut) => cut[i] = head[i]
    BY <1>2, <2>2, <2>3, <2>4
  <2>6. Verdict(cut) = IF Len(cut) < h + n THEN "truncated" ELSE "ok"
    BY <1>1, <2>4, <2>5, VerdictOfFrame DEF h, head
  <2> QED
    BY <2>3, <2>4, <2>6 DEF cut
<1> QED
  BY <1>3, <1>4

(* decode_frame reads every payload that fits back from what encode_frame  *)
(* makes of it, in both versions and for every type, and calls every part  *)
(* of the frame truncated.                                                 *)
THEOREM FramesAreReadBack ==
  \A v \in Versions, t \in MsgType, n \in Nat : FitsFrame(n) => FrameIsReadBack(v, t, n)
<1> SUFFICES ASSUME NEW v \in Versions, NEW t \in MsgType, NEW n \in Nat, FitsFrame(n)
             PROVE  FrameIsReadBack(v, t, n)
  OBVIOUS
<1> DEFINE hops == IF v = 2 THEN 7 ELSE DefaultHops
           data == Encoded(v, t, hops, Bytes(n))
<1>1. hops \in Nat /\ hops = IF v = 2 THEN hops ELSE DefaultHops
  BY DEF DefaultHops
<1>2. Bytes(n) \in Seq(Nat) /\ Len(Bytes(n)) = n /\ n <= MaxU16
  <2>1. \A i \in 1 .. n : ((7 * i) % 256) \in Nat
    <3>1. \A x \in Nat : (x % 256) \in Nat
      OBVIOUS
    <3> QED
      BY <3>1
  <2>2. n <= MaxU16
    BY DEF FitsFrame, MaxPayload, MaxU16
  <2> QED
    BY <2>1, <2>2 DEF Bytes
<1> HIDE DEF hops
<1>3. /\ \A rest \in Seq(Nat) :
           /\ Verdict(data \o rest) = "ok"
           /\ Decoded(data \o rest) = AsSent(v, t, hops, Bytes(n))
      /\ \A k \in 0 .. Len(data) - 1 : Verdict(SubSeq(data, 1, k)) = "truncated"
  BY <1>1, <1>2, AnyFrameIsReadBack
<1>4. \A rest \in {<<>>, <<0>>, Magic} : rest \in Seq(Nat)
  <2>1. <<>> \in Seq(Nat) /\ <<0>> \in Seq(Nat) /\ Magic \in Seq(Nat)
    BY DEF Magic
  <2> QED
    BY <2>1
<1> HIDE DEF data
<1>5. \A rest \in {<<>>, <<0>>, Magic} :
        /\ Verdict(data \o rest) = "ok"
        /\ Decoded(data \o rest) = [type |-> t, payload |-> Bytes(n), hops |-> hops]
  BY <1>1, <1>3, <1>4 DEF AsSent
<1> QED
  BY <1>3, <1>5 DEF FrameIsReadBack, data, hops

-----------------------------------------------------------------------------
(* Fixed layouts *)

\* Where the field in place i of a layout ends, and where the first begins.
End(l, i) == IF i = 0 THEN 0 ELSE Cut[l][Written[l][i]][2]

\* The decoder cuts where the encoder has put the fields together.
CutsAsWritten(l) ==
  LET W == Written[l]
  IN  /\ Len(W) \in Nat \ {0} /\ DOMAIN Cut[l] = {W[i] : i \in 1 .. Len(W)}
      /\ \A i \in 1 .. Len(W) :
           /\ Width[W[i]] \in Nat /\ W[i] \in DOMAIN Cut[l]
           /\ Cut[l][W[i]][1] = End(l, i - 1)
           /\ Cut[l][W[i]][2] = End(l, i)
           /\ End(l, i - 1) \in Nat /\ End(l, i) \in Nat
           /\ End(l, i) = End(l, i - 1) + Width[W[i]]
      /\ End(l, Len(W)) = Size[l]

\* So it does for each layout.
LEMMA LayoutsAreCutAsWritten ==
  \A l \in Layout : CutsAsWritten(l)
<1>1. Layout = {"AirBlockAck", "BalQuery", "BalReply", "AirIou", "AirIouAck"}
  BY DEF Layout, Written
<1>2. CutsAsWritten("AirBlockAck")
  <2>1. Written["AirBlockAck"] = <<"height", "block_hash", "validator_index", "signature">>
    BY DEF Written
  <2>2. Cut["AirBlockAck"] = CutAck /\ Size["AirBlockAck"] = 105
    BY DEF Cut, Size
  <2> QED
    BY <2>1, <2>2 DEF CutsAsWritten, End, CutAck, Width
<1>3. CutsAsWritten("BalQuery")
  <2>1. Written["BalQuery"] = <<"short_id", "req_id">>
    BY DEF Written
  <2>2. Cut["BalQuery"] = CutQuery /\ Size["BalQuery"] = 12
    BY DEF Cut, Size
  <2> QED
    BY <2>1, <2>2 DEF CutsAsWritten, End, CutQuery, Width
<1>4. CutsAsWritten("BalReply")
  <2>1. Written["BalReply"] = <<"short_id", "req_id", "balance", "nonce", "height", "found">>
    BY DEF Written
  <2>2. Cut["BalReply"] = CutReply /\ Size["BalReply"] = 37
    BY DEF Cut, Size
  <2> QED
    BY <2>1, <2>2 DEF CutsAsWritten, End, CutReply, Width
<1>5. CutsAsWritten("AirIou")
  <2>1. Written["AirIou"] = <<"version", "from", "dest", "amount", "nonce32",
                              "expiry_unix", "deposit_seq", "signature">>
    BY DEF Written
  <2>2. Cut["AirIou"] = CutIou /\ Size["AirIou"] = 129
    BY DEF Cut, Size
  <2> QED
    BY <2>1, <2>2 DEF CutsAsWritten, End, CutIou, Width
<1>6. CutsAsWritten("AirIouAck")
  <2>1. Written["AirIouAck"] = <<"version", "iou_id", "witness_index", "signature">>
    BY DEF Written
  <2>2. Cut["AirIouAck"] = CutIouAck /\ Size["AirIouAck"] = 82
    BY DEF Cut, Size
  <2> QED
    BY <2>1, <2>2 DEF CutsAsWritten, End, CutIouAck, Width
<1> QED
  BY <1>1, <1>2, <1>3, <1>4, <1>5, <1>6

\* What the encoder of a layout has written after some of its fields.
Out(l, m) ==
  LET out[i \in 0 .. Len(Written[l])] ==
        IF i = 0 THEN <<>> ELSE out[i - 1] \o m[Written[l][i]]
  IN  out

\* A message has a sequence of symbols of S for each field of a layout, as
\* long as the field is wide.
IsMessage(S, l, m) ==
  \A f \in DOMAIN Cut[l] : m[f] \in Seq(S) /\ Len(m[f]) = Width[f]

\* The encoder goes field by field.
LEMMA OutUnfolds ==
  ASSUME NEW S, NEW l \in Layout, NEW m, IsMessage(S, l, m)
  PROVE  /\ Out(l, m)[0] = <<>>
         /\ \A i \in 0 .. Len(Written[l]) : Out(l, m)[i] \in Seq(S)
         /\ \A i \in 1 .. Len(Written[l]) :
              Joins(Out(l, m)[i], Out(l, m)[i-1], m[Written[l][i]])
<1> DEFINE W == Written[l]
           n == Len(W)
           A == Seq(S)
           step == [i \in 1 .. n |-> [a \in A |-> a \o m[W[i]]]]
           Solves(f) == f = [i \in 0 .. n |-> IF i = 0 THEN <<>> ELSE f[i-1] \o m[W[i]]]
           B == Out(l, m)
<1>1. n \in Nat /\ \A i \in 1 .. n : m[W[i]] \in Seq(S)
  BY LayoutsAreCutAsWritten DEF CutsAsWritten, IsMessage
<1>2. \A i \in 1 .. n : \A a \in A : a \o m[W[i]] \in A /\ Joins(a \o m[W[i]], a, m[W[i]])
  <2> HIDE DEF n, W
  <2> QED
    BY <1>1, ConcatJoins
<1>3. <<>> \in A
  BY EmptySeq
<1> HIDE DEF A
<1>4. Steps(step, A, 0, n)
  <2>1. \A i \in 1 .. n : \A a \in A : step[i][a] \in A
    BY <1>2, Zenon
  <2>2. 0 + 1 = 1
    OBVIOUS
  <2> HIDE DEF step, n
  <2> QED
    BY <2>1, <2>2, Zenon DEF Steps
<1>5. PICK f : Follows(f, step, A, 0, n, <<>>)
  <2>1. n \in Int /\ 0 \in Int /\ 0 <= n
    BY <1>1
  <2> HIDE DEF step, n
  <2> QED
    BY <1>3, <1>4, <2>1, RecursionExists
<1>6. /\ f \in [0 .. n -> A] /\ f[0] = <<>>
      /\ \A i \in 1 .. n : f[i] = step[i][f[i-1]]
  <2> HIDE DEF step
  <2> QED
    BY <1>5 DEF Follows
<1>7. Solves(f)
  <2>1. ASSUME NEW i \in 1 .. n
        PROVE  f[i] = f[i-1] \o m[W[i]]
    <3>1. f[i-1] \in A
      <4>1. i - 1 \in 0 .. n
        OBVIOUS
      <4> QED
        BY <1>6, <4>1
    <3>2. f[i] = step[i][f[i-1]]
      BY <1>6
    <3> QED
      BY <3>1, <3>2, Zenon
  <2>2. \A i \in 0 .. n : i # 0 => i \in 1 .. n
    OBVIOUS
  <2> HIDE DEF step, n, W
  <2>3. f = [i \in 0 .. n |-> f[i]]
    BY <1>6
  <2> QED
    BY <1>6, <2>1, <2>2, <2>3, Zenon
<1>8. Solves(B)
  <2>1. B = CHOOSE g : Solves(g)
    BY DEF Out
  <2> HIDE DEF Solves, B
  <2> QED
    BY <1>7, <2>1
<1>9. 0 \in 0 .. n /\ \A i \in 1 .. n : i \in 0 .. n /\ i # 0 /\ i - 1 \in 0 .. n
  BY <1>1
<1> HIDE DEF B, n, W
<1>10. B[0] = <<>> /\ \A i \in 1 .. n : B[i] = B[i-1] \o m[W[i]]
  BY <1>8, <1>9, Zenon
<1> DEFINE Q == {i \in 0 .. n : B[i] \in A}
<1>11. 0 \in Q
  BY <1>3, <1>9, <1>10, Zenon
<1>12. ASSUME NEW i \in 0 .. n - 1, i \in Q
       PROVE  i + 1 \in Q
  <2>1. n \in Nat
    BY <1>1
  <2>2. i + 1 \in 1 .. n /\ (i + 1) - 1 = i
    BY <2>1
  <2>3. B[i+1] = B[i] \o m[W[i+1]]
    <3>1. B[i+1] = B[(i+1)-1] \o m[W[i+1]]
      BY <1>10, <2>2, Zenon
    <3> QED
      BY <2>2, <3>1, Zenon
  <2> QED
    BY <1>2, <1>9, <1>12, <2>2, <2>3, Zenon
<1>13. 0 .. n \subseteq Q
  <2>1. n \in Nat
    BY <1>1
  <2> HIDE DEF Q
  <2> QED
    BY <1>11, <1>12, <2>1, IntervalInduction
<1>14. \A i \in 0 .. n : B[i] \in A
  BY <1>13, Zenon
<1>15. \A i \in 1 .. n : Joins(B[i], B[i-1], m[W[i]])
  BY <1>2, <1>9, <1>10, <1>14, Zenon
<1> QED
  BY <1>10, <1>14, <1>15 DEF A, B, n, W

\* After some fields each of them is where the decoder will cut it out.
LEMMA FieldsInPlace ==
  ASSUME NEW S, NEW l \in Layout, NEW m, IsMessage(S, l, m)
  PROVE  /\ Write(l, m) \in Seq(S) /\ Len(Write(l, m)) = Size[l]
         /\ \A f \in DOMAIN Cut[l] :
              /\ Cut[l][f][1] \in Nat /\ Cut[l][f][2] = Cut[l][f][1] + Width[f]
              /\ Cut[l][f][2] <= Size[l]
              /\ \A x \in 1 .. Width[f] : Write(l, m)[Cut[l][f][1] + x] = m[f][x]
<1> DEFINE W == Written[l]
           n == Len(W)
           B == Out(l, m)
           at == Cut[l]
<1>1. /\ n \in Nat \ {0} /\ DOMAIN at = {W[i] : i \in 1 .. n}
      /\ \A i \in 1 .. n :
           /\ Width[W[i]] \in Nat /\ W[i] \in DOMAIN at
           /\ at[W[i]][1] = End(l, i - 1)
           /\ at[W[i]][2] = End(l, i)
           /\ End(l, i - 1) \in Nat /\ End(l, i) \in Nat
           /\ End(l, i) = End(l, i - 1) + Width[W[i]]
      /\ End(l, n) = Size[l] /\ End(l, 0) = 0
  BY LayoutsAreCutAsWritten DEF CutsAsWritten, End
<1> HIDE DEF at
<1>2. \A i \in 1 .. n : m[W[i]] \in Seq(S) /\ Len(m[W[i]]) = Width[W[i]]
  BY <1>1 DEF at, IsMessage
<1>3. /\ B[0] = <<>> /\ \A i \in 0 .. n : B[i] \in Seq(S)
      /\ \A i \in 1 .. n : Joins(B[i], B[i-1], m[W[i]])
  BY OutUnfolds
<1>4. Write(l, m) = B[n]
  BY DEF Write, Out
<1> HIDE DEF B, n, W
<1> DEFINE InPlace(i) ==
             /\ Len(B[i]) = End(l, i)
             /\ \A j \in 1 .. i : /\ End(l, j) <= End(l, i)
                                  /\ \A x \in 1 .. Width[W[j]] :
                                       B[i][End(l, j - 1) + x] = m[W[j]][x]
           Q == {i \in 0 .. n : InPlace(i)}
<1>5. 0 \in Q
  <2>1. Len(B[0]) = 0
    BY <1>3
  <2>2. 0 \in 0 .. n /\ 1 .. 0 = {}
    BY <1>1
  <2> QED
    BY <1>1, <2>1, <2>2
<1>6. ASSUME NEW i \in 0 .. n - 1, i \in Q
      PROVE  i + 1 \in Q
  <2> DEFINE k == i + 1
  <2>1. k \in 1 .. n /\ k \in 0 .. n /\ k - 1 = i /\ i \in Nat
    BY <1>1
  <2> HIDE DEF k
  <2>2. /\ Len(B[k]) = Len(B[i]) + Len(m[W[k]])
        /\ \A x \in 1 .. Len(B[i]) : B[k][x] = B[i][x]
        /\ \A x \in 1 .. Len(m[W[k]]) : B[k][Len(B[i]) + x] = m[W[k]][x]
    <3>1. Joins(B[k], B[i], m[W[k]])
      BY <1>3, <2>1
    <3> QED
      BY <3>1 DEF Joins
  <2>3. Len(B[i]) = End(l, i) /\ Len(m[W[k]]) = Width[W[k]]
    BY <1>2, <1>6, <2>1
  <2>4. /\ End(l, k) = End(l, i) + Width[W[k]] /\ End(l, k) \in Nat /\ End(l, i) \in Nat
        /\ Width[W[k]] \in Nat
    BY <1>1, <2>1
  <2>5. \A j \in 1 .. i :
          /\ End(l, j) <= End(l, i) /\ End(l, j) \in Nat /\ End(l, j - 1) \in Nat
          /\ End(l, j) = End(l, j - 1) + Width[W[j]] /\ Width[W[j]] \in Nat
          /\ \A x \in 1 .. Width[W[j]] : B[i][End(l, j - 1) + x] = m[W[j]][x]
    <3>1. \A j \in 1 .. i : j \in 1 .. n
      BY <1>1
    <3> QED
      BY <1>1, <1>6, <3>1
  <2>6. ASSUME NEW j \in 1 .. i
        PROVE  /\ End(l, j) <= End(l, k)
               /\ \A x \in 1 .. Width[W[j]] : B[k][End(l, j - 1) + x] = m[W[j]][x]
    <3>1. ASSUME NEW x \in 1 .. Width[W[j]]
          PROVE  End(l, j - 1) + x \in 1 .. Len(B[i])
      <4>1. /\ End(l, j - 1) \in Nat /\ Width[W[j]] \in Nat /\ End(l, j) <= End(l, i)
            /\ End(l, j) = End(l, j - 1) + Width[W[j]]
            /\ End(l, i) \in Nat /\ Len(B[i]) = End(l, i)
        BY <2>3, <2>4, <2>5
      <4> HIDE DEF InPlace
      <4> QED
        BY <4>1
    <3>2. End(l, j) <= End(l, k)
      BY <2>4, <2>5
    <3> QED
      BY <2>2, <2>5, <3>1, <3>2
  <2>7. \A x \in 1 .. Width[W[k]] : B[k][End(l, k - 1) + x] = m[W[k]][x]
    BY <2>1, <2>2, <2>3
  <2>8. \A j \in 1 .. k : j \in 1 .. i \/ j = k
    BY <2>1 DEF k
  <2>9. Len(B[k]) = End(l, k) /\ End(l, k) <= End(l, k)
    BY <2>2, <2>3, <2>4
  <2>10. InPlace(k)
    BY <2>6, <2>7, <2>8, <2>9
  <2> HIDE DEF InPlace
  <2>11. k \in Q
    BY <2>1, <2>10
  <2> QED
    BY <2>11 DEF k
<1>7. 0 .. n \subseteq Q
  <2>1. n \in Int /\ 0 \in Int
    BY <1>1
  <2> HIDE DEF Q, InPlace
  <2> QED
    BY <1>5, <1>6, <2>1, IntervalInduction
<1>8. InPlace(n) /\ B[n] \in Seq(S)
  <2>1. n \in 0 .. n
    BY <1>1
  <2> HIDE DEF InPlace
  <2> QED
    BY <1>3, <1>7, <2>1
<1>9. ASSUME NEW f \in DOMAIN at
      PROVE  /\ at[f][1] \in Nat /\ at[f][2] = at[f][1] + Width[f] /\ at[f][2] <= Size[l]
             /\ \A x \in 1 .. Width[f] : B[n][at[f][1] + x] = m[f][x]
  <2>1. PICK j \in 1 .. n : f = W[j]
    BY <1>1
  <2>2. /\ at[W[j]][1] = End(l, j - 1) /\ at[W[j]][2] = End(l, j)
        /\ End(l, j - 1) \in Nat /\ End(l, j) = End(l, j - 1) + Width[W[j]]
    BY <1>1
  <2>3. /\ End(l, j) <= Size[l]
        /\ \A x \in 1 .. Width[W[j]] : B[n][End(l, j - 1) + x] = m[W[j]][x]
    BY <1>1, <1>8
  <2> HIDE DEF InPlace
  <2> QED
    BY <2>1, <2>2, <2>3
<1> QED
  BY <1>1, <1>4, <1>8, <1>9 DEF at

(* Every byte of the fixed layouts of air_finality.rs, balance.rs and      *)
(* iou.rs is read back into the field it was written from: the offsets of  *)
(* the decoders are the sums of the encoders' widths.                      *)
THEOREM LayoutsAreReadBack ==
  \A l \in Layout : LayoutIsReadBack(l)
<1> SUFFICES ASSUME NEW l \in Layout PROVE LayoutIsReadBack(l)
  OBVIOUS
<1> DEFINE S == {<<f, j>> : f \in DOMAIN Width, j \in Nat}
           m == Symbols(l)
           at == Cut[l]
           data == Write(l, m)
<1>1. \A f \in DOMAIN at : Width[f] \in Nat /\ f \in DOMAIN Width
  <2>1. \A w \in DOMAIN Width : Width[w] \in Nat
    BY DEF Width
  <2>2. \A k \in Layout : DOMAIN Cut[k] \subseteq DOMAIN Width
    BY DEF Layout, Written, Cut, CutAck, CutQuery, CutReply, CutIou, CutIouAck, Width
  <2> QED
    BY <2>1, <2>2
<1>2. /\ DOMAIN m = DOMAIN at
      /\ \A f \in DOMAIN at : m[f] \in Seq(S) /\ Len(m[f]) = Width[f]
  <2>1. DOMAIN m = DOMAIN at /\ \A f \in DOMAIN at : m[f] = [j \in 1 .. Width[f] |-> <<f, j>>]
    BY DEF Symbols
  <2>2. ASSUME NEW f \in DOMAIN at
        PROVE  m[f] \in Seq(S) /\ Len(m[f]) = Width[f]
    <3>1. \A j \in 1 .. Width[f] : <<f, j>> \in S
      BY <1>1
    <3> DEFINE w == Width[f]
               v == m[f]
    <3>2. w \in Nat /\ v = [j \in 1 .. w |-> <<f, j>>]
      BY <1>1, <2>1
    <3> HIDE DEF S, w, v, m
    <3>3. v \in [1 .. w -> S]
      BY <3>1, <3>2 DEF w
    <3>4. v \in Seq(S) /\ Len(v) = w
      BY <3>2, <3>3
    <3> QED
      BY <3>4 DEF w, v
  <2> HIDE DEF S, m
  <2> QED
    BY <2>1, <2>2
<1> HIDE DEF S, m
<1>3. /\ data \in Seq(S) /\ Len(data) = Size[l]
      /\ \A f \in DOMAIN at :
           /\ at[f][1] \in Nat /\ at[f][2] = at[f][1] + Width[f] /\ at[f][2] <= Size[l]
           /\ \A x \in 1 .. Width[f] : data[at[f][1] + x] = m[f][x]
  <2>1. IsMessage(S, l, m)
    BY <1>2 DEF IsMessage
  <2> QED
    BY <2>1, FieldsInPlace
<1> HIDE DEF data
<1>4. ASSUME NEW f \in DOMAIN at
      PROVE  SubSeq(data, at[f][1] + 1, at[f][2]) = m[f]
  <2>1. /\ at[f][1] \in Nat /\ at[f][1] + Len(m[f]) <= Len(data)
        /\ at[f][1] + Len(m[f]) = at[f][2]
        /\ \A x \in 1 .. Len(m[f]) : data[at[f][1] + x] = m[f][x]
    BY <1>2, <1>3
  <2>2. SubSeq(data, at[f][1] + 1, at[f][1] + Len(m[f])) = m[f]
    BY <1>2, <1>3, <2>1, PartIs
  <2> QED
    BY <2>1, <2>2
<1>5. Read(l, data) = m
  <2>1. m = [f \in DOMAIN at |-> m[f]]
    BY <1>2 DEF m, Symbols
  <2>2. Read(l, data) = [f \in DOMAIN at |-> SubSeq(data, at[f][1] + 1, at[f][2])]
    BY DEF Read
  <2> QED
    BY <1>4, <2>1, <2>2, Zenon
<1>6. Accepts(l, data)
  <2>1. Size[l] \in Nat
    BY DEF Layout, Written, Size
  <2>2. ASSUME l \in {"AirIou", "AirIouAck"}
        PROVE  data[1] = IouVersion
    <3>1. "version" \in DOMAIN at /\ at["version"][1] = 0 /\ Width["version"] = 1
      BY <2>2 DEF Cut, CutIou, CutIouAck, Width
    <3>2. 1 \in 1 .. Width["version"]
      BY <3>1
    <3>3. data[at["version"][1] + 1] = m["version"][1]
      BY <1>3, <3>1, <3>2
    <3>4. m["version"] = [j \in 1 .. Width["version"] |-> <<"version", j>>]
      BY <3>1 DEF m, Symbols
    <3>5. m["version"][1] = <<"version", 1>>
      BY <3>2, <3>4
    <3>6. at["version"][1] + 1 = 1
      BY <3>1
    <3> QED
      BY <3>3, <3>5, <3>6 DEF IouVersion
  <2> QED
    BY <1>3, <2>1, <2>2 DEF Accepts
<1> QED
  BY <1>3, <1>5, <1>6 DEF LayoutIsReadBack, data, m

-----------------------------------------------------------------------------
(* Sizes *)

\* A block without transactions, and one with one transaction.
LEMMA BlockSizes ==
  /\ BlockSize(<<>>) = BlockHeader + 72
  /\ \A x \in Nat : BlockSize(<<x>>) = BlockHeader + 72 + x
<1>1. BlockHeader \in Nat
  BY DEF BlockHeader
<1>2. BlockSize(<<>>) = BlockHeader + 72
  <2> DEFINE Solves(f) == f = [i \in 0 .. Len(<<>>) |->
                                 IF i = 0 THEN BlockHeader + 64 + 8 ELSE f[i-1] + <<>>[i]]
             f == [i \in 0 .. 0 |-> BlockHeader + 64 + 8]
             size == CHOOSE g : Solves(g)
  <2>1. Len(<<>>) = 0 /\ 0 \in 0 .. 0 /\ \A i \in 0 .. 0 : i = 0
    OBVIOUS
  <2>2. Solves(f)
    <3> HIDE DEF BlockHeader
    <3> QED
      BY <2>1
  <2>3. Solves(size)
    <3> HIDE DEF Solves, f
    <3> QED
      BY <2>2
  <2>4. size[0] = BlockHeader + 64 + 8
    <3> HIDE DEF size
    <3> QED
      BY <2>1, <2>3
  <2>5. BlockSize(<<>>) = size[0]
    BY <2>1 DEF BlockSize
  <2> HIDE DEF size
  <2> QED
    BY <1>1, <2>4, <2>5
<1>3. ASSUME NEW x \in Nat
      PROVE  BlockSize(<<x>>) = BlockHeader + 72 + x
  <2> DEFINE t == <<x>>
             Solves(f) == f = [i \in 0 .. Len(t) |->
                                 IF i = 0 THEN BlockHeader + 64 + 8 ELSE f[i-1] + t[i]]
             f == [i \in 0 .. 1 |-> IF i = 0 THEN BlockHeader + 64 + 8
                                             ELSE BlockHeader + 64 + 8 + x]
             size == CHOOSE g : Solves(g)
  <2>1. Len(t) = 1 /\ t[1] = x
    OBVIOUS
  <2> HIDE DEF t
  <2>2. 0 \in 0 .. 1 /\ 1 \in 0 .. 1 /\ 1 - 1 = 0 /\ \A i \in 0 .. 1 : i = 0 \/ i = 1
    OBVIOUS
  <2>3. Solves(f)
    <3>1. f[0] = BlockHeader + 64 + 8 /\ f[1] = BlockHeader + 64 + 8 + x
      BY <2>2
    <3>2. \A i \in 0 .. Len(t) : f[i] = IF i = 0 THEN BlockHeader + 64 + 8 ELSE f[i-1] + t[i]
      <4> HIDE DEF f
      <4> QED
        BY <2>1, <2>2, <3>1
    <3>3. f = [i \in 0 .. Len(t) |-> f[i]]
      BY <2>1
    <3> HIDE DEF f
    <3> QED
      BY <3>2, <3>3, Zenon
  <2>4. Solves(size)
    <3> HIDE DEF Solves, f
    <3> QED
      BY <2>3
  <2>5. size[1] = BlockHeader + 64 + 8 + x
    <3> HIDE DEF size
    <3>1. size[1] = size[0] + t[1] /\ size[0] = BlockHeader + 64 + 8
      BY <2>1, <2>2, <2>4
    <3> QED
      BY <2>1, <3>1
  <2>6. BlockSize(t) = size[1]
    BY <2>1 DEF BlockSize
  <2> HIDE DEF size
  <2>7. BlockSize(t) = BlockHeader + 72 + x
    BY <1>1, <2>5, <2>6
  <2> QED
    BY <2>7 DEF t
<1> QED
  BY <1>2, <1>3

(* A transaction of every kind fits a packet while it has no PQ signature, *)
(* and none does with one.                                                 *)
THEOREM TransactionsOnAir ==
  \A k \in DOMAIN Body : TxOnAir(k)
<1> SUFFICES ASSUME NEW k \in DOMAIN Body PROVE TxOnAir(k)
  OBVIOUS
<1>1. Body[k] \in Nat /\ Body[k] >= 40 /\ Body[k] <= 73
  BY DEF Body
<1> DEFINE s == TxSize(k, FALSE)
           q == TxSize(k, TRUE)
<1>2. s = Body[k] + 98 /\ q = Body[k] + 98 + 5277
  BY <1>1 DEF TxSize, PqPart
<1> HIDE DEF s, q
<1>3. FitsFrame(s) /\ ~ FitsFrame(q)
  BY <1>1, <1>2 DEF FitsFrame, MaxPayload
<1> QED
  BY <1>3 DEF TxOnAir, s, q

(* encode_block_for_air sends a hint in place of a block of one            *)
(* transaction, of whatever kind.                                          *)
THEOREM NoBlockGoesWhole ==
  \A k \in DOMAIN Body : ~BlockWhole(k) /\ BlockOnAir(<<TxSize(k, FALSE)>>) = "BlockHint"
<1> SUFFICES ASSUME NEW k \in DOMAIN Body
             PROVE  BlockOnAir(<<TxSize(k, FALSE)>>) = "BlockHint"
  BY DEF BlockWhole
<1>1. Body[k] \in Nat /\ Body[k] >= 40
  BY DEF Body
<1> DEFINE s == TxSize(k, FALSE)
<1>2. s = Body[k] + 98
  BY <1>1 DEF TxSize
<1> HIDE DEF s
<1>3. BlockSize(<<s>>) = 170 + s
  <2>1. BlockSize(<<s>>) = BlockHeader + 72 + s
    BY <1>1, <1>2, BlockSizes
  <2> QED
    BY <1>1, <1>2, <2>1 DEF BlockHeader
<1>4. BlockOnAir(<<s>>) = "BlockHint"
  BY <1>1, <1>2, <1>3 DEF BlockOnAir, BlockFitsAir, FitsFrame, MaxPayload
<1> QED
  BY <1>4 DEF s

(* The fixed layouts, a hint and an empty block fit a packet, the          *)
(* acknowledgement in hex does not.                                       *)
THEOREM LayoutsOnAir ==
  \A l \in Layout : LayoutOnAir(l)
<1> SUFFICES ASSUME NEW l \in Layout PROVE LayoutOnAir(l)
  OBVIOUS
<1>1. Size[l] \in Nat /\ Size[l] <= 200
  BY DEF Layout, Written, Size
<1>2. BlockOnAir(<<>>) = "Block"
  <2>1. Len(<<>>) = 0 /\ BlockSize(<<>>) = 170
    BY BlockSizes DEF BlockHeader
  <2> QED
    BY <2>1 DEF BlockOnAir, BlockFitsAir, AirMaxTxs, FitsFrame, MaxPayload
<1> QED
  BY <1>1, <1>2 DEF LayoutOnAir, FitsFrame, MaxPayload, FatAckSize, HintSize

\* A tip fits while its chain id has at most 112 bytes.
LEMMA TipsOnAir ==
  ASSUME NEW n \in Nat
  PROVE  FitsFrame(TipSize(n)) <=> n <= 112
BY DEF FitsFrame, TipSize, MaxPayload

(* What can be sent compressed is not refused for its length when read, of *)
(* any length, if deflate makes no less than 1/64 of it.                   *)
THEOREM CompressedAreReadBack ==
  \A n, z \in Nat : CompressedIsReadBack(n, z)
BY DEF CompressedIsReadBack, Compressible, Decompressible, FitsFrame, MaxPayload

-----------------------------------------------------------------------------
(* What the runs try *)

\* The inputs that the codecs' theorems are about.
Covered(i) ==
  /\ i.codec = "frame"   => /\ i.version \in Versions /\ i.type \in MsgType
                            /\ i.len \in Nat /\ FitsFrame(i.len)
  /\ i.codec = "layout"  => i.layout \in Layout
  /\ i.codec = "deflate" => i.len \in Nat /\ i.deflated \in Nat
  /\ i.codec = "tx"      => i.kind \in DOMAIN Body
  /\ i.codec = "tip"     => i.chain_id \in Nat
  /\ i.codec = "varint"  => i.value \in Word
  /\ i.codec = "long"    => i.bytes \in Nat \ {0}
  /\ i.codec = "packet"  => i.packet \in MeshPackets
  /\ i.codec = "stream"  => /\ i.first \in Nat /\ i.first <= MaxU16
                            /\ i.next \in Nat /\ i.next <= MaxU16
  /\ i.codec = "name"    => i.id \in Id

\* The packets that are tried are packets.
LEMMA PacketsAreMeshPackets ==
  Packets \subseteq MeshPackets
<1> DEFINE P == {<<>>, <<9>>}
           Q == Seq(Nat)
<1>1. P \subseteq Q
  <2>1. <<>> \in Seq(Nat) /\ <<9>> \in Seq(Nat)
    OBVIOUS
  <2> QED
    BY <2>1
<1>2. /\ Packets = [from : {0, 1}, to : {0, 2}, channel : {0, 3}, portnum : {265},
                    payload : P, hop_limit : {0, 1, 3}, id : {0, 4}]
      /\ MeshPackets = [from : Nat, to : Nat, channel : Nat, portnum : Nat, payload : Q,
                        hop_limit : Nat, id : Nat]
  BY DEF Packets, MeshPackets
<1> HIDE DEF P, Q
<1>3. ASSUME NEW p \in Packets
      PROVE  p \in MeshPackets
  <2>1. /\ p.from \in Nat /\ p.to \in Nat /\ p.channel \in Nat /\ p.portnum \in Nat
        /\ p.payload \in Q /\ p.hop_limit \in Nat /\ p.id \in Nat
    BY <1>1, <1>2
  <2>2. p = [from |-> p.from, to |-> p.to, channel |-> p.channel, portnum |-> p.portnum,
             payload |-> p.payload, hop_limit |-> p.hop_limit, id |-> p.id]
    BY <1>2
  <2> QED
    BY <1>2, <2>1, <2>2
<1> QED
  BY <1>3

\* What a codec is tried on is what its theorem is about.
LEMMA InputsAreCovered ==
  \A i \in Inputs \cup {Air} : Covered(i)
<1>1. \A i \in FrameInputs : Covered(i)
  <2>1. \A n \in {0, 1, 105, 199, 200} : n \in Nat /\ FitsFrame(n)
    BY DEF FitsFrame, MaxPayload
  <2>2. {"Tx", "Tip", "GossipJson"} \subseteq MsgType
    BY DEF MsgType, Code
  <2> QED
    BY <2>1, <2>2 DEF FrameInputs, Covered
<1>2. \A i \in LayoutInputs \cup TxInputs \cup VarintInputs \cup NameInputs : Covered(i)
  BY DEF LayoutInputs, TxInputs, VarintInputs, NameInputs, Covered
<1>3. \A i \in TipInputs : Covered(i)
  <2> DEFINE Ids == 0 .. 200
  <2>1. \A n \in Ids : n \in Nat
    OBVIOUS
  <2>2. TipInputs = [codec : {"tip"}, chain_id : Ids]
    BY DEF TipInputs
  <2> HIDE DEF Ids
  <2> QED
    BY <2>1, <2>2 DEF Covered
<1>4. \A i \in DeflateInputs \cup StreamInputs : Covered(i)
  BY DEF DeflateInputs, StreamInputs, Covered, MaxU16
<1>5. \A i \in LongInputs : Covered(i)
  <2>1. \A n \in 1 .. WordBits : n \in Nat \ {0}
    OBVIOUS
  <2> QED
    BY <2>1 DEF LongInputs, Covered
<1>6. \A i \in PacketInputs : Covered(i)
  BY PacketsAreMeshPackets DEF PacketInputs, Covered
<1>7. Covered(Air)
  BY DEF Air, Covered
<1> QED
  BY <1>1, <1>2, <1>3, <1>4, <1>5, <1>6, <1>7 DEF Inputs

\* Nothing changes what a codec is tried on.
LEMMA InputStays ==
  MCSpec => [](input \in Inputs \cup {Air})
<1> DEFINE P == input \in Inputs \cup {Air}
<1>1. MCInit => P
  BY DEF MCInit
<1>2. P /\ [MCNext]_<<vars, input>> => P'
  BY DEF MCNext
<1> QED
  BY <1>1, <1>2, PTL DEF MCSpec

(* Frames, fixed layouts and compressed frames that the runs try are read  *)
(* back: encode_frame_with_hops and decode_frame, air_finality.rs,         *)
(* balance.rs and iou.rs.                                                  *)
THEOREM FramesReadBack == MCSpec => []FrameReadBack
<1>1. input \in Inputs \cup {Air} => FrameReadBack
  BY InputsAreCovered, FramesAreReadBack, LayoutsAreReadBack, CompressedAreReadBack
     DEF FrameReadBack, Covered
<1> QED
  BY <1>1, InputStays, PTL

(* What fits a packet is what the runs say: transactions without a PQ      *)
(* signature, the fixed layouts, and tips up to 112 bytes of chain id.     *)
THEOREM AirIsBudgeted == MCSpec => []AirBudget
<1>1. input \in Inputs \cup {Air} => AirBudget
  BY InputsAreCovered, TransactionsOnAir, LayoutsOnAir, TipsOnAir DEF AirBudget, Covered
<1> QED
  BY <1>1, InputStays, PTL

(* encode_varint, encode_mesh_packet and encode_serial_frame are read back *)
(* by the decoders beside them.                                            *)
THEOREM NativeIsReadBack == MCSpec => []NativeReadBack
<1>1. input \in Inputs \cup {Air} => NativeReadBack
  BY InputsAreCovered, NumbersAreReadBack, LongIsRefused, PacketsAreReadBack,
     StreamsAreReadBack DEF NativeReadBack, Covered
<1> QED
  BY <1>1, InputStays, PTL

(* parse_mesh_name reads back what mesh_name writes.                       *)
THEOREM NameIsRead == MCSpec => []NameReadBack
<1>1. input \in Inputs \cup {Air} => NameReadBack
  BY InputsAreCovered, NamesAreReadBack DEF NameReadBack, Covered
<1> QED
  BY <1>1, InputStays, PTL
=============================================================================
