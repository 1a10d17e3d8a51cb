----------------------------- MODULE Fragments -----------------------------
(***************************************************************************)
(* Payloads too large for one packet, over a radio that loses, repeats and *)
(* reorders: crates/transport/src/frag.rs (fragment_bytes, FragAssembler,  *)
(* FragCache) and the MeshRadioHub of crates/node/src/net.rs that joins    *)
(* them.  One hub sends the messages, another one assembles them.          *)
(*                                                                         *)
(* A payload is a sequence of chunks, and a frame carries one of them with *)
(* the session id, a hash of the payload, its number and how many there    *)
(* are.  Chunks are numbered from 1 here.  Times are kept as ages, which   *)
(* stop at the time to live.                                               *)
(***************************************************************************)
EXTENDS Integers, FiniteSets

CONSTANTS
  Message,      \* payloads to send
  Total,        \* Total[m]: fragments of m
  Session,      \* Session[m]: the first 8 bytes of the hash of m
  MaxChunks,    \* 128: fragments of a session
  MaxSessions,  \* 64: sessions of an assembler, and of a cache
  TimeToLive,   \* 60: seconds until a session is forgotten
  NackTimeout,  \* seconds without a fragment until the missing ones are asked for
  NackRoom,     \* 95: numbers that a FragNack of one packet has room for
  MaxSends,     \* bound: MaxSends[m]: times m is sent
  MaxAir        \* bound: frames on the air at a time

(* Payloads may share a session id, if not also the number of fragments:   *)
(* that is all the assembler can tell them apart by.                       *)
ASSUME FragmentsAssumption ==
  /\ Total \in [Message -> Nat \ {0}]
  /\ \A m, k \in Message : Session[m] = Session[k] /\ Total[m] = Total[k] => m = k
  /\ MaxChunks \in Nat /\ MaxSessions \in Nat \ {0} /\ TimeToLive \in Nat \ {0}
  /\ NackTimeout \in Nat /\ NackRoom \in Nat /\ MaxAir \in Nat
  /\ MaxSends \in [Message -> Nat]

VARIABLES
  cache,     \* the sender's FragCache: the payload and the age of each session in it
  air,       \* frames that are on the air
  pending,   \* the receiver's sessions: number of fragments, chunks held, and age
  delivered, \* the payloads handed on
  sends      \* sends[m]: times m was sent

vars == <<cache, air, pending, delivered, sends>>

Index(m) == 1 .. Total[m]

Chunk(m, i) == [of |-> m, at |-> i]
Chunks      == UNION {{Chunk(m, i) : i \in Index(m)} : m \in Message}
Payload(m)  == [i \in Index(m) |-> Chunk(m, i)]

Frag(m, i) == [kind |-> "frag", session |-> Session[m], idx |-> i, total |-> Total[m],
               chunk |-> Chunk(m, i)]
Nack(s, S) == [kind |-> "nack", session |-> s, missing |-> S]

\* fragment_bytes refuses a payload of too many fragments
Sendable   == {m \in Message : Total[m] <= MaxChunks}
SessionIds == {Session[m] : m \in Sendable}
FragsOf(m) == {Frag(m, i) : i \in Index(m)}

Frags == UNION {FragsOf(m) : m \in Sendable}
Nacks == {Nack(s, S) : s \in SessionIds, S \in SUBSET (1 .. MaxChunks)}
Frame == Frags \cup Nacks

Sessions   == DOMAIN pending
Missing(s) == (1 .. pending[s].total) \ DOMAIN pending[s].chunks

Init ==
  /\ cache = [s \in {} |-> 0]
  /\ air = {}
  /\ pending = [s \in {} |-> 0]
  /\ delivered = {}
  /\ sends = [m \in Message |-> 0]

-----------------------------------------------------------------------------
\* The function f on fewer arguments, and on one more
Only(f, S)    == [k \in S |-> f[k]]
With(f, s, v) == [k \in DOMAIN f \cup {s} |-> IF k = s THEN v ELSE f[k]]

\* What is left when there must be room for s: one of the oldest goes,
\* unless s needs no room
FullBeyond(S) == Cardinality(S) > MaxSessions
Full(S)       == Cardinality(S) >= MaxSessions

Room(S, s, sessions, keep) ==
  IF (s \in S /\ keep) \/ ~Full(S) THEN {S}
  ELSE {S \ {o} : o \in {k \in S : \A l \in S : sessions[l].age <= sessions[k].age}}

\* Sessions that are not too old
Fresh(sessions) == {s \in DOMAIN sessions : sessions[s].age < TimeToLive}

-----------------------------------------------------------------------------
(* The sender *)

\* FragCache::insert makes room even for a session it has, and replaces it
Send(m) ==
  /\ m \in Sendable /\ sends[m] < MaxSends[m]
  /\ sends' = [sends EXCEPT ![m] = @ + 1]
  /\ \E S \in Room(Fresh(cache), Session[m], cache, FALSE) :
       cache' = With(Only(cache, S), Session[m], [msg |-> m, age |-> 0])
  /\ air' = air \cup FragsOf(m)
  /\ Cardinality(air') <= MaxAir
  /\ UNCHANGED <<pending, delivered>>

\* handle_nack: of the session in the cache, the fragments asked for that it has
RetransmittedShifted(s, S) == {Frag(cache[s].msg, i + 1) : i \in S}
Retransmitted(s, S) == {Frag(cache[s].msg, i) : i \in S \cap Index(cache[s].msg)}

HearNack(f) ==
  /\ f \in air /\ f.kind = "nack"
  /\ air' = (air \ {f}) \cup (IF f.session \in DOMAIN cache
                               THEN Retransmitted(f.session, f.missing) ELSE {})
  /\ UNCHANGED <<cache, pending, delivered, sends>>

\* MeshRadioHub::prune
Prune ==
  /\ Fresh(cache) # DOMAIN cache
  /\ cache' = Only(cache, Fresh(cache))
  /\ UNCHANGED <<air, pending, delivered, sends>>

-----------------------------------------------------------------------------
(* The receiver: push_payload.  Sessions that heard nothing for the time   *)
(* to live are dropped first, this one too; a new one may push out the     *)
(* oldest.  A session that has as many chunks as it should is handed on;   *)
(* none is missing then, as each has its own number up to the total.       *)

Alive == Fresh(pending)

\* The session a fragment belongs to, before its chunk is added
Entry(f) ==
  IF f.session \in Alive THEN pending[f.session]
  ELSE [total |-> f.total, chunks |-> [i \in {} |-> 0], age |-> 0]

AnyTotal(f, e)  == TRUE
SameTotal(f, e) == e.total = f.total

IsWhole(e) == Cardinality(DOMAIN e.chunks) = e.total
Joined(e)  == [i \in 1 .. e.total |-> e.chunks[i]]

\* A fragment of another total is refused, but keeps the session alive
HearFrag(f) ==
  LET old  == [Entry(f) EXCEPT !.age = 0]
      e    == [old EXCEPT !.chunks = With(@, f.idx, f.chunk)]
  IN  /\ f \in air /\ f.kind = "frag"
      /\ air' = air \ {f}
      /\ \E S \in Room(Alive, f.session, pending, TRUE) :
           \/ /\ ~SameTotal(f, old)
              /\ pending' = With(Only(pending, S), f.session, old)
              /\ UNCHANGED delivered
           \/ /\ SameTotal(f, old) /\ ~IsWhole(e)
              /\ pending' = With(Only(pending, S), f.session, e)
              /\ UNCHANGED delivered
           \/ /\ SameTotal(f, old) /\ IsWhole(e)
              /\ pending' = Only(pending, S \ {f.session})
              /\ delivered' = delivered \cup {Joined(e)}
      /\ UNCHANGED <<cache, sends>>

\* A fragment with a header that makes no sense: only the pruning happens
HearNoise ==
  /\ Alive # Sessions
  /\ pending' = Only(pending, Alive)
  /\ UNCHANGED <<cache, air, delivered, sends>>

\* check_missing_chunks asks for all that is missing and starts the wait
\* again, also when the FragNack does not fit a packet and is not sent
MissingBelow(s) == {i \in Missing(s) : \E j \in DOMAIN pending[s].chunks : i < j}
AskedFor(s) == Missing(s)

CheckTimeouts ==
  LET late == {s \in Sessions : pending[s].age >= NackTimeout /\ Missing(s) # {}}
  IN  /\ late # {}
      /\ pending' = [s \in Sessions |->
                       IF s \in late THEN [pending[s] EXCEPT !.age = 0] ELSE pending[s]]
      /\ air' = air \cup {Nack(s, AskedFor(s)) :
                            s \in {k \in late : Cardinality(AskedFor(k)) <= NackRoom}}
      /\ Cardinality(air') <= MaxAir
      /\ UNCHANGED <<cache, delivered, sends>>

-----------------------------------------------------------------------------
(* The radio and the clock *)

Lose(f) ==
  /\ f \in air
  /\ air' = air \ {f}
  /\ UNCHANGED <<cache, pending, delivered, sends>>

Older(age) == IF age < TimeToLive THEN age + 1 ELSE age

Tick ==
  /\ cache' = [s \in DOMAIN cache |-> [cache[s] EXCEPT !.age = Older(@)]]
  /\ pending' = [s \in Sessions |-> [pending[s] EXCEPT !.age = Older(@)]]
  /\ <<cache', pending'>> # <<cache, pending>>
  /\ UNCHANGED <<air, delivered, sends>>

Next ==
  \/ \E m \in Message : Send(m)
  \/ \E f \in air : HearFrag(f) \/ HearNack(f) \/ Lose(f)
  \/ Prune \/ HearNoise \/ CheckTimeouts \/ Tick

Spec == Init /\ [][Next]_vars

(* A frame sent again and again is heard, the clock runs, and the hub is   *)
(* asked for its timeouts now and then.  Nothing makes a sender send.      *)
Fairness ==
  /\ WF_vars(Tick) /\ WF_vars(CheckTimeouts)
  /\ \A f \in Frags : SF_vars(HearFrag(f))
  /\ \A s \in SessionIds : SF_vars(\E f \in air : f.session = s /\ HearNack(f))

FairSpec == Spec /\ Fairness

-----------------------------------------------------------------------------
CacheTypeOK ==
  /\ DOMAIN cache \subseteq SessionIds
  /\ \A s \in DOMAIN cache : cache[s] \in [msg : Sendable, age : 0 .. TimeToLive]

\* What the assembler holds of a session
Half == [total : 1 .. MaxChunks, chunks : UNION {[S -> Chunks] : S \in SUBSET (1 .. MaxChunks)},
         age : 0 .. TimeToLive]

TypeOK ==
  /\ CacheTypeOK
  /\ air \subseteq Frame
  /\ Sessions \subseteq SessionIds
  /\ \A s \in Sessions : pending[s] \in Half
  /\ delivered \subseteq UNION {[1 .. n -> Chunks] : n \in 1 .. MaxChunks}
  /\ DOMAIN sends = Message /\ \A m \in Message : sends[m] \in 0 .. MaxSends[m]

(* What is handed on is, chunk by chunk, a payload that was sent: chunks   *)
(* of another payload are not mixed in, whatever is lost and sent again,   *)
(* whichever sessions expire, are pushed out or begin anew in between, and *)
(* even if payloads of different lengths share a session id.               *)
DeliveredIsWhole ==
  \A d \in delivered : \E m \in Message : sends[m] > 0 /\ d = Payload(m)

(* No assembler and no cache holds more than MaxSessions sessions, and no  *)
(* session waits that has nothing missing.                                 *)
SessionsBounded ==
  /\ Cardinality(Sessions) <= MaxSessions /\ Cardinality(DOMAIN cache) <= MaxSessions
  /\ \A s \in Sessions : Missing(s) # {} /\ DOMAIN pending[s].chunks # {}

(* As long as the sender remembers a message, a receiver that heard some   *)
(* of it asks for the rest until it has it all, however often fragments    *)
(* and requests are lost: unless more is missing than one request can      *)
(* name, another session takes its place, or it is not asked for its       *)
(* timeouts until the session has expired.                                 *)
Cached(m)  == Session[m] \in DOMAIN cache /\ cache[Session[m]].msg = m
Waits(m)   == Session[m] \in Sessions /\ pending[Session[m]].total = Total[m]
Expired(m) == Session[m] \in Sessions \ Alive
Asks(m)    == Waits(m) /\ Cached(m) /\ Cardinality(Missing(Session[m])) <= NackRoom

HeardIsCompleted ==
  \A m \in Message :
    Asks(m) ~> Payload(m) \in delivered \/ Expired(m) \/ ~Waits(m) \/ ~Cached(m)

-----------------------------------------------------------------------------
(* The inductive invariant.                                                *)

\* What is cached or on the air was sent, and kept under its own session
SentInv ==
  /\ \A s \in DOMAIN cache : Session[cache[s].msg] = s /\ sends[cache[s].msg] > 0
  /\ \A f \in air : f.kind = "frag" => \E m \in Sendable : sends[m] > 0 /\ f \in FragsOf(m)

\* What is half assembled is a part of one payload that was sent
PartOf(e, m) ==
  /\ e.total = Total[m] /\ DOMAIN e.chunks \subseteq Index(m)
  /\ \A i \in DOMAIN e.chunks : e.chunks[i] = Chunk(m, i)

HalfInv ==
  \A s \in Sessions :
    \E m \in Sendable : Session[m] = s /\ sends[m] > 0 /\ PartOf(pending[s], m)

\* There may be any number of messages, but only finitely many are at hand
FiniteInv == IsFiniteSet(Sessions) /\ IsFiniteSet(DOMAIN cache)

IInv == TypeOK /\ SentInv /\ HalfInv /\ FiniteInv /\ DeliveredIsWhole /\ SessionsBounded
=============================================================================
