----------------------------- MODULE DataProofs -----------------------------
(***************************************************************************)
(* What proofs need of recursion over data.  A recursive function of       *)
(* numbers has the values its definition gives it; a sum over a finite     *)
(* domain is a number, an element can be taken out of it, and it follows   *)
(* the change of one element; two sequences put together have the elements *)
(* of both.  Induction is the least-element principle on sets that are     *)
(* named, so that no lemma has an operator for a parameter.                *)
(***************************************************************************)
EXTENDS Functions, Integers, FiniteSetTheorems, SequenceTheorems, WellFoundedInduction,
        TLAPS

-----------------------------------------------------------------------------
(* Induction *)

\* A set of numbers with 0 that has n + 1 when it has n has all numbers.
LEMMA NatSetInduction ==
  ASSUME NEW Q, 0 \in Q, \A n \in Nat : n \in Q => n + 1 \in Q
  PROVE  Nat \subseteq Q
<1> DEFINE bad == Nat \ Q
<1>1. SUFFICES ASSUME bad # {} PROVE FALSE
  OBVIOUS
<1>2. PICK m \in bad : \A n \in bad : ~ (<<n, m>> \in OpToRel(<, Nat))
  BY <1>1, NatLessThanWellFounded, WFMin
<1>3. m # 0 /\ m - 1 \in Nat
  OBVIOUS
<1>4. CASE m - 1 \in Q
  BY <1>3, <1>4
<1>5. CASE m - 1 \in bad
  <2>1. OpToRel(<, Nat) = {ss \in Nat \X Nat : ss[1] < ss[2]}
    BY Zenon DEF OpToRel
  <2>2. <<m - 1, m>> \in {ss \in Nat \X Nat : ss[1] < ss[2]}
    BY <1>3
  <2> QED
    BY <1>2, <1>5, <2>1, <2>2
<1> QED
  BY <1>3, <1>4, <1>5

\* The same from one number to another.
LEMMA IntervalInduction ==
  ASSUME NEW from \in Int, NEW to \in Int, NEW Q, from \in Q,
         \A i \in from .. to - 1 : i \in Q => i + 1 \in Q
  PROVE  from .. to \subseteq Q
<1> DEFINE P == {n \in Nat : from + n <= to => from + n \in Q}
<1>1. 0 \in P
  OBVIOUS
<1>2. ASSUME NEW n \in Nat, n \in P
      PROVE  n + 1 \in P
  <2>1. CASE from + (n + 1) <= to
    <3>1. from + n \in Q /\ from + n \in from .. to - 1
      BY <1>2, <2>1
    <3>2. (from + n) + 1 \in Q
      BY <3>1
    <3> QED
      BY <3>2
  <2>2. CASE ~ (from + (n + 1) <= to)
    BY <2>2
  <2> QED
    BY <2>1, <2>2
<1>3. Nat \subseteq P
  <2> HIDE DEF P
  <2> QED
    BY <1>1, <1>2, NatSetInduction
<1>4. ASSUME NEW i \in from .. to
      PROVE  i \in Q
  <2>1. i - from \in P
    BY <1>3
  <2> QED
    BY <2>1
<1> QED
  BY <1>4

\* A step of a recursion over from .. to stays in A; and f follows the recursion.
Steps(step, A, from, to) == \A i \in from + 1 .. to : \A a \in A : step[i][a] \in A
Follows(f, step, A, from, to, start) ==
  /\ f \in [from .. to -> A]
  /\ f[from] = start
  /\ \A i \in from + 1 .. to : f[i] = step[i][f[i-1]]

\* A recursion from one number to another has a solution.
LEMMA RecursionExists ==
  ASSUME NEW A, NEW from \in Int, NEW to \in Int, from <= to, NEW start \in A,
         NEW step, Steps(step, A, from, to)
  PROVE  \E f : Follows(f, step, A, from, to, start)
<1> DEFINE Q == {n \in from .. to : \E f : Follows(f, step, A, from, n, start)}
<1>1. from \in Q
  <2> DEFINE f == [i \in from .. from |-> start]
  <2>1. f \in [from .. from -> A]
    OBVIOUS
  <2>2. f[from] = start /\ from + 1 .. from = {} /\ from \in from .. to
    OBVIOUS
  <2> HIDE DEF f
  <2>3. Follows(f, step, A, from, from, start)
    BY <2>1, <2>2 DEF Follows
  <2> QED
    BY <2>2, <2>3
<1>2. ASSUME NEW n \in from .. to - 1, n \in Q
      PROVE  n + 1 \in Q
  <2>1. PICK f : Follows(f, step, A, from, n, start)
    BY <1>2
  <2>2. /\ f \in [from .. n -> A] /\ f[from] = start
        /\ \A i \in from + 1 .. n : f[i] = step[i][f[i-1]]
    BY <2>1 DEF Follows
  <2>3. n \in from .. n /\ n + 1 \in from + 1 .. to
    OBVIOUS
  <2> DEFINE last == step[n + 1][f[n]]
             g == [i \in from .. n + 1 |-> IF i \in from .. n THEN f[i] ELSE last]
  <2>4. last \in A
    BY <2>2, <2>3 DEF Steps
  <2>5. g \in [from .. n + 1 -> A]
    BY <2>2, <2>4
  <2>6. (\A i \in from .. n : g[i] = f[i]) /\ g[n + 1] = last
    BY <2>3
  <2>7. ASSUME NEW i \in from + 1 .. n + 1
        PROVE  g[i] = step[i][g[i-1]]
    <3>1. CASE i \in from + 1 .. n
      <4>1. i \in from .. n /\ i - 1 \in from .. n
        BY <3>1
      <4> HIDE DEF g, last
      <4> QED
        BY <2>2, <2>6, <3>1, <4>1
    <3>2. CASE i = n + 1
      <4>1. g[i-1] = f[n]
        BY <2>3, <2>6, <3>2
      <4> HIDE DEF g
      <4> QED
        BY <2>6, <3>2, <4>1
    <3> QED
      BY <3>1, <3>2
  <2>8. g[from] = start /\ n + 1 \in from .. to
    BY <2>2
  <2>9. Follows(g, step, A, from, n + 1, start)
    <3> HIDE DEF g
    <3> QED
      BY <2>5, <2>7, <2>8 DEF Follows
  <2> QED
    BY <2>8, <2>9
<1>3. from .. to \subseteq Q
  <2> HIDE DEF Q
  <2> QED
    BY <1>1, <1>2, IntervalInduction
<1>4. to \in from .. to
  OBVIOUS
<1> QED
  BY <1>3, <1>4

\* A set of numbers that is not empty has a least one.
LEMMA LeastNumber ==
  ASSUME NEW S, S \subseteq Nat, NEW n \in S
  PROVE  \E m \in S : \A k \in 0 .. m - 1 : k \notin S
<1> SUFFICES ASSUME \A m \in S : \E k \in 0 .. m - 1 : k \in S
             PROVE  FALSE
  OBVIOUS
<1> DEFINE Q == {k \in Nat : \A m \in 0 .. k : m \notin S}
<1>1. 0 \in Q
  <2>1. 0 .. 0 - 1 = {} /\ 0 .. 0 = {0}
    OBVIOUS
  <2> QED
    BY <2>1
<1>2. ASSUME NEW k \in Nat, k \in Q
      PROVE  k + 1 \in Q
  <2>1. k + 1 \notin S
    <3>1. (k + 1) - 1 = k
      OBVIOUS
    <3> QED
      BY <1>2, <3>1
  <2>2. \A m \in 0 .. k + 1 : m \in 0 .. k \/ m = k + 1
    OBVIOUS
  <2> QED
    BY <1>2, <2>1, <2>2
<1>3. Nat \subseteq Q
  <2> HIDE DEF Q
  <2> QED
    BY <1>1, <1>2, NatSetInduction
<1>4. n \in 0 .. n /\ n \in Nat
  OBVIOUS
<1> QED
  BY <1>3, <1>4

\* Two solutions of a recursion agree as far as both go.
LEMMA FollowsAgree ==
  ASSUME NEW A, NEW start, NEW step, NEW m \in Nat, NEW n \in Nat, m <= n,
         NEW f, Follows(f, step, A, 0, m, start), NEW g, Follows(g, step, A, 0, n, start)
  PROVE  \A i \in 0 .. m : f[i] = g[i]
<1> DEFINE Q == {i \in 0 .. m : f[i] = g[i]}
<1>1. /\ f[0] = start /\ g[0] = start
      /\ \A i \in 1 .. m : f[i] = step[i][f[i-1]]
      /\ \A i \in 1 .. n : g[i] = step[i][g[i-1]]
  BY DEF Follows
<1>2. 0 \in Q
  BY <1>1
<1>3. ASSUME NEW i \in 0 .. m - 1, i \in Q
      PROVE  i + 1 \in Q
  <2>1. i + 1 \in 1 .. m /\ i + 1 \in 1 .. n /\ (i + 1) - 1 = i /\ i + 1 \in 0 .. m
    OBVIOUS
  <2>2. f[i+1] = step[i+1][f[i]] /\ g[i+1] = step[i+1][g[i]]
    BY <1>1, <2>1
  <2> QED
    BY <1>3, <2>1, <2>2
<1>4. 0 .. m \subseteq Q
  <2> HIDE DEF Q
  <2> QED
    BY <1>2, <1>3, IntervalInduction
<1> QED
  BY <1>4

\* f follows a recursion that does not end.
FollowsOn(f, step, A, start) ==
  f \in [Nat -> A] /\ f[0] = start /\ \A n \in Nat : f[n+1] = step[n+1][f[n]]

\* A recursion over all numbers has a solution.
LEMMA NatRecursionExists ==
  ASSUME NEW A, NEW start \in A, NEW step, \A n \in Nat : Steps(step, A, 0, n)
  PROVE  \E f : FollowsOn(f, step, A, start)
<1> DEFINE Sol(n) == CHOOSE g : Follows(g, step, A, 0, n, start)
           f == [n \in Nat |-> Sol(n)[n]]
<1>1. ASSUME NEW n \in Nat
      PROVE  /\ Follows(Sol(n), step, A, 0, n, start)
             /\ Sol(n) \in [0 .. n -> A] /\ Sol(n)[0] = start
             /\ \A i \in 1 .. n : Sol(n)[i] = step[i][Sol(n)[i-1]]
  <2>1. \E g : Follows(g, step, A, 0, n, start)
    BY RecursionExists
  <2>2. Follows(Sol(n), step, A, 0, n, start)
    BY <2>1
  <2> QED
    BY <2>2 DEF Follows
<1> HIDE DEF Sol
<1>2. f \in [Nat -> A]
  <2>1. \A n \in Nat : Sol(n)[n] \in A
    BY <1>1
  <2> QED
    BY <2>1
<1>3. f[0] = start
  BY <1>1
<1>4. ASSUME NEW n \in Nat
      PROVE  f[n+1] = step[n+1][f[n]]
  <2>1. Sol(n)[n] = Sol(n+1)[n]
    <3>1. \A i \in 0 .. n : Sol(n)[i] = Sol(n+1)[i]
      BY <1>1, FollowsAgree
    <3> QED
      BY <3>1
  <2>2. Sol(n+1)[n+1] = step[n+1][Sol(n+1)[n]]
    <3>1. n + 1 \in 1 .. n + 1 /\ (n + 1) - 1 = n /\ n + 1 \in Nat
      OBVIOUS
    <3> QED
      BY <1>1, <3>1
  <2> QED
    BY <2>1, <2>2
<1>5. FollowsOn(f, step, A, start)
  <2> HIDE DEF f
  <2> QED
    BY <1>2, <1>3, <1>4 DEF FollowsOn
<1> QED
  BY <1>5

\* A set of subsets of a finite set that has every T whose proper subsets it
\* has, has all subsets.
LEMMA SubsetInduction ==
  ASSUME NEW S, IsFiniteSet(S), NEW Q,
         \A T \in SUBSET S : (\A U \in SUBSET T : U # T => U \in Q) => T \in Q
  PROVE  SUBSET S \subseteq Q
<1> DEFINE bad == (SUBSET S) \ Q
<1>1. SUFFICES ASSUME bad # {} PROVE FALSE
  OBVIOUS
<1>2. IsWellFoundedOn(StrictSubsetOrdering(S), SUBSET S)
  BY FS_StrictSubsetOrderingWellFounded, FS_FiniteSubsetsOfFinite
<1> DEFINE R == StrictSubsetOrdering(S)
<1>3. PICK T \in bad : \A U \in bad : ~ (<<U, T>> \in R)
  <2>1. bad \subseteq SUBSET S /\ bad # {} /\ IsWellFoundedOn(R, SUBSET S)
    BY <1>1, <1>2
  <2> HIDE DEF bad, R
  <2> QED
    BY <2>1, WFMin
<1>4. \A U \in SUBSET T : U # T => U \in Q
  BY <1>3 DEF StrictSubsetOrdering
<1> QED
  BY <1>4

-----------------------------------------------------------------------------
(* The recursion of a sum *)

Pick(s) == CHOOSE x \in s : TRUE

Unfolds(g, f, S) ==
  g = [s \in SUBSET S |-> IF s = {} THEN 0 ELSE f[Pick(s)] + g[s \ {Pick(s)}]]

LEMMA PickMember ==
  ASSUME NEW s, s # {}
  PROVE  Pick(s) \in s
BY DEF Pick

\* The recursion has a solution: one for sets of up to n elements extends to
\* one for sets of n + 1.
LEMMA UnfoldsExists ==
  ASSUME NEW S, IsFiniteSet(S), NEW f
  PROVE  \E g : Unfolds(g, f, S)
<1> DEFINE upTo(n) == {s \in SUBSET S : Cardinality(s) <= n}
           body(g, s) == IF s = {} THEN 0 ELSE f[Pick(s)] + g[s \ {Pick(s)}]
           Q == {n \in Nat : \E g : g = [s \in upTo(n) |-> body(g, s)]}
<1>1. 0 \in Q
  <2> DEFINE g == [s \in upTo(0) |-> 0]
  <2>1. \A s \in upTo(0) : s = {}
    BY FS_Subset, FS_EmptySet, FS_CardinalityType
  <2>2. g = [s \in upTo(0) |-> body(g, s)]
    BY <2>1
  <2> QED
    BY <2>2
<1>2. ASSUME NEW n \in Nat, n \in Q
      PROVE  n + 1 \in Q
  <2>1. PICK g : g = [s \in upTo(n) |-> body(g, s)]
    BY <1>2
  <2> DEFINE h == [s \in upTo(n + 1) |-> body(g, s)]
  <2>2. ASSUME NEW s \in upTo(n + 1)
        PROVE  body(g, s) = body(h, s)
    <3>1. CASE s = {}
      BY <3>1
    <3>2. CASE s # {}
      <4> DEFINE t == s \ {Pick(s)}
      <4>1. t \in SUBSET S /\ IsFiniteSet(s) /\ Cardinality(s) \in Nat
        BY FS_Subset, FS_CardinalityType
      <4>2. Cardinality(t) = Cardinality(s) - 1
        BY <3>2, <4>1, FS_RemoveElement, PickMember
      <4>3. t \in upTo(n) /\ t \in upTo(n + 1)
        BY <4>1, <4>2
      <4>4. g[t] = body(g, t)
        BY <2>1, <4>3, Zenon
      <4>5. h[t] = body(g, t)
        BY <4>3
      <4> QED
        BY <3>2, <4>4, <4>5
    <3> QED
      BY <3>1, <3>2
  <2>3. h = [s \in upTo(n + 1) |-> body(h, s)]
    BY <2>2, Zenon
  <2>4. \E k : k = [s \in upTo(n + 1) |-> body(k, s)]
    BY <2>3, Zenon
  <2>5. n + 1 \in Nat
    OBVIOUS
  <2> QED
    BY <2>4, <2>5, Zenon
<1>3. Cardinality(S) \in Q
  <2>1. Nat \subseteq Q
    BY <1>1, <1>2, NatSetInduction, Zenon
  <2> QED
    BY <2>1, FS_CardinalityType
<1>4. upTo(Cardinality(S)) = SUBSET S
  BY FS_Subset
<1> QED
  BY <1>3, <1>4 DEF Unfolds

\* A sum is a solution at the whole domain.
LEMMA SumUnfolds ==
  ASSUME NEW f, IsFiniteSet(DOMAIN f)
  PROVE  \E g : Unfolds(g, f, DOMAIN f) /\ SumFunction(f) = g[DOMAIN f]
<1> DEFINE iter == CHOOSE g : Unfolds(g, f, DOMAIN f)
<1>1. Unfolds(iter, f, DOMAIN f)
  BY UnfoldsExists
<1>2. SumFunction(f) = iter[DOMAIN f]
  BY DEF SumFunction, SumFunctionOnSet, FoldFunctionOnSet, MapThenFoldSet, Unfolds, Pick
<1> QED
  BY <1>1, <1>2

-----------------------------------------------------------------------------
(* Facts about sums of integers *)

LEMMA SumEmpty ==
  ASSUME NEW f, DOMAIN f = {}
  PROVE  SumFunction(f) = 0
<1>1. PICK g : Unfolds(g, f, DOMAIN f) /\ SumFunction(f) = g[DOMAIN f]
  BY SumUnfolds, FS_EmptySet
<1> QED
  BY <1>1 DEF Unfolds

\* A solution gives every set a number, and splits off any of its elements.
LEMMA UnfoldsSplits ==
  ASSUME NEW S, IsFiniteSet(S), NEW f, \A x \in S : f[x] \in Int,
         NEW g, Unfolds(g, f, S)
  PROVE  \A T \in SUBSET S : /\ g[T] \in Int
                            /\ \A x \in T : g[T] = f[x] + g[T \ {x}]
<1> DEFINE Q == {T \in SUBSET S : /\ g[T] \in Int
                                 /\ \A x \in T : g[T] = f[x] + g[T \ {x}]}
<1>1. ASSUME NEW T \in SUBSET S, \A U \in SUBSET T : U # T => U \in Q
      PROVE  T \in Q
  <2>1. CASE T = {}
    <3>1. g[T] = 0
      BY <2>1 DEF Unfolds
    <3> QED
      BY <2>1, <3>1
  <2>2. CASE T # {}
    <3> DEFINE p == Pick(T)
    <3>1. p \in T
      BY <2>2, PickMember
    <3>2. g[T] = f[p] + g[T \ {p}]
      BY <2>2 DEF Unfolds
    <3>3. T \ {p} \in Q
      BY <1>1, <3>1
    <3>4. g[T] \in Int
      BY <3>1, <3>2, <3>3
    <3>5. ASSUME NEW x \in T, x # p
          PROVE  g[T] = f[x] + g[T \ {x}]
      <4>1. T \ {x} \in Q
        BY <1>1
      <4>2. g[T \ {p}] = f[x] + g[(T \ {p}) \ {x}]
        BY <3>3, <3>5
      <4>3. g[T \ {x}] = f[p] + g[(T \ {x}) \ {p}]
        BY <4>1, <3>1, <3>5
      <4>4. (T \ {p}) \ {x} = (T \ {x}) \ {p} /\ (T \ {p}) \ {x} \in Q
        BY <1>1, <3>1
      <4> DEFINE u == (T \ {p}) \ {x}
      <4>5. g[u] \in Int /\ f[x] \in Int /\ f[p] \in Int
        BY <4>4, <3>1
      <4>6. g[T] = f[p] + (f[x] + g[u]) /\ g[T \ {x}] = f[p] + g[u]
        BY <3>2, <4>2, <4>3, <4>4
      <4> HIDE DEF u
      <4> QED
        BY <4>5, <4>6
    <3>6. \A x \in T : g[T] = f[x] + g[T \ {x}]
      BY <3>2, <3>5
    <3> QED
      BY <3>4, <3>6
  <2> QED
    BY <2>1, <2>2
<1>2. SUBSET S \subseteq Q
  <2> HIDE DEF Q
  <2> QED
    BY <1>1, SubsetInduction
<1> QED
  BY <1>2

\* Two solutions, for functions that agree on a set, agree on it.
LEMMA UnfoldsAgree ==
  ASSUME NEW S, IsFiniteSet(S), NEW R, S \in SUBSET R, NEW f, NEW h, \A x \in S : f[x] = h[x],
         NEW g, Unfolds(g, f, S), NEW k, Unfolds(k, h, R)
  PROVE  g[S] = k[S]
<1> DEFINE Q == {T \in SUBSET S : g[T] = k[T]}
<1>1. ASSUME NEW T \in SUBSET S, \A U \in SUBSET T : U # T => U \in Q
      PROVE  T \in Q
  <2>1. CASE T = {}
    BY <2>1 DEF Unfolds
  <2>2. CASE T # {}
    <3>1. Pick(T) \in T
      BY <2>2, PickMember
    <3>2. T \ {Pick(T)} \in Q
      BY <1>1, <3>1
    <3>3. g[T] = f[Pick(T)] + g[T \ {Pick(T)}] /\ k[T] = h[Pick(T)] + k[T \ {Pick(T)}]
      BY <2>2 DEF Unfolds
    <3> QED
      BY <3>1, <3>2, <3>3
  <2> QED
    BY <2>1, <2>2
<1>2. SUBSET S \subseteq Q
  <2> HIDE DEF Q
  <2> QED
    BY <1>1, SubsetInduction
<1> QED
  BY <1>2

\* A sum of integers is an integer, from which any element can be taken out.
LEMMA SumSplits ==
  ASSUME NEW f, IsFiniteSet(DOMAIN f), \A x \in DOMAIN f : f[x] \in Int
  PROVE  /\ SumFunction(f) \in Int
         /\ \A x \in DOMAIN f :
              SumFunction(f) = f[x] + SumFunction([y \in DOMAIN f \ {x} |-> f[y]])
<1>1. PICK g : Unfolds(g, f, DOMAIN f) /\ SumFunction(f) = g[DOMAIN f]
  BY SumUnfolds
<1>2. /\ g[DOMAIN f] \in Int
      /\ \A x \in DOMAIN f : g[DOMAIN f] = f[x] + g[DOMAIN f \ {x}]
  <2>1. \A T \in SUBSET DOMAIN f : /\ g[T] \in Int
                                   /\ \A x \in T : g[T] = f[x] + g[T \ {x}]
    <3> DEFINE S == DOMAIN f
    <3>1. IsFiniteSet(S) /\ (\A x \in S : f[x] \in Int) /\ Unfolds(g, f, S)
      BY <1>1
    <3> HIDE DEF S
    <3>2. \A T \in SUBSET S : /\ g[T] \in Int
                              /\ \A x \in T : g[T] = f[x] + g[T \ {x}]
      BY <3>1, UnfoldsSplits
    <3> QED
      BY <3>2 DEF S
  <2> QED
    BY <2>1
<1>3. ASSUME NEW x \in DOMAIN f
      PROVE  SumFunction([y \in DOMAIN f \ {x} |-> f[y]]) = g[DOMAIN f \ {x}]
  <2> DEFINE D == DOMAIN f \ {x}
             h == [y \in D |-> f[y]]
  <2>1. IsFiniteSet(D) /\ D \in SUBSET DOMAIN f /\ DOMAIN h = D
    BY FS_RemoveElement
  <2>2. PICK k : Unfolds(k, h, D) /\ SumFunction(h) = k[D]
    BY <2>1, SumUnfolds
  <2>3. \A y \in D : h[y] = f[y]
    OBVIOUS
  <2> HIDE DEF h, D
  <2>4. k[D] = g[D]
    BY <1>1, <2>1, <2>2, <2>3, UnfoldsAgree
  <2> QED
    BY <2>2, <2>4 DEF h, D
<1> QED
  BY <1>1, <1>2, <1>3

\* A sum of natural numbers is one, no smaller than any of them.
LEMMA SumOfNaturals ==
  ASSUME NEW f, IsFiniteSet(DOMAIN f), \A x \in DOMAIN f : f[x] \in Nat
  PROVE  SumFunction(f) \in Nat /\ \A x \in DOMAIN f : f[x] <= SumFunction(f)
<1> DEFINE S == DOMAIN f
<1>1. PICK g : Unfolds(g, f, S) /\ SumFunction(f) = g[S]
  BY SumUnfolds
<1> DEFINE Q == {T \in SUBSET S : g[T] \in Nat}
<1>2. ASSUME NEW T \in SUBSET S, \A U \in SUBSET T : U # T => U \in Q
      PROVE  T \in Q
  <2>1. CASE T = {}
    BY <1>1, <2>1 DEF Unfolds
  <2>2. CASE T # {}
    <3>1. Pick(T) \in T
      BY <2>2, PickMember
    <3>2. T \ {Pick(T)} \in Q
      BY <1>2, <3>1
    <3>3. g[T] = f[Pick(T)] + g[T \ {Pick(T)}]
      BY <1>1, <2>2 DEF Unfolds
    <3> QED
      BY <3>1, <3>2, <3>3
  <2> QED
    BY <2>1, <2>2
<1>3. SUBSET S \subseteq Q
  <2> HIDE DEF Q
  <2> QED
    BY <1>2, SubsetInduction
<1>4. \A T \in SUBSET S : g[T] \in Nat
  BY <1>3
<1>5. \A x \in S : g[S] = f[x] + g[S \ {x}] /\ g[S \ {x}] \in Nat
  <2>1. IsFiniteSet(S) /\ (\A x \in S : f[x] \in Int) /\ Unfolds(g, f, S)
    BY <1>1
  <2>3. S \in SUBSET S
    OBVIOUS
  <2> HIDE DEF S
  <2>2. \A T \in SUBSET S : /\ g[T] \in Int
                            /\ \A x \in T : g[T] = f[x] + g[T \ {x}]
    BY <2>1, UnfoldsSplits
  <2> QED
    BY <1>4, <2>2, <2>3
<1>6. \A x \in S : f[x] <= g[S]
  <2> SUFFICES ASSUME NEW x \in S PROVE f[x] <= g[S]
    OBVIOUS
  <2>1. g[S] = f[x] + g[S \ {x}] /\ g[S \ {x}] \in Nat /\ f[x] \in Nat
    BY <1>5
  <2> QED
    BY <2>1
<1>7. g[S] \in Nat
  BY <1>4
<1> QED
  BY <1>1, <1>6, <1>7

\* Where one element changes, the sum changes by the difference.
LEMMA SumChanges ==
  ASSUME NEW f, NEW h, IsFiniteSet(DOMAIN f), DOMAIN h = DOMAIN f, NEW x \in DOMAIN f,
         \A y \in DOMAIN f : f[y] \in Int /\ h[y] \in Int,
         \A y \in DOMAIN f : y # x => h[y] = f[y]
  PROVE  SumFunction(h) = SumFunction(f) - f[x] + h[x]
<1> DEFINE rest(k) == [y \in DOMAIN k \ {x} |-> k[y]]
<1>1. rest(f) = rest(h)
  OBVIOUS
<1>2. /\ SumFunction(f) \in Int /\ SumFunction(f) = f[x] + SumFunction(rest(f))
      /\ SumFunction(h) \in Int /\ SumFunction(h) = h[x] + SumFunction(rest(h))
  BY SumSplits
<1>3. rest(f) = [y \in DOMAIN f \ {x} |-> f[y]] /\ DOMAIN rest(f) = DOMAIN f \ {x}
  OBVIOUS
<1>4. SumFunction(rest(f)) \in Int
  <2>1. IsFiniteSet(DOMAIN rest(f)) /\ \A y \in DOMAIN rest(f) : rest(f)[y] \in Int
    BY <1>3, FS_RemoveElement
  <2> HIDE DEF rest
  <2> QED
    BY <2>1, SumSplits
<1>5. f[x] \in Int /\ h[x] \in Int
  OBVIOUS
<1> HIDE DEF rest
<1> QED
  BY <1>1, <1>2, <1>4, <1>5

\* One element more adds its number.
LEMMA SumGrows ==
  ASSUME NEW f, NEW h, IsFiniteSet(DOMAIN f), NEW x, x \notin DOMAIN f,
         DOMAIN h = DOMAIN f \cup {x}, f = [y \in DOMAIN f |-> f[y]],
         \A y \in DOMAIN f : f[y] \in Int /\ h[y] = f[y], h[x] \in Int
  PROVE  SumFunction(h) = SumFunction(f) + h[x]
<1>1. IsFiniteSet(DOMAIN h) /\ \A y \in DOMAIN h : h[y] \in Int
  BY FS_AddElement
<1>2. SumFunction(h) = h[x] + SumFunction([y \in DOMAIN h \ {x} |-> h[y]])
  BY <1>1, SumSplits
<1>3. [y \in DOMAIN h \ {x} |-> h[y]] = f
  <2>1. DOMAIN h \ {x} = DOMAIN f
    OBVIOUS
  <2>2. f = [y \in DOMAIN f |-> f[y]]
    OBVIOUS
  <2> QED
    BY <2>1, <2>2
<1>4. SumFunction(f) \in Int
  BY SumSplits
<1> QED
  BY <1>2, <1>3, <1>4

\* A sum of zeros is zero.
LEMMA SumOfZeros ==
  ASSUME NEW f, IsFiniteSet(DOMAIN f), f = [y \in DOMAIN f |-> f[y]],
         \A x \in DOMAIN f : f[x] = 0
  PROVE  SumFunction(f) = 0
<1> DEFINE S == DOMAIN f
           Q == {T \in SUBSET S : SumFunction([y \in T |-> 0]) = 0}
<1>1. ASSUME NEW T \in SUBSET S, \A U \in SUBSET T : U # T => U \in Q
      PROVE  T \in Q
  <2> DEFINE h == [y \in T |-> 0]
  <2>1. CASE T = {}
    BY <2>1, SumEmpty
  <2>2. CASE T # {}
    <3>1. PICK x \in T : TRUE
      BY <2>2
    <3>2. T \ {x} \in Q
      BY <1>1, <3>1
    <3>3. IsFiniteSet(DOMAIN h) /\ x \in DOMAIN h /\ \A y \in DOMAIN h : h[y] \in Int
      BY <3>1, FS_Subset
    <3>4. h[x] = 0 /\ [y \in DOMAIN h \ {x} |-> h[y]] = [y \in T \ {x} |-> 0]
      BY <3>1
    <3>5. SumFunction(h) = h[x] + SumFunction([y \in DOMAIN h \ {x} |-> h[y]])
      <4> HIDE DEF h
      <4> QED
        BY <3>3, SumSplits
    <3> QED
      BY <3>2, <3>4, <3>5
  <2> QED
    BY <2>1, <2>2
<1>2. SUBSET S \subseteq Q
  <2> HIDE DEF Q
  <2> QED
    BY <1>1, SubsetInduction
<1>3. f = [y \in S |-> 0]
  OBVIOUS
<1> QED
  BY <1>2, <1>3

\* Over fewer elements, and with smaller numbers, a sum is no greater.
LEMMA SumBelow ==
  ASSUME NEW f, NEW h, IsFiniteSet(DOMAIN h), DOMAIN f \subseteq DOMAIN h,
         f = [x \in DOMAIN f |-> f[x]], h = [x \in DOMAIN h |-> h[x]],
         \A x \in DOMAIN f : f[x] \in Int /\ f[x] <= h[x],
         \A x \in DOMAIN h : h[x] \in Nat
  PROVE  SumFunction(f) <= SumFunction(h)
<1> DEFINE S == DOMAIN h
           low(T)  == [y \in T \cap DOMAIN f |-> f[y]]
           high(T) == [y \in T |-> h[y]]
           Q == {T \in SUBSET S : SumFunction(low(T)) <= SumFunction(high(T))}
<1>1. ASSUME NEW T \in SUBSET S
      PROVE  /\ IsFiniteSet(DOMAIN low(T)) /\ \A y \in DOMAIN low(T) : low(T)[y] \in Int
             /\ IsFiniteSet(DOMAIN high(T)) /\ \A y \in DOMAIN high(T) : high(T)[y] \in Int
  BY FS_Subset
<1>2. ASSUME NEW T \in SUBSET S
      PROVE  /\ SumFunction(low(T)) \in Int /\ SumFunction(high(T)) \in Int
             /\ \A x \in DOMAIN low(T) : SumFunction(low(T)) =
                  low(T)[x] + SumFunction([y \in DOMAIN low(T) \ {x} |-> low(T)[y]])
             /\ \A x \in DOMAIN high(T) : SumFunction(high(T)) =
                  high(T)[x] + SumFunction([y \in DOMAIN high(T) \ {x} |-> high(T)[y]])
  <2> DEFINE l == low(T)
             u == high(T)
  <2>1. /\ IsFiniteSet(DOMAIN l) /\ \A y \in DOMAIN l : l[y] \in Int
        /\ IsFiniteSet(DOMAIN u) /\ \A y \in DOMAIN u : u[y] \in Int
    BY <1>1
  <2> HIDE DEF l, u
  <2>2. /\ SumFunction(l) \in Int /\ SumFunction(u) \in Int
        /\ \A x \in DOMAIN l : SumFunction(l) = l[x] + SumFunction([y \in DOMAIN l \ {x} |-> l[y]])
        /\ \A x \in DOMAIN u : SumFunction(u) = u[x] + SumFunction([y \in DOMAIN u \ {x} |-> u[y]])
    BY <2>1, SumSplits
  <2> QED
    BY <2>2 DEF l, u
<1>3. ASSUME NEW T \in SUBSET S, \A U \in SUBSET T : U # T => U \in Q
      PROVE  T \in Q
  <2>1. CASE T = {}
    <3>1. DOMAIN low(T) = {} /\ DOMAIN high(T) = {}
      BY <2>1
    <3>2. SumFunction(low(T)) = 0 /\ SumFunction(high(T)) = 0
      BY <3>1, SumEmpty
    <3> QED
      BY <3>2
  <2>2. CASE T # {}
    <3>1. PICK x \in T : TRUE
      BY <2>2
    <3> DEFINE U == T \ {x}
    <3>2. U \in Q /\ U \in SUBSET S
      BY <1>3, <3>1
    <3>3. SumFunction(low(U)) <= SumFunction(high(U))
      BY <3>2
    <3>4. /\ SumFunction(low(U)) \in Int /\ SumFunction(high(U)) \in Int
          /\ SumFunction(low(T)) \in Int /\ SumFunction(high(T)) \in Int
      BY <1>2, <3>2
    <3>5. SumFunction(high(T)) = h[x] + SumFunction(high(U)) /\ h[x] \in Nat
      <4>1. [y \in DOMAIN high(T) \ {x} |-> high(T)[y]] = high(U) /\ high(T)[x] = h[x]
        BY <3>1
      <4>2. x \in DOMAIN high(T) /\ h[x] \in Nat
        BY <3>1
      <4>3. SumFunction(high(T)) =
              high(T)[x] + SumFunction([y \in DOMAIN high(T) \ {x} |-> high(T)[y]])
        BY ONLY <1>2, <4>2, T \in SUBSET S
      <4> HIDE DEF high, U
      <4> QED
        BY <4>1, <4>2, <4>3
    <3>6. CASE x \in DOMAIN f
      <4>1. [y \in DOMAIN low(T) \ {x} |-> low(T)[y]] = low(U) /\ low(T)[x] = f[x]
        <5>1. DOMAIN low(T) \ {x} = U \cap DOMAIN f
          BY <3>1
        <5> QED
          BY <3>1, <3>6, <5>1
      <4>2. x \in DOMAIN low(T)
        BY <3>1, <3>6
      <4>3. SumFunction(low(T)) =
              low(T)[x] + SumFunction([y \in DOMAIN low(T) \ {x} |-> low(T)[y]])
        BY ONLY <1>2, <4>2, T \in SUBSET S
      <4>4. f[x] \in Int /\ f[x] <= h[x]
        BY <3>6
      <4>5. SumFunction(low(T)) = f[x] + SumFunction(low(U)) /\ f[x] \in Int /\ f[x] <= h[x]
        <5> HIDE DEF low, U
        <5> QED
          BY <4>1, <4>3, <4>4
      <4> HIDE DEF low, high, U
      <4>6. SumFunction(low(T)) <= SumFunction(high(T))
        BY <3>3, <3>4, <3>5, <4>5
      <4> QED
        BY <4>6
    <3>7. CASE x \notin DOMAIN f
      <4>1. T \cap DOMAIN f = U \cap DOMAIN f
        BY <3>7
      <4>2. low(T) = low(U)
        BY <4>1
      <4> HIDE DEF low, high, U
      <4>3. SumFunction(low(T)) <= SumFunction(high(T))
        BY <3>3, <3>4, <3>5, <4>2
      <4> QED
        BY <4>3
    <3> QED
      BY <3>6, <3>7
  <2> QED
    BY <2>1, <2>2
<1>4. SUBSET S \subseteq Q
  <2> HIDE DEF Q
  <2> QED
    BY <1>3, SubsetInduction
<1>5. low(S) = f /\ high(S) = h
  <2>1. S \cap DOMAIN f = DOMAIN f
    OBVIOUS
  <2> QED
    BY <2>1
<1> QED
  BY <1>4, <1>5

\* A sum can be taken over other names: numbers without a name count zero.
LEMMA SumRenamed ==
  ASSUME NEW f, IsFiniteSet(DOMAIN f), f = [x \in DOMAIN f |-> f[x]],
         \A x \in DOMAIN f : f[x] \in Int,
         NEW h, IsFiniteSet(DOMAIN h), h = [y \in DOMAIN h |-> h[y]],
         NEW b, \A x \in DOMAIN f : b[x] \in DOMAIN h /\ h[b[x]] = f[x],
         \A x, z \in DOMAIN f : b[x] = b[z] => x = z,
         \A y \in DOMAIN h : (\A x \in DOMAIN f : b[x] # y) => h[y] = 0
  PROVE  SumFunction(h) = SumFunction(f)
<1> DEFINE S == DOMAIN f
           D == DOMAIN h
           named(T) == {b[x] : x \in T}
           part(T) == [y \in D |-> IF y \in named(T) THEN h[y] ELSE 0]
           rest(T) == [x \in T |-> f[x]]
           Q == {T \in SUBSET S : SumFunction(part(T)) = SumFunction(rest(T))}
<1>1. \A y \in D : h[y] \in Int
  <2> TAKE y \in D
  <2>1. CASE \E x \in S : b[x] = y
    BY <2>1
  <2>2. CASE \A x \in S : b[x] # y
    BY <2>2
  <2> QED
    BY <2>1, <2>2
<1>2. ASSUME NEW T \in SUBSET S, \A U \in SUBSET T : U # T => U \in Q
      PROVE  T \in Q
  <2>1. CASE T = {}
    <3>1. SumFunction(rest(T)) = 0
      BY <2>1, SumEmpty
    <3> DEFINE p == part(T)
    <3>2. DOMAIN p = D /\ p = [y \in DOMAIN p |-> p[y]] /\ \A y \in D : p[y] = 0
      BY <2>1
    <3>3. SumFunction(p) = 0
      <4> HIDE DEF p
      <4> QED
        BY <3>2, SumOfZeros
    <3> QED
      BY <3>1, <3>3
  <2>2. CASE T # {}
    <3>1. PICK x \in T : TRUE
      BY <2>2
    <3> DEFINE T1 == T \ {x}
               p == part(T)
               p1 == part(T1)
               r == rest(T)
    <3>2. SumFunction(p1) = SumFunction(rest(T1))
      BY <1>2, <3>1
    <3>3. b[x] \in D /\ h[b[x]] = f[x] /\ b[x] \notin named(T1) /\ named(T) = named(T1) \cup {b[x]}
      BY <3>1
    <3>4. /\ DOMAIN p = D /\ DOMAIN p1 = D /\ \A y \in D : p[y] \in Int /\ p1[y] \in Int
          /\ p[b[x]] = f[x] /\ p1[b[x]] = 0 /\ \A y \in D : y # b[x] => p[y] = p1[y]
      <4> HIDE DEF named
      <4> QED
        BY <1>1, <3>3
    <3>5. SumFunction(p) = SumFunction(p1) - p1[b[x]] + p[b[x]]
      <4> HIDE DEF p, p1, D
      <4>1. \A y \in DOMAIN p1 : p1[y] \in Int /\ p[y] \in Int
        BY <3>4
      <4>2. IsFiniteSet(DOMAIN p1) /\ DOMAIN p = DOMAIN p1 /\ b[x] \in DOMAIN p1
        BY <3>3, <3>4 DEF D
      <4>3. \A y \in DOMAIN p1 : y # b[x] => p[y] = p1[y]
        BY <3>4
      <4> QED
        BY <4>1, <4>2, <4>3, SumChanges
    <3>6. /\ IsFiniteSet(DOMAIN r) /\ x \in DOMAIN r /\ r[x] = f[x]
          /\ \A y \in DOMAIN r : r[y] \in Int
          /\ [y \in DOMAIN r \ {x} |-> r[y]] = rest(T1)
      BY <3>1, FS_Subset
    <3>7. SumFunction(r) = f[x] + SumFunction(rest(T1))
      <4> HIDE DEF r
      <4> QED
        BY <3>6, SumSplits
    <3>8. SumFunction(rest(T1)) \in Int /\ f[x] \in Int
      <4> DEFINE q == rest(T1)
      <4>1. IsFiniteSet(DOMAIN q) /\ \A y \in DOMAIN q : q[y] \in Int
        BY FS_Subset
      <4>2. SumFunction(q) \in Int
        <5> HIDE DEF q
        <5> QED
          BY <4>1, SumSplits
      <4> QED
        BY <4>2, <3>1
    <3> HIDE DEF p, p1, r, rest
    <3> QED
      BY <3>2, <3>4, <3>5, <3>7, <3>8 DEF p, r
  <2> QED
    BY <2>1, <2>2
<1>3. S \in Q
  <2>1. SUBSET S \subseteq Q
    <3> HIDE DEF Q
    <3> QED
      BY <1>2, SubsetInduction
  <2> QED
    BY <2>1
<1>4. rest(S) = f
  OBVIOUS
<1>5. part(S) = h
  <2>1. \A y \in D : part(S)[y] = h[y]
    OBVIOUS
  <2> QED
    BY <2>1
<1> QED
  BY <1>3, <1>4, <1>5

-----------------------------------------------------------------------------
(* Sequences *)

\* u has the elements of s and then those of t.
Joins(u, s, t) ==
  /\ Len(s) \in Nat /\ Len(t) \in Nat /\ Len(u) = Len(s) + Len(t)
  /\ \A i \in 1 .. Len(s) : u[i] = s[i]
  /\ \A i \in 1 .. Len(t) : u[Len(s) + i] = t[i]

\* What two sequences put together are.
LEMMA ConcatJoins ==
  ASSUME NEW S, NEW s \in Seq(S), NEW t \in Seq(S)
  PROVE  s \o t \in Seq(S) /\ Joins(s \o t, s, t)
<1>1. /\ s \o t \in Seq(S) /\ Len(s \o t) = Len(s) + Len(t)
      /\ Len(s) \in Nat /\ Len(t) \in Nat
      /\ \A i \in 1 .. Len(s) + Len(t) :
           (s \o t)[i] = IF i <= Len(s) THEN s[i] ELSE t[i - Len(s)]
  BY ConcatProperties, LenProperties
<1>2. /\ \A i \in 1 .. Len(s) : i \in 1 .. Len(s) + Len(t) /\ i <= Len(s)
      /\ \A i \in 1 .. Len(t) : /\ Len(s) + i \in 1 .. Len(s) + Len(t)
                                /\ ~ (Len(s) + i <= Len(s)) /\ (Len(s) + i) - Len(s) = i
  BY <1>1
<1> QED
  BY <1>1, <1>2 DEF Joins

\* The elements of a sequence name it.
LEMMA ElementsOfSeq ==
  ASSUME NEW S, NEW u \in Seq(S)
  PROVE  Len(u) \in Nat /\ DOMAIN u = 1 .. Len(u) /\ \A i \in 1 .. Len(u) : u[i] \in S
BY LenProperties, ElementOfSeq

\* A part that has the elements of t is t.
LEMMA PartIs ==
  ASSUME NEW S, NEW u \in Seq(S), NEW t \in Seq(S), NEW k \in Nat,
         k + Len(t) <= Len(u), \A i \in 1 .. Len(t) : u[k + i] = t[i]
  PROVE  SubSeq(u, k + 1, k + Len(t)) = t
<1> DEFINE m == k + 1
           n == k + Len(t)
<1>1. Len(t) \in Nat /\ Len(u) \in Nat /\ \A i \in 1 .. Len(u) : u[i] \in S
  BY ElementsOfSeq
<1>2. /\ m \in Int /\ n \in Int /\ n - m + 1 = Len(t)
      /\ Len(t) = IF m <= n THEN n - m + 1 ELSE 0
      /\ \A i \in m .. n : i \in 1 .. Len(u)
      /\ \A i \in 1 .. Len(t) : m + i - 1 = k + i
  BY <1>1
<1> HIDE DEF m, n
<1>3. /\ SubSeq(u, m, n) \in Seq(S) /\ Len(SubSeq(u, m, n)) = Len(t)
      /\ \A i \in 1 .. Len(t) : SubSeq(u, m, n)[i] = u[m + i - 1]
  BY <1>1, <1>2, SubSeqProperties
<1>4. \A i \in 1 .. Len(t) : SubSeq(u, m, n)[i] = t[i]
  BY <1>2, <1>3
<1>5. SubSeq(u, m, n) = t
  BY <1>3, <1>4, SeqEqual
<1> QED
  BY <1>5 DEF m, n

\* What is left of a sequence that is cut off.
LEMMA CutOff ==
  ASSUME NEW S, NEW u \in Seq(S), NEW k \in Nat, k <= Len(u)
  PROVE  /\ SubSeq(u, 1, k) \in Seq(S) /\ Len(SubSeq(u, 1, k)) = k
         /\ \A i \in 1 .. k : SubSeq(u, 1, k)[i] = u[i]
<1>1. Len(u) \in Nat /\ \A i \in 1 .. Len(u) : u[i] \in S
  BY ElementsOfSeq
<1>2. /\ \A i \in 1 .. k : i \in 1 .. Len(u) /\ 1 + i - 1 = i
      /\ k = (IF 1 <= k THEN k - 1 + 1 ELSE 0) /\ k - 1 + 1 = k /\ 1 \in Int /\ k \in Int
  BY <1>1
<1>3. /\ SubSeq(u, 1, k) \in Seq(S)
      /\ Len(SubSeq(u, 1, k)) = IF 1 <= k THEN k - 1 + 1 ELSE 0
      /\ \A i \in 1 .. k - 1 + 1 : SubSeq(u, 1, k)[i] = u[1 + i - 1]
  BY <1>1, <1>2, SubSeqProperties
<1> QED
  BY <1>2, <1>3
=============================================================================
