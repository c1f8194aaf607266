------------------------------ MODULE Inductions ------------------------------
(***************************************************************************)
(* Induction and recursion in a first-order form, for the proofs about the *)
(* functions of the models that are defined by recursion: induction over a *)
(* set of naturals instead of a predicate, recursion along a step that is  *)
(* itself a function.                                                      *)
(***************************************************************************)
EXTENDS Integers, Sequences, SequencesExt, FiniteSetTheorems, SequenceTheorems, TLAPS

(***************************************************************************)
(* A set that has zero, and with a number its successor, has them all.     *)
(***************************************************************************)
LEMMA Induction ==
  ASSUME NEW S, 0 \in S, \A n \in Nat : n \in S => n + 1 \in S
  PROVE  Nat \subseteq S
<1> DEFINE T == Nat \ S
           R == OpToRel(<, Nat)
<1> SUFFICES ASSUME T # {} PROVE FALSE
  OBVIOUS
<1>1. IsWellFoundedOn(R, Nat)
  BY NatLessThanWellFounded
<1>2. PICK x \in T : \A y \in T : ~ (<<y, x>> \in R)
  <2> HIDE DEF T, R
  <2> QED
    BY <1>1, WFMin DEF T
<1>3. \A y \in T : ~(y < x)
  BY <1>2 DEF OpToRel
<1>4. x \in Nat /\ x \notin S /\ x # 0
  OBVIOUS
<1>5. x - 1 \in Nat /\ x - 1 \in S
  BY <1>3, <1>4
<1>6. (x - 1) + 1 \in S
  BY <1>5
<1>7. (x - 1) + 1 = x
  BY <1>4
<1> QED
  BY <1>4, <1>6, <1>7

(***************************************************************************)
(* A number is in the set once all smaller ones are.                       *)
(***************************************************************************)
LEMMA StrongInduction ==
  ASSUME NEW S, \A n \in Nat : (\A m \in 0..n-1 : m \in S) => n \in S
  PROVE  Nat \subseteq S
<1> DEFINE T == {n \in Nat : \A m \in 0..n : m \in S}
<1>1. 0 \in T
  OBVIOUS
<1>2. ASSUME NEW n \in Nat, n \in T PROVE n + 1 \in T
  <2>1. n + 1 \in S
    BY <1>2
  <2> QED
    BY <1>2, <2>1
<1>3. Nat \subseteq T
  <2> HIDE DEF T
  <2> QED
    BY <1>1, <1>2, Induction
<1> QED
  BY <1>3

(***************************************************************************)
(* The least element of a set of naturals.                                 *)
(***************************************************************************)
LEMMA LeastElement ==
  ASSUME NEW S, S \subseteq Nat, S # {}
  PROVE  \E n \in S : \A m \in S : n <= m
<1> SUFFICES ASSUME \A n \in S : \E m \in S : m < n PROVE FALSE
  OBVIOUS
<1> DEFINE T == Nat \ S
<1>1. ASSUME NEW n \in Nat, \A m \in 0..n-1 : m \in T PROVE n \in T
  BY <1>1
<1>2. Nat \subseteq T
  <2> HIDE DEF T
  <2> QED
    BY <1>1, StrongInduction
<1> QED
  BY <1>2

(***************************************************************************)
(* Recursion over the naturals: a first value, and from each the next.     *)
(***************************************************************************)
Iterates(f, first, next) == f[0] = first /\ \A n \in Nat : f[n+1] = next[<<n, f[n]>>]

LEMMA NatRecursion ==
  ASSUME NEW V, NEW first \in V, NEW next \in [Nat \X V -> V]
  PROVE  \E f \in [Nat -> V] : Iterates(f, first, next)
<1> DEFINE Starts(n, g) == g \in [0..n -> V] /\ g[0] = first /\ \A i \in 0..n-1 : g[i+1] = next[<<i, g[i]>>]
           T == {n \in Nat : \E g \in [0..n -> V] : Starts(n, g)}
           pick(n) == CHOOSE g \in [0..n -> V] : Starts(n, g)
           f == [n \in Nat |-> pick(n)[n]]
<1>1. Nat \subseteq T
  <2>1. 0 \in T
    <3>1. Starts(0, [i \in 0..0 |-> first])
      OBVIOUS
    <3> QED
      BY <3>1
  <2>2. ASSUME NEW n \in Nat, n \in T PROVE n + 1 \in T
    <3>1. PICK g \in [0..n -> V] : Starts(n, g)
      BY <2>2
    <3> DEFINE h == [i \in 0..n+1 |-> IF i = n + 1 THEN next[<<n, g[n]>>] ELSE g[i]]
    <3>2. h \in [0..n+1 -> V]
      BY <3>1
    <3>3. h[0] = first
      BY <3>1
    <3>4. ASSUME NEW i \in 0..n+1-1 PROVE h[i+1] = next[<<i, h[i]>>]
      <4>1. CASE i = n
        <5>1. h[n + 1] = next[<<n, g[n]>>] /\ h[n] = g[n]
          OBVIOUS
        <5> QED
          BY <4>1, <5>1
      <4>2. CASE i # n
        <5>1. i \in 0..n-1 /\ i + 1 \in 0..n+1 /\ i \in 0..n+1 /\ i + 1 # n + 1 /\ i # n + 1
          BY <4>2
        <5>2. h[i+1] = g[i+1] /\ h[i] = g[i]
          BY <5>1
        <5> QED
          BY <3>1, <5>1, <5>2
      <4> QED
        BY <4>1, <4>2
    <3>5. Starts(n + 1, h)
      <4> HIDE DEF h
      <4> QED BY <3>2, <3>3, <3>4
    <3> QED
      <4> HIDE DEF h, Starts
      <4> QED
        BY <3>2, <3>5
  <2> HIDE DEF T
  <2> QED
    BY <2>1, <2>2, Induction
<1>2. ASSUME NEW n \in Nat PROVE pick(n) \in [0..n -> V] /\ Starts(n, pick(n))
  BY <1>1
<1>3. ASSUME NEW n \in Nat, NEW m \in Nat, NEW g, NEW h, Starts(n, g), Starts(m, h)
      PROVE  \A i \in Nat : i <= n /\ i <= m => g[i] = h[i]
  <2> DEFINE E == {i \in Nat : i <= n /\ i <= m => g[i] = h[i]}
  <2>1. 0 \in E
    BY <1>3
  <2>2. ASSUME NEW i \in Nat, i \in E PROVE i + 1 \in E
    <3>1. SUFFICES ASSUME i + 1 <= n, i + 1 <= m PROVE g[i+1] = h[i+1]
      OBVIOUS
    <3>2. g[i] = h[i]
      BY <2>2, <3>1
    <3>3. g[i+1] = next[<<i, g[i]>>] /\ h[i+1] = next[<<i, h[i]>>]
      BY <1>3, <3>1
    <3> QED
      BY <3>2, <3>3
  <2>3. Nat \subseteq E
    <3> HIDE DEF E
    <3> QED
      BY <2>1, <2>2, Induction
  <2> QED
    BY <2>3
<1>4. f \in [Nat -> V]
  <2>1. ASSUME NEW n \in Nat PROVE pick(n)[n] \in V
    <3> HIDE DEF pick
    <3> QED
      BY <1>2
  <2> HIDE DEF pick
  <2> QED
    BY <2>1
<1>5. f[0] = first
  <2> HIDE DEF pick
  <2> QED
    BY <1>2
<1>6. ASSUME NEW n \in Nat PROVE f[n+1] = next[<<n, f[n]>>]
  <2> HIDE DEF pick
  <2>1. pick(n+1)[n+1] = next[<<n, pick(n+1)[n]>>]
    BY <1>2
  <2>2. Starts(n, pick(n)) /\ Starts(n + 1, pick(n + 1))
    BY <1>2
  <2>3. pick(n+1)[n] = pick(n)[n]
    <3> HIDE DEF Starts
    <3> QED
      BY <1>3, <2>2
  <2> QED
    BY <2>1, <2>3
<1> QED
  <2> HIDE DEF f
  <2> QED
    BY <1>4, <1>5, <1>6 DEF Iterates
(***************************************************************************)
(* The functions of T to U, under a name the provers see through only      *)
(* where it is cited.                                                      *)
(***************************************************************************)
Codings(T, U) == [T -> U]

(***************************************************************************)
(* Recursion along a measure: the value at x may depend on the values at   *)
(* all arguments of a smaller measure.                                     *)
(***************************************************************************)
LEMMA MeasureRecursion ==
  ASSUME NEW S, NEW V, NEW v0 \in V, NEW mu \in Codings(S, Nat), NEW E \in Codings(S \X Codings(S, V), V),
         \A x \in S : \A g, h \in Codings(S, V) :
           (\A y \in S : mu[y] < mu[x] => g[y] = h[y]) => E[<<x, g>>] = E[<<x, h>>]
  PROVE  \E f \in Codings(S, V) : \A x \in S : f[x] = E[<<x, f>>]
<1> USE DEF Codings
<1> DEFINE next == [p \in Nat \X [S -> V] |-> [x \in S |-> E[<<x, p[2]>>]]]
           g0 == [x \in S |-> v0]
<1>1. next \in [Nat \X [S -> V] -> [S -> V]] /\ g0 \in [S -> V]
  OBVIOUS
<1>2. PICK G \in [Nat -> [S -> V]] : G[0] = g0 /\ \A n \in Nat : G[n+1] = next[<<n, G[n]>>]
  <2> DEFINE W == [S -> V]
  <2>1. g0 \in W
    BY <1>1
  <2>2. next \in [Nat \X W -> W]
    BY <1>1
  <2>3. \E G \in [Nat -> W] : Iterates(G, g0, next)
    <3> HIDE DEF next, g0, W
    <3> QED
      BY <2>1, <2>2, NatRecursion
  <2> HIDE DEF next, g0
  <2> QED
    BY <2>3 DEF Iterates
<1>3. ASSUME NEW n \in Nat PROVE G[n] \in [S -> V] /\ \A x \in S : G[n+1][x] = E[<<x, G[n]>>]
  <2>1. G[n+1] = [x \in S |-> E[<<x, G[n]>>]]
    BY <1>2
  <2> QED
    BY <2>1, <1>2
<1> DEFINE T == {n \in Nat : \A x \in S : mu[x] < n => G[n+1][x] = G[n][x]}
<1>4. Nat \subseteq T
  <2>1. 0 \in T
    OBVIOUS
  <2>2. ASSUME NEW n \in Nat, n \in T PROVE n + 1 \in T
    <3>1. SUFFICES ASSUME NEW x \in S, mu[x] < n + 1 PROVE G[n+1+1][x] = G[n+1][x]
      OBVIOUS
    <3>2. G[n+1+1][x] = E[<<x, G[n+1]>>] /\ G[n+1][x] = E[<<x, G[n]>>]
      <4>1. n + 1 \in Nat
        OBVIOUS
      <4> HIDE DEF next, g0
      <4> QED
        BY <1>3, <4>1
    <3>3. \A y \in S : mu[y] < mu[x] => G[n+1][y] = G[n][y]
      BY <2>2, <3>1
    <3>4. G[n+1] \in [S -> V] /\ G[n] \in [S -> V]
      BY <1>3
    <3> QED
      BY <3>2, <3>3, <3>4
  <2> HIDE DEF T
  <2> QED
    BY <2>1, <2>2, Induction
<1>5. ASSUME NEW x \in S, NEW m \in Nat, mu[x] < m PROVE G[m][x] = G[mu[x]+1][x]
  <2> DEFINE U == {d \in Nat : G[mu[x]+1+d][x] = G[mu[x]+1][x]}
  <2>1. 0 \in U
    OBVIOUS
  <2>2. ASSUME NEW d \in Nat, d \in U PROVE d + 1 \in U
    <3>1. mu[x]+1+d \in Nat /\ mu[x]+1+d \in T /\ mu[x] < mu[x]+1+d /\ mu[x]+1+(d+1) = mu[x]+1+d+1
      BY <1>4
    <3>2. G[mu[x]+1+d+1][x] = G[mu[x]+1+d][x]
      BY <3>1
    <3> QED
      BY <2>2, <3>1, <3>2
  <2>3. Nat \subseteq U
    <3> HIDE DEF U
    <3> QED
      BY <2>1, <2>2, Induction
  <2>4. m - mu[x] - 1 \in Nat /\ mu[x] + 1 + (m - mu[x] - 1) = m
    BY <1>5
  <2> QED
    BY <2>3, <2>4
<1> DEFINE f == [x \in S |-> G[mu[x]+1][x]]
<1>6. f \in [S -> V]
  BY <1>3
<1>7. ASSUME NEW x \in S PROVE f[x] = E[<<x, f>>]
  <2>1. f[x] = E[<<x, G[mu[x]]>>]
    BY <1>3
  <2>2. \A y \in S : mu[y] < mu[x] => f[y] = G[mu[x]][y]
    BY <1>5
  <2>3. G[mu[x]] \in [S -> V]
    BY <1>3
  <2> HIDE DEF f
  <2> QED
    BY <2>1, <2>2, <2>3, <1>6
<1> QED
  <2> HIDE DEF f
  <2> QED
    BY <1>6, <1>7
-----------------------------------------------------------------------------
(***************************************************************************)
(* What is reached from d along kids in as many steps as there are         *)
(* elements is closed under kids: a step that adds nothing is the last.    *)
(***************************************************************************)
LEMMA ClosureInSteps ==
  ASSUME NEW D, IsFiniteSet(D), NEW kids \in [D -> SUBSET D], NEW d \in D, NEW reach \in [Nat -> SUBSET D],
         reach[0] = {d},
         \A n \in Nat : reach[n+1] = reach[n] \cup UNION {kids[e] : e \in reach[n]}
  PROVE  \A e \in reach[Cardinality(D)] : kids[e] \subseteq reach[Cardinality(D)]
<1>0. Cardinality(D) \in Nat
  BY FS_CardinalityType
<1>1. ASSUME NEW n \in Nat PROVE IsFiniteSet(reach[n]) /\ Cardinality(reach[n]) \in Nat /\ Cardinality(reach[n]) <= Cardinality(D)
  BY FS_Subset, FS_CardinalityType
<1> DEFINE Grows(n) == reach[n+1] # reach[n]
           T == {n \in Nat : (\A m \in 0..n-1 : Grows(m)) => Cardinality(reach[n]) >= n + 1}
<1>2. Nat \subseteq T
  <2>1. 0 \in T
    BY FS_Singleton
  <2>2. ASSUME NEW n \in Nat, n \in T PROVE n + 1 \in T
    <3>1. SUFFICES ASSUME \A m \in 0..n : Grows(m) PROVE Cardinality(reach[n+1]) >= n + 2
      OBVIOUS
    <3>2. Cardinality(reach[n]) >= n + 1
      BY <2>2, <3>1
    <3>3. reach[n] \subseteq reach[n+1] /\ reach[n] # reach[n+1]
      BY <3>1
    <3>4. IsFiniteSet(reach[n+1]) /\ Cardinality(reach[n+1]) \in Nat
      BY <1>1
    <3>5. Cardinality(reach[n]) <= Cardinality(reach[n+1]) /\ Cardinality(reach[n]) # Cardinality(reach[n+1])
      BY <3>3, <3>4, FS_Subset
    <3> QED
      BY <3>2, <3>4, <3>5, <1>1
  <2> HIDE DEF T
  <2> QED
    BY <2>1, <2>2, Induction
<1>3. PICK n \in 0..Cardinality(D) : ~Grows(n)
  <2>1. SUFFICES ASSUME \A m \in 0..Cardinality(D) : Grows(m) PROVE FALSE
    OBVIOUS
  <2>2. Cardinality(D) + 1 \in T
    BY <1>0, <1>2
  <2>3. Cardinality(reach[Cardinality(D)+1]) >= Cardinality(D) + 2
    BY <1>0, <2>1, <2>2
  <2>4. Cardinality(reach[Cardinality(D)+1]) \in Nat /\ Cardinality(reach[Cardinality(D)+1]) <= Cardinality(D)
    BY <1>0, <1>1
  <2> QED
    BY <1>0, <2>3, <2>4
<1> DEFINE U == {m \in Nat : reach[n+m] = reach[n] /\ reach[n+m+1] = reach[n]}
<1>4. Nat \subseteq U
  <2>1. 0 \in U
    BY <1>3
  <2>2. ASSUME NEW m \in Nat, m \in U PROVE m + 1 \in U
    <3>1. n + m \in Nat /\ n + m + 1 \in Nat /\ n + (m + 1) = n + m + 1 /\ n + (m + 1) + 1 = n + m + 1 + 1
      OBVIOUS
    <3>2. reach[n+m+1+1] = reach[n+m+1] \cup UNION {kids[e] : e \in reach[n+m+1]}
      BY <3>1
    <3>3. reach[n+m+1] = reach[n+m] \cup UNION {kids[e] : e \in reach[n+m]}
      BY <3>1
    <3>4. reach[n+m+1+1] = reach[n]
      BY <2>2, <3>2, <3>3
    <3> QED
      BY <2>2, <3>1, <3>4
  <2> HIDE DEF U
  <2> QED
    BY <2>1, <2>2, Induction
<1>5. Cardinality(D) - n \in U /\ n + (Cardinality(D) - n) = Cardinality(D)
  BY <1>0, <1>4
<1>6. reach[Cardinality(D)+1] = reach[Cardinality(D)]
  BY <1>0, <1>5
<1>7. reach[Cardinality(D)+1] = reach[Cardinality(D)] \cup UNION {kids[e] : e \in reach[Cardinality(D)]}
  BY <1>0
<1> QED
  BY <1>6, <1>7

(***************************************************************************)
(* The steps of such a reach exist as a function.                          *)
(***************************************************************************)
StepsFrom(f, d, kids) ==
  f = [n \in Nat |-> IF n = 0 THEN {d} ELSE f[n-1] \cup UNION {kids[e] : e \in f[n-1]}]

LEMMA ReachExists ==
  ASSUME NEW D, NEW kids \in [D -> SUBSET D], NEW d \in D
  PROVE  \E f \in [Nat -> SUBSET D] : StepsFrom(f, d, kids)
<1> DEFINE V == SUBSET D
           next == [p \in Nat \X V |-> p[2] \cup UNION {kids[e] : e \in p[2]}]
           first == {d}
<1>1. first \in V
  OBVIOUS
<1>2. next \in [Nat \X V -> V]
  OBVIOUS
<1>3. PICK f \in [Nat -> V] : Iterates(f, first, next)
  <2> HIDE DEF V, first, next
  <2> QED
    BY <1>1, <1>2, NatRecursion
<1>4. ASSUME NEW n \in Nat PROVE f[n] = IF n = 0 THEN {d} ELSE f[n-1] \cup UNION {kids[e] : e \in f[n-1]}
  <2>1. CASE n = 0
    BY <1>3, <2>1 DEF Iterates
  <2>2. CASE n # 0
    <3>1. n - 1 \in Nat /\ n - 1 + 1 = n
      BY <2>2
    <3>2. f[n-1+1] = next[<<n-1, f[n-1]>>]
      BY <1>3, <3>1 DEF Iterates
    <3> QED
      BY <2>2, <3>1, <3>2
  <2> QED
    BY <2>1, <2>2
<1> QED
  BY <1>4 DEF StepsFrom

-----------------------------------------------------------------------------
(***************************************************************************)
(* A finite set as a sequence, and the elements of sequences that are      *)
(* built from others.                                                      *)
(***************************************************************************)
LEMMA SetToSeqFacts ==
  ASSUME NEW S, IsFiniteSet(S)
  PROVE  /\ SetToSeq(S) \in Seq(S) /\ IsInjective(SetToSeq(S)) /\ ToSet(SetToSeq(S)) = S
<1> DEFINE n == Cardinality(S)
           s == SetToSeq(S)
<1>1. n \in Nat /\ ExistsBijection(1..n, S)
  BY FS_CardinalityType
<1>2. \E f \in [1..n -> S] : IsInjective(f)
  BY <1>1 DEF ExistsBijection, Bijection, Injection
<1>3. s \in [1..n -> S] /\ IsInjective(s)
  BY <1>2 DEF SetToSeq
<1>4. s \in Injection(1..n, S)
  BY <1>3 DEF Injection
<1>5. Cardinality(1..n) = n /\ IsFiniteSet(1..n)
  BY <1>1, FS_Interval
<1>6. s \in Surjection(1..n, S)
  <2> HIDE DEF s, n
  <2> QED
    BY <1>4, <1>5, FS_Injection DEF n
<1>7. ToSet(s) = S
  <2> HIDE DEF s, n
  <2> QED
    BY <1>3, <1>6 DEF ToSet, Surjection
<1> QED
  BY <1>1, <1>3, <1>7

LEMMA ToSetFacts ==
  ASSUME NEW S, NEW s \in Seq(S)
  PROVE  /\ ToSet(s) \subseteq S /\ ToSet(s) = {s[i] : i \in 1..Len(s)} /\ Len(s) \in Nat
         /\ s # <<>> => Head(s) \in S /\ Tail(s) \in Seq(S) /\ ToSet(s) = {Head(s)} \cup ToSet(Tail(s))
<1>1. ToSet(s) \subseteq S /\ ToSet(s) = {s[i] : i \in 1..Len(s)} /\ Len(s) \in Nat
  BY DEF ToSet
<1>2. ASSUME s # <<>> PROVE Head(s) \in S /\ Tail(s) \in Seq(S) /\ ToSet(s) = {Head(s)} \cup ToSet(Tail(s))
  <2>1. Head(s) = s[1] /\ Head(s) \in S /\ Tail(s) \in Seq(S) /\ Len(Tail(s)) = Len(s) - 1 /\ Len(s) \in Nat \ {0}
    BY <1>2
  <2>2. \A i \in 1..Len(s)-1 : Tail(s)[i] = s[i+1]
    BY <1>2, <2>1
  <2>3. ToSet(Tail(s)) = {Tail(s)[i] : i \in 1..Len(s)-1}
    <3>1. DOMAIN Tail(s) = 1..Len(s)-1
      BY <2>1
    <3> QED
      BY <3>1 DEF ToSet
  <2>4. ASSUME NEW i \in 1..Len(s) PROVE s[i] \in {Head(s)} \cup ToSet(Tail(s))
    <3>1. CASE i = 1
      BY <3>1, <2>1
    <3>2. CASE i # 1
      <4>1. i - 1 \in 1..Len(s)-1 /\ (i - 1) + 1 = i
        BY <2>1, <3>2
      <4>2. s[i] = Tail(s)[i-1]
        BY <2>2, <4>1
      <4> QED
        BY <2>3, <4>1, <4>2
    <3> QED
      BY <3>1, <3>2
  <2>5. \A i \in 1..Len(s)-1 : Tail(s)[i] \in ToSet(s)
    <3> TAKE i \in 1..Len(s)-1
    <3>1. i + 1 \in 1..Len(s)
      BY <2>1
    <3> QED
      BY <1>1, <2>2, <3>1
  <2>6. Head(s) \in ToSet(s)
    <3>1. 1 \in 1..Len(s)
      BY <2>1
    <3> QED
      BY <1>1, <2>1, <3>1
  <2> QED
    BY <1>1, <2>1, <2>3, <2>4, <2>5, <2>6
<1> QED
  BY <1>1, <1>2

LEMMA AppendSet ==
  ASSUME NEW S, NEW s \in Seq(S), NEW x \in S
  PROVE  Append(s, x) \in Seq(S) /\ ToSet(Append(s, x)) = ToSet(s) \cup {x}
<1>1. Append(s, x) \in Seq(S) /\ Len(Append(s, x)) = Len(s) + 1 /\ Len(s) \in Nat
  OBVIOUS
<1>2. Append(s, x)[Len(s) + 1] = x /\ \A i \in 1..Len(s) : Append(s, x)[i] = s[i]
  OBVIOUS
<1>3. ToSet(Append(s, x)) = {Append(s, x)[i] : i \in 1..Len(s)+1} /\ ToSet(s) = {s[i] : i \in 1..Len(s)}
  BY <1>1 DEF ToSet
<1>4. \A i \in 1..Len(s)+1 : i = Len(s) + 1 \/ i \in 1..Len(s)
  BY <1>1
<1>5. Len(s) + 1 \in 1..Len(s)+1 /\ 1..Len(s) \subseteq 1..Len(s)+1
  BY <1>1
<1>6. ToSet(Append(s, x)) \subseteq ToSet(s) \cup {x}
  BY <1>2, <1>3, <1>4
<1>7. ToSet(s) \cup {x} \subseteq ToSet(Append(s, x))
  BY <1>2, <1>3, <1>5
<1> QED
  BY <1>1, <1>6, <1>7

LEMMA ConcatSet ==
  ASSUME NEW S, NEW s \in Seq(S), NEW t \in Seq(S)
  PROVE  s \o t \in Seq(S) /\ ToSet(s \o t) = ToSet(s) \cup ToSet(t)
<1>1. s \o t \in Seq(S) /\ Len(s \o t) = Len(s) + Len(t) /\ Len(s) \in Nat /\ Len(t) \in Nat
  OBVIOUS
<1>2. \A i \in 1..Len(s)+Len(t) : (s \o t)[i] = IF i <= Len(s) THEN s[i] ELSE t[i - Len(s)]
  OBVIOUS
<1>3. /\ ToSet(s \o t) = {(s \o t)[i] : i \in 1..Len(s)+Len(t)} /\ ToSet(s) = {s[i] : i \in 1..Len(s)}
      /\ ToSet(t) = {t[i] : i \in 1..Len(t)}
  BY <1>1 DEF ToSet
<1>4. ASSUME NEW i \in 1..Len(s)+Len(t) PROVE (s \o t)[i] \in ToSet(s) \cup ToSet(t)
  <2>1. CASE i <= Len(s)
    <3>1. i \in 1..Len(s)
      BY <2>1, <1>1
    <3> QED
      BY <1>2, <1>3, <2>1, <3>1
  <2>2. CASE ~(i <= Len(s))
    <3>1. i - Len(s) \in 1..Len(t)
      BY <2>2, <1>1
    <3> QED
      BY <1>2, <1>3, <2>2, <3>1
  <2> QED
    BY <2>1, <2>2
<1>5. ASSUME NEW i \in 1..Len(s) PROVE s[i] \in ToSet(s \o t)
  <2>1. i \in 1..Len(s)+Len(t) /\ i <= Len(s)
    BY <1>1
  <2>2. (s \o t)[i] = s[i]
    BY <1>2, <2>1
  <2> QED
    BY <1>3, <2>1, <2>2
<1>6. ASSUME NEW i \in 1..Len(t) PROVE t[i] \in ToSet(s \o t)
  <2>1. i + Len(s) \in 1..Len(s)+Len(t) /\ ~(i + Len(s) <= Len(s)) /\ i + Len(s) - Len(s) = i
    BY <1>1
  <2>2. (s \o t)[i + Len(s)] = t[i]
    BY <1>2, <2>1
  <2> QED
    BY <1>3, <2>1, <2>2
<1>7. ToSet(s \o t) \subseteq ToSet(s) \cup ToSet(t)
  BY <1>3, <1>4
<1>8. ToSet(s) \subseteq ToSet(s \o t)
  BY <1>3, <1>5
<1>9. ToSet(t) \subseteq ToSet(s \o t)
  BY <1>3, <1>6
<1> QED
  BY <1>1, <1>7, <1>8, <1>9

LEMMA ConcatInjective ==
  ASSUME NEW S, NEW s \in Seq(S), NEW t \in Seq(S), IsInjective(s), IsInjective(t), ToSet(s) \cap ToSet(t) = {}
  PROVE  IsInjective(s \o t)
<1>1. Len(s \o t) = Len(s) + Len(t) /\ Len(s) \in Nat /\ Len(t) \in Nat /\ DOMAIN (s \o t) = 1..Len(s)+Len(t)
  OBVIOUS
<1>2. /\ \A i \in 1..Len(s) : (s \o t)[i] = s[i]
      /\ \A i \in 1..Len(s)+Len(t) : ~(i <= Len(s)) => (s \o t)[i] = t[i - Len(s)]
  OBVIOUS
<1>3. SUFFICES ASSUME NEW a \in 1..Len(s)+Len(t), NEW b \in 1..Len(s)+Len(t), (s \o t)[a] = (s \o t)[b]
               PROVE  a = b
  BY <1>1 DEF IsInjective
<1>4. \A i \in 1..Len(s)+Len(t) : IF i <= Len(s) THEN i \in 1..Len(s) ELSE i - Len(s) \in 1..Len(t)
  BY <1>1
<1>5. (\A i \in 1..Len(s) : s[i] \in ToSet(s)) /\ (\A i \in 1..Len(t) : t[i] \in ToSet(t))
  BY DEF ToSet
<1>6. (\A i, j \in 1..Len(s) : s[i] = s[j] => i = j) /\ (\A i, j \in 1..Len(t) : t[i] = t[j] => i = j)
  BY DEF IsInjective
<1>7. CASE a <= Len(s) /\ b <= Len(s)
  BY <1>2, <1>3, <1>4, <1>6, <1>7
<1>8. CASE a <= Len(s) /\ ~(b <= Len(s))
  BY <1>2, <1>3, <1>4, <1>5, <1>8
<1>9. CASE ~(a <= Len(s)) /\ b <= Len(s)
  BY <1>2, <1>3, <1>4, <1>5, <1>9
<1>10. CASE ~(a <= Len(s)) /\ ~(b <= Len(s))
  <2>1. a - Len(s) = b - Len(s)
    BY <1>2, <1>3, <1>4, <1>6, <1>10
  <2> QED
    BY <1>1, <2>1
<1> QED
  BY <1>7, <1>8, <1>9, <1>10

(***************************************************************************)
(* A product that is bounded bounds its factor by the quotient.            *)
(***************************************************************************)
LEMMA DivBound ==
  ASSUME NEW a \in Nat, NEW b \in Nat \ {0}, NEW n \in Nat, a * b <= n
  PROVE  a <= n \div b
<1> DEFINE q == n \div b
<1>1. q \in Nat /\ n < q * b + b /\ q * b \in Nat
  OBVIOUS
<1>2. SUFFICES ASSUME a >= q + 1 PROVE FALSE
  BY <1>1
<1> DEFINE e == a - q - 1
<1>3. e \in Nat /\ a = q + 1 + e
  BY <1>1, <1>2
<1> HIDE DEF e, q
<1>4. a * b = q * b + b + e * b /\ e * b >= 0
  BY <1>1, <1>3
<1>5. e * b \in Int
  BY <1>3
<1> QED
  BY <1>1, <1>4, <1>5
(***************************************************************************)
(* Recursion that goes on at one smaller argument, or stops.               *)
(***************************************************************************)
Shrinks(S, mu, next, stop) == \A x \in S \ stop : mu[next[x]] < mu[x]

Runs(f, S, base, step, next, stop) ==
  \A x \in S : f[x] = IF x \in stop THEN base[x] ELSE step[<<x, f[next[x]]>>]

LEMMA TailRecursion ==
  ASSUME NEW S, NEW V, NEW v0 \in V, NEW mu \in Codings(S, Nat), NEW stop,
         NEW next \in Codings(S, S), NEW base \in Codings(S, V), NEW step \in Codings(S \X V, V),
         Shrinks(S, mu, next, stop)
  PROVE  \E f \in Codings(S, V) : Runs(f, S, base, step, next, stop)
<1>0. \A x \in S \ stop : mu[next[x]] < mu[x]
  BY DEF Shrinks
<1> DEFINE F == Codings(S, V)
           E == [a \in S \X F |-> IF a[1] \in stop THEN base[a[1]] ELSE step[<<a[1], a[2][next[a[1]]]>>]]
<1>1. ASSUME NEW x \in S, NEW g \in F
      PROVE  /\ E[<<x, g>>] = IF x \in stop THEN base[x] ELSE step[<<x, g[next[x]]>>]
             /\ E[<<x, g>>] \in V
  <2>1. E[<<x, g>>] = IF x \in stop THEN base[x] ELSE step[<<x, g[next[x]]>>]
    <3> HIDE DEF F
    <3> QED
      OBVIOUS
  <2>2. next[x] \in S /\ base[x] \in V
    BY DEF Codings
  <2>3. <<x, g[next[x]]>> \in S \X V
    BY <2>2 DEF Codings
  <2>4. step[<<x, g[next[x]]>>] \in V
    BY <2>3 DEF Codings
  <2> HIDE DEF E, F
  <2> QED
    BY <2>1, <2>2, <2>4
<1>2. E \in Codings(S \X F, V)
  <2>1. ASSUME NEW a \in S \X F
        PROVE  (IF a[1] \in stop THEN base[a[1]] ELSE step[<<a[1], a[2][next[a[1]]]>>]) \in V
    <3>1. a[1] \in S /\ a[2] \in F /\ a = <<a[1], a[2]>>
      OBVIOUS
    <3>2. E[a] \in V
      <4> HIDE DEF E, F
      <4> QED
        BY <3>1, <1>1
    <3>3. E[a] = IF a[1] \in stop THEN base[a[1]] ELSE step[<<a[1], a[2][next[a[1]]]>>]
      OBVIOUS
    <3> HIDE DEF E, F
    <3> QED
      BY <3>2, <3>3
  <2> HIDE DEF F
  <2> QED
    BY <2>1 DEF Codings
<1>3. ASSUME NEW x \in S, NEW g \in F, NEW k \in F, \A y \in S : mu[y] < mu[x] => g[y] = k[y]
      PROVE  E[<<x, g>>] = E[<<x, k>>]
  <2>1. CASE x \in stop
    <3> HIDE DEF E, F
    <3> QED
      BY <2>1, <1>1
  <2>2. CASE x \notin stop
    <3>1. next[x] \in S /\ mu[next[x]] < mu[x]
      BY <1>0, <2>2 DEF Codings
    <3>2. g[next[x]] = k[next[x]]
      BY <3>1, <1>3
    <3> HIDE DEF E, F
    <3>3. E[<<x, g>>] = step[<<x, g[next[x]]>>]
      BY <2>2, <1>1
    <3>4. E[<<x, k>>] = step[<<x, k[next[x]]>>]
      BY <2>2, <1>1
    <3> QED
      BY <3>2, <3>3, <3>4
  <2> QED
    BY <2>1, <2>2
<1>5. PICK f \in F : \A x \in S : f[x] = E[<<x, f>>]
  <2>1. \A x \in S : \A g, k \in F : (\A y \in S : mu[y] < mu[x] => g[y] = k[y]) => E[<<x, g>>] = E[<<x, k>>]
    <3> HIDE DEF E, F
    <3> QED
      BY <1>3
  <2> HIDE DEF E
  <2>2. \E f \in F : \A x \in S : f[x] = E[<<x, f>>]
    BY <1>2, <2>1, MeasureRecursion
  <2> QED
    BY <2>2
<1>6. \A x \in S : f[x] = IF x \in stop THEN base[x] ELSE step[<<x, f[next[x]]>>]
  <2> HIDE DEF E, F
  <2> QED
    BY <1>1, <1>5
<1> QED
  BY <1>5, <1>6 DEF Runs

LEMMA TailInduction ==
  ASSUME NEW S, NEW mu \in Codings(S, Nat), NEW stop, NEW next \in Codings(S, S), Shrinks(S, mu, next, stop),
         NEW G, stop \cap S \subseteq G, \A x \in S \ stop : next[x] \in G => x \in G
  PROVE  S \subseteq G
<1> DEFINE W == {n \in Nat : \A x \in S : mu[x] = n => x \in G}
<1>1. ASSUME NEW n \in Nat, \A m \in 0..n-1 : m \in W PROVE n \in W
  <2>1. SUFFICES ASSUME NEW x \in S, mu[x] = n PROVE x \in G
    OBVIOUS
  <2>2. CASE x \in stop
    BY <2>2
  <2>3. CASE x \notin stop
    <3>1. next[x] \in S /\ mu[next[x]] \in Nat /\ mu[next[x]] < n
      BY <2>1, <2>3 DEF Codings, Shrinks
    <3>2. mu[next[x]] \in 0..n-1
      BY <3>1
    <3>3. next[x] \in G
      BY <1>1, <3>1, <3>2
    <3> QED
      BY <2>3, <3>3
  <2> QED
    BY <2>2, <2>3
<1>2. Nat \subseteq W
  <2> HIDE DEF W
  <2> QED
    BY <1>1, StrongInduction
<1>3. \A x \in S : mu[x] \in Nat
  BY DEF Codings
<1> QED
  BY <1>2, <1>3

-----------------------------------------------------------------------------
(***************************************************************************)
(* Sequences made of sequences: FlattenSeq, step by step.                  *)
(***************************************************************************)
Flattens(f, ss) ==
  f[0] = <<>> /\ (\A n \in 0..Len(ss)-1 : f[n+1] = f[n] \o ss[n+1]) /\ FlattenSeq(ss) = f[Len(ss)]

LEMMA FlattenSteps ==
  ASSUME NEW T, NEW ss \in Seq(Seq(T))
  PROVE  \E f \in [Nat -> Seq(T)] : Flattens(f, ss)
<1> DEFINE V == Seq(T)
           next == [p \in Nat \X V |-> IF p[1] + 1 \in 1..Len(ss) THEN p[2] \o ss[p[1]+1] ELSE p[2]]
<1>1. <<>> \in V /\ Len(ss) \in Nat /\ \A n \in 1..Len(ss) : ss[n] \in V
  OBVIOUS
<1>2. next \in [Nat \X V -> V]
  <2>1. ASSUME NEW n \in Nat, NEW v \in V
        PROVE  (IF n + 1 \in 1..Len(ss) THEN v \o ss[n+1] ELSE v) \in V
    BY <1>1
  <2> QED
    BY <2>1
<1>3. PICK f \in [Nat -> V] : Iterates(f, <<>>, next)
  <2> HIDE DEF next, V
  <2> QED
    BY <1>1, <1>2, NatRecursion
<1>4. f[0] = <<>> /\ \A n \in Nat : f[n+1] = next[<<n, f[n]>>]
  BY <1>3 DEF Iterates
<1>5. ASSUME NEW n \in 0..Len(ss)-1 PROVE f[n+1] = f[n] \o ss[n+1]
  <2>1. n \in Nat /\ n + 1 \in 1..Len(ss) /\ f[n] \in V
    BY <1>1
  <2>2. f[n+1] = next[<<n, f[n]>>]
    <3> HIDE DEF next
    <3> QED
      BY <1>4, <2>1
  <2> QED
    BY <2>1, <2>2
<1>6. FlattenSeq(ss) = f[Len(ss)]
  <2>1. CASE Len(ss) = 0
    <3>1. ss = <<>> /\ FlattenSeq(ss) = ss
      BY <2>1 DEF FlattenSeq
    <3> QED
      BY <1>4, <2>1, <3>1
  <2>2. CASE Len(ss) # 0
    <3> DEFINE Eq(g) == g = [i \in 1..Len(ss) |-> IF i = 1 THEN ss[i] ELSE g[i-1] \o ss[i]]
               h == [i \in 1..Len(ss) |-> f[i]]
               flatten == CHOOSE g : Eq(g)
    <3>1. Eq(h)
      <4>1. ASSUME NEW i \in 1..Len(ss) PROVE f[i] = IF i = 1 THEN ss[i] ELSE h[i-1] \o ss[i]
        <5>1. CASE i = 1
          <6>1. 0 \in 0..Len(ss)-1 /\ 0 + 1 = i /\ ss[i] \in Seq(T)
            BY <1>1, <5>1
          <6>2. f[i] = <<>> \o ss[i]
            BY <1>4, <1>5, <6>1
          <6> QED
            BY <6>1, <6>2, <5>1
        <5>2. CASE i # 1
          <6>1. i - 1 \in 1..Len(ss)
            BY <5>2, <1>1
          <6>2. h[i-1] = f[i-1]
            BY <6>1
          <6>3. i - 1 \in 0..Len(ss)-1 /\ i - 1 + 1 = i
            BY <6>1, <1>1
          <6>4. f[i] = f[i-1] \o ss[i]
            BY <1>5, <6>3
          <6> QED
            BY <5>2, <6>2, <6>4
        <5> QED
          BY <5>1, <5>2
      <4> QED
        BY <4>1
    <3>2. Eq(flatten)
      BY <3>1
    <3>3. FlattenSeq(ss) = flatten[Len(ss)]
      BY <2>2 DEF FlattenSeq
    <3> HIDE DEF flatten, h
    <3> DEFINE S == {n \in Nat : n + 1 \in 1..Len(ss) => flatten[n+1] = f[n+1]}
    <3>4. 0 \in S
      <4>1. ASSUME 1 \in 1..Len(ss) PROVE flatten[1] = f[1]
        <5>1. flatten[1] = ss[1]
          BY <3>2, <4>1
        <5>2. 0 \in 0..Len(ss)-1 /\ 0 + 1 = 1 /\ ss[1] \in Seq(T)
          BY <1>1, <4>1
        <5>3. f[1] = <<>> \o ss[1]
          BY <1>4, <1>5, <5>2
        <5> QED
          BY <5>1, <5>2, <5>3
      <4> QED
        BY <4>1
    <3>5. ASSUME NEW n \in Nat, n \in S PROVE n + 1 \in S
      <4>1. SUFFICES ASSUME n + 1 + 1 \in 1..Len(ss) PROVE flatten[n+1+1] = f[n+1+1]
        OBVIOUS
      <4>2. n + 1 \in 1..Len(ss) /\ n + 1 + 1 # 1 /\ n + 1 + 1 - 1 = n + 1
        BY <4>1
      <4>3. ASSUME NEW m \in 1..Len(ss), m # 1 PROVE flatten[m] = flatten[m-1] \o ss[m]
        BY <3>2, <4>3
      <4>4. ASSUME NEW m, m = n + 1 + 1 PROVE flatten[m] = f[m]
        <5>1. m \in 1..Len(ss) /\ m # 1 /\ m - 1 = n + 1
          BY <4>1, <4>2, <4>4
        <5>2. flatten[m] = flatten[n+1] \o ss[m]
          BY <4>3, <5>1
        <5>3. n + 1 \in 0..Len(ss)-1
          BY <4>1, <1>1
        <5>4. f[m] = f[n+1] \o ss[m]
          BY <1>5, <5>3, <4>4
        <5> QED
          BY <3>5, <4>2, <5>2, <5>4
      <4> QED
        BY <4>4
    <3>6. Nat \subseteq S
      <4> HIDE DEF S
      <4> QED
        BY <3>4, <3>5, Induction
    <3>7. Len(ss) - 1 \in Nat /\ Len(ss) - 1 + 1 \in 1..Len(ss) /\ Len(ss) - 1 + 1 = Len(ss)
      BY <2>2, <1>1
    <3> QED
      BY <3>3, <3>6, <3>7
  <2> QED
    BY <2>1, <2>2
<1> QED
  BY <1>4, <1>5, <1>6 DEF Flattens

LEMMA FlattenType ==
  ASSUME NEW T, NEW ss \in Seq(Seq(T))
  PROVE  FlattenSeq(ss) \in Seq(T)
<1>1. PICK f \in [Nat -> Seq(T)] : Flattens(f, ss)
  BY FlattenSteps
<1> QED
  BY <1>1 DEF Flattens

LEMMA FlattenEmpty == FlattenSeq(<<>>) = <<>>
BY DEF FlattenSeq

(***************************************************************************)
(* One more sequence at the end.                                           *)
(***************************************************************************)
LEMMA FlattenAppend ==
  ASSUME NEW T, NEW ss \in Seq(Seq(T)), NEW s \in Seq(T)
  PROVE  FlattenSeq(Append(ss, s)) = FlattenSeq(ss) \o s
<1> DEFINE tt == Append(ss, s)
<1>1. tt \in Seq(Seq(T)) /\ Len(tt) = Len(ss) + 1 /\ Len(ss) \in Nat /\ tt[Len(ss)+1] = s
      /\ \A n \in 1..Len(ss) : tt[n] = ss[n]
  OBVIOUS
<1> HIDE DEF tt
<1>2. PICK f \in [Nat -> Seq(T)] : Flattens(f, ss)
  BY FlattenSteps
<1>3. PICK g \in [Nat -> Seq(T)] : Flattens(g, tt)
  BY <1>1, FlattenSteps
<1> DEFINE S == {n \in Nat : n \in 0..Len(ss) => g[n] = f[n]}
<1>4. 0 \in S
  BY <1>2, <1>3 DEF Flattens
<1>5. ASSUME NEW n \in Nat, n \in S PROVE n + 1 \in S
  <2>1. SUFFICES ASSUME n + 1 \in 0..Len(ss) PROVE g[n+1] = f[n+1]
    OBVIOUS
  <2>2. n + 1 \in 1..Len(ss) /\ n + 1 \in 1..Len(tt) /\ n + 1 - 1 = n /\ n \in 0..Len(ss)
    BY <1>1, <2>1
  <2>3. n \in 0..Len(ss)-1 /\ n \in 0..Len(tt)-1
    BY <1>1, <2>1
  <2>4. g[n+1] = g[n] \o tt[n+1] /\ f[n+1] = f[n] \o ss[n+1]
    BY <1>2, <1>3, <2>3 DEF Flattens
  <2> QED
    BY <1>1, <1>5, <2>2, <2>4
<1>6. Nat \subseteq S
  <2> HIDE DEF S
  <2> QED
    BY <1>4, <1>5, Induction
<1>7. g[Len(ss)] = f[Len(ss)]
  BY <1>1, <1>6
<1>8. Len(ss) \in 0..Len(tt)-1
  BY <1>1
<1>9. FlattenSeq(tt) = g[Len(ss)] \o s
  BY <1>1, <1>3, <1>8 DEF Flattens
<1> QED
  BY <1>2, <1>7, <1>9 DEF Flattens, tt

LEMMA FlattenOne ==
  ASSUME NEW T, NEW s \in Seq(T)
  PROVE  FlattenSeq(<<s>>) = s
<1>1. <<s>> = Append(<<>>, s) /\ <<>> \in Seq(Seq(T)) /\ <<>> \o s = s
  OBVIOUS
<1> QED
  BY <1>1, FlattenAppend, FlattenEmpty

(***************************************************************************)
(* Induction over sequences: a set that has the empty sequence and with a  *)
(* sequence every longer one has them all.                                 *)
(***************************************************************************)
LEMMA SeqInduction ==
  ASSUME NEW T, NEW S, <<>> \in S, \A s \in Seq(T), x \in T : s \in S => Append(s, x) \in S
  PROVE  Seq(T) \subseteq S
<1> DEFINE N == {n \in Nat : \A s \in Seq(T) : Len(s) = n => s \in S}
<1>1. 0 \in N
  OBVIOUS
<1>2. ASSUME NEW n \in Nat, n \in N PROVE n + 1 \in N
  <2>1. SUFFICES ASSUME NEW s \in Seq(T), Len(s) = n + 1 PROVE s \in S
    OBVIOUS
  <2> DEFINE front == SubSeq(s, 1, n)
  <2>2. front \in Seq(T) /\ Len(front) = n /\ s[n+1] \in T
    BY <2>1
  <2>3. s = Append(front, s[n+1])
    BY <2>1
  <2> HIDE DEF front
  <2> QED
    BY <1>2, <2>2, <2>3
<1>3. Nat \subseteq N
  <2> HIDE DEF N
  <2> QED
    BY <1>1, <1>2, Induction
<1> QED
  BY <1>3

LEMMA FlattenConcat ==
  ASSUME NEW T, NEW ss \in Seq(Seq(T)), NEW tt \in Seq(Seq(T))
  PROVE  FlattenSeq(ss \o tt) = FlattenSeq(ss) \o FlattenSeq(tt)
<1> DEFINE S == {t \in Seq(Seq(T)) : FlattenSeq(ss \o t) = FlattenSeq(ss) \o FlattenSeq(t)}
<1>1. <<>> \in S
  BY FlattenEmpty, FlattenType
<1>2. ASSUME NEW t \in Seq(Seq(T)), NEW x \in Seq(T), t \in S PROVE Append(t, x) \in S
  <2>1. ss \o Append(t, x) = Append(ss \o t, x) /\ ss \o t \in Seq(Seq(T)) /\ Append(t, x) \in Seq(Seq(T))
    OBVIOUS
  <2>2. FlattenSeq(Append(ss \o t, x)) = FlattenSeq(ss \o t) \o x
    BY <2>1, FlattenAppend
  <2>3. FlattenSeq(Append(t, x)) = FlattenSeq(t) \o x
    BY FlattenAppend
  <2>4. FlattenSeq(ss) \in Seq(T) /\ FlattenSeq(t) \in Seq(T)
    BY FlattenType
  <2>5. (FlattenSeq(ss) \o FlattenSeq(t)) \o x = FlattenSeq(ss) \o (FlattenSeq(t) \o x)
    <3> DEFINE a == FlattenSeq(ss)
               b == FlattenSeq(t)
    <3>1. a \in Seq(T) /\ b \in Seq(T) /\ x \in Seq(T)
      BY <2>4
    <3> HIDE DEF a, b
    <3>2. (a \o b) \o x = a \o (b \o x)
      BY <3>1, ConcatAssociative
    <3> QED
      BY <3>2 DEF a, b
  <2> QED
    BY <1>2, <2>1, <2>2, <2>3, <2>5
<1>3. Seq(Seq(T)) \subseteq S
  <2> HIDE DEF S
  <2> QED
    BY <1>1, <1>2, SeqInduction
<1> QED
  BY <1>3

LEMMA FlattenHead ==
  ASSUME NEW T, NEW ss \in Seq(Seq(T)), ss # <<>>
  PROVE  FlattenSeq(ss) = Head(ss) \o FlattenSeq(Tail(ss))
<1>1. ss = <<Head(ss)>> \o Tail(ss) /\ Head(ss) \in Seq(T) /\ Tail(ss) \in Seq(Seq(T)) /\ <<Head(ss)>> \in Seq(Seq(T))
  OBVIOUS
<1>2. FlattenSeq(<<Head(ss)>> \o Tail(ss)) = FlattenSeq(<<Head(ss)>>) \o FlattenSeq(Tail(ss))
  BY <1>1, FlattenConcat
<1>3. FlattenSeq(<<Head(ss)>>) = Head(ss)
  BY <1>1, FlattenOne
<1> QED
  BY <1>1, <1>2, <1>3

-----------------------------------------------------------------------------
(***************************************************************************)
(* A sequence letter by letter: what h makes of each, one after the other. *)
(***************************************************************************)
Mapped(h, p) == [i \in DOMAIN p |-> h[p[i]]]
Coded(h, p) == FlattenSeq(Mapped(h, p))

LEMMA MapSeq ==
  ASSUME NEW T, NEW U, NEW h \in Codings(T, U), NEW p \in Seq(T)
  PROVE  Mapped(h, p) \in Seq(U) /\ Len(Mapped(h, p)) = Len(p) /\ \A i \in 1..Len(p) : Mapped(h, p)[i] = h[p[i]]
<1>1. Mapped(h, p) \in Seq(U)
  BY DEF Mapped, Codings
<1>2. Len(p) \in Nat /\ DOMAIN p = 1..Len(p) /\ DOMAIN Mapped(h, p) = 1..Len(p)
  BY DEF Mapped
<1>3. Len(Mapped(h, p)) = Len(p)
  BY <1>1, <1>2
<1> QED
  BY <1>1, <1>2, <1>3 DEF Mapped

LEMMA CodedType ==
  ASSUME NEW T, NEW h \in Codings(T, Seq(T)), NEW p \in Seq(T)
  PROVE  Coded(h, p) \in Seq(T)
<1>1. Mapped(h, p) \in Seq(Seq(T))
  BY MapSeq
<1> QED
  BY <1>1, FlattenType DEF Coded

LEMMA CodedEmpty == ASSUME NEW h PROVE Coded(h, <<>>) = <<>>
<1>1. Mapped(h, <<>>) = <<>>
  BY DEF Mapped
<1> QED
  BY <1>1, FlattenEmpty DEF Coded

LEMMA MapOne == ASSUME NEW T, NEW U, NEW h \in Codings(T, U), NEW c \in T PROVE Mapped(h, <<c>>) = <<h[c]>>
BY DEF Mapped, Codings

LEMMA CodedOne == ASSUME NEW T, NEW h \in Codings(T, Seq(T)), NEW c \in T PROVE Coded(h, <<c>>) = h[c]
<1>1. Mapped(h, <<c>>) = <<h[c]>>
  BY MapOne
<1>2. h[c] \in Seq(T)
  BY DEF Codings
<1> QED
  BY <1>1, <1>2, FlattenOne DEF Coded

LEMMA MapConcat ==
  ASSUME NEW T, NEW U, NEW h \in Codings(T, U), NEW p \in Seq(T), NEW q \in Seq(T)
  PROVE  Mapped(h, p \o q) = Mapped(h, p) \o Mapped(h, q)
<1> DEFINE a == Mapped(h, p)
           b == Mapped(h, q)
           c == Mapped(h, p \o q)
<1>1. /\ p \o q \in Seq(T) /\ Len(p \o q) = Len(p) + Len(q) /\ Len(p) \in Nat /\ Len(q) \in Nat
      /\ \A i \in 1..Len(p)+Len(q) : (p \o q)[i] = IF i <= Len(p) THEN p[i] ELSE q[i - Len(p)]
  BY ConcatProperties
<1>2. /\ a \in Seq(U) /\ Len(a) = Len(p) /\ \A i \in 1..Len(p) : a[i] = h[p[i]]
      /\ b \in Seq(U) /\ Len(b) = Len(q) /\ \A i \in 1..Len(q) : b[i] = h[q[i]]
  BY MapSeq
<1>c. c \in Seq(U) /\ Len(c) = Len(p) + Len(q) /\ \A i \in 1..Len(p)+Len(q) : c[i] = h[(p \o q)[i]]
  <2> DEFINE r == p \o q
  <2>1. r \in Seq(T) /\ Len(r) = Len(p) + Len(q)
    BY <1>1
  <2> HIDE DEF r
  <2>2. Mapped(h, r) \in Seq(U) /\ Len(Mapped(h, r)) = Len(r) /\ \A i \in 1..Len(r) : Mapped(h, r)[i] = h[r[i]]
    BY <2>1, MapSeq
  <2> QED
    BY <2>1, <2>2 DEF r, c
<1> HIDE DEF a, b, c
<1>3. /\ a \o b \in Seq(U) /\ Len(a \o b) = Len(p) + Len(q)
      /\ \A i \in 1..Len(p)+Len(q) : (a \o b)[i] = IF i <= Len(p) THEN a[i] ELSE b[i - Len(p)]
  <2>1. /\ a \o b \in Seq(U) /\ Len(a \o b) = Len(a) + Len(b)
        /\ \A i \in 1..Len(a)+Len(b) : (a \o b)[i] = IF i <= Len(a) THEN a[i] ELSE b[i - Len(a)]
    <3>1. a \in Seq(U) /\ b \in Seq(U)
      BY <1>2
    <3> QED
      BY <3>1, ConcatProperties
  <2>2. Len(a) = Len(p) /\ Len(b) = Len(q)
    BY <1>2
  <2> QED
    BY <2>1, <2>2
<1>4. ASSUME NEW i \in 1..Len(c) PROVE c[i] = (a \o b)[i]
  <2>1. i \in 1..Len(p)+Len(q)
    BY <1>c
  <2>2. CASE i <= Len(p)
    <3>1. i \in 1..Len(p)
      BY <2>1, <2>2, <1>1
    <3>2. c[i] = h[(p \o q)[i]] /\ (p \o q)[i] = p[i]
      BY <1>1, <1>c, <2>1, <2>2
    <3>3. (a \o b)[i] = a[i]
      BY <1>3, <2>1, <2>2
    <3>4. a[i] = h[p[i]]
      BY <1>2, <3>1
    <3> QED
      BY <3>2, <3>3, <3>4
  <2>3. CASE ~(i <= Len(p))
    <3>1. i - Len(p) \in 1..Len(q)
      BY <2>1, <2>3, <1>1
    <3> QED
      <4>1. (p \o q)[i] = q[i - Len(p)] /\ (a \o b)[i] = b[i - Len(p)]
        BY <1>1, <1>3, <2>1, <2>3
      <4>2. b[i - Len(p)] = h[q[i - Len(p)]]
        BY <1>2, <3>1
      <4>3. c[i] = h[(p \o q)[i]]
        BY <1>c, <2>1
      <4> QED
        BY <4>1, <4>2, <4>3
  <2> QED
    BY <2>2, <2>3
<1>5. c = a \o b
  BY <1>c, <1>3, <1>4, SeqEqual
<1> QED
  BY <1>5 DEF a, b, c

LEMMA CodedConcat ==
  ASSUME NEW T, NEW h \in Codings(T, Seq(T)), NEW p \in Seq(T), NEW q \in Seq(T)
  PROVE  Coded(h, p \o q) = Coded(h, p) \o Coded(h, q)
<1>1. Mapped(h, p \o q) = Mapped(h, p) \o Mapped(h, q)
  BY MapConcat
<1>2. Mapped(h, p) \in Seq(Seq(T)) /\ Mapped(h, q) \in Seq(Seq(T))
  BY MapSeq
<1>3. FlattenSeq(Mapped(h, p) \o Mapped(h, q)) = FlattenSeq(Mapped(h, p)) \o FlattenSeq(Mapped(h, q))
  BY <1>2, FlattenConcat
<1> QED
  BY <1>1, <1>3 DEF Coded

LEMMA CodedAppend ==
  ASSUME NEW T, NEW h \in Codings(T, Seq(T)), NEW p \in Seq(T), NEW c \in T
  PROVE  Coded(h, Append(p, c)) = Coded(h, p) \o h[c]
<1>1. Append(p, c) = p \o <<c>> /\ <<c>> \in Seq(T)
  OBVIOUS
<1>2. Coded(h, p \o <<c>>) = Coded(h, p) \o Coded(h, <<c>>)
  BY <1>1, CodedConcat
<1> QED
  BY <1>1, <1>2, CodedOne

(***************************************************************************)
(* A first coding that the second one does not see.                        *)
(***************************************************************************)
LEMMA CodedTwice ==
  ASSUME NEW T, NEW g \in Codings(T, Seq(T)), NEW h \in Codings(T, Seq(T)), \A c \in T : Coded(h, g[c]) = h[c], NEW p \in Seq(T)
  PROVE  Coded(h, Coded(g, p)) = Coded(h, p)
<1> DEFINE S == {t \in Seq(T) : Coded(h, Coded(g, t)) = Coded(h, t)}
<1>1. <<>> \in S
  BY CodedEmpty
<1>2. ASSUME NEW t \in Seq(T), NEW c \in T, t \in S PROVE Append(t, c) \in S
  <2>a. Coded(g, t) \in Seq(T)
    BY CodedType
  <2>1. Append(t, c) \in Seq(T) /\ g[c] \in Seq(T) /\ Coded(g, t) \in Seq(T)
    BY <2>a DEF Codings
  <2>2. Coded(g, Append(t, c)) = Coded(g, t) \o g[c]
    BY CodedAppend
  <2>3. Coded(h, Coded(g, t) \o g[c]) = Coded(h, Coded(g, t)) \o Coded(h, g[c])
    BY <2>1, CodedConcat
  <2>4. Coded(h, Append(t, c)) = Coded(h, t) \o h[c]
    BY CodedAppend
  <2> QED
    BY <1>2, <2>1, <2>2, <2>3, <2>4
<1>3. Seq(T) \subseteq S
  <2> HIDE DEF S
  <2> QED
    BY <1>1, <1>2, SeqInduction
<1> QED
  BY <1>3

(***************************************************************************)
(* Recursion that counts up to a limit.                                    *)
(***************************************************************************)
Counts(f, N, v0, next) == f[0] = v0 /\ \A n \in 1..N : f[n] = next[<<n, f[n-1]>>]

LEMMA CountRecursion ==
  ASSUME NEW N \in Nat, NEW V, NEW v0 \in V, NEW next \in Codings((1..N) \X V, V)
  PROVE  \E f \in Codings(0..N, V) : Counts(f, N, v0, next)
<1> DEFINE on == [p \in Nat \X V |-> IF p[1] + 1 \in 1..N THEN next[<<p[1] + 1, p[2]>>] ELSE v0]
<1>1. on \in [Nat \X V -> V]
  <2>1. ASSUME NEW p \in Nat \X V PROVE (IF p[1] + 1 \in 1..N THEN next[<<p[1] + 1, p[2]>>] ELSE v0) \in V
    <3>1. p[1] \in Nat /\ p[2] \in V
      OBVIOUS
    <3>2. p[1] + 1 \in 1..N => next[<<p[1] + 1, p[2]>>] \in V
      <4> SUFFICES ASSUME p[1] + 1 \in 1..N PROVE next[<<p[1] + 1, p[2]>>] \in V
        OBVIOUS
      <4>1. <<p[1] + 1, p[2]>> \in (1..N) \X V
        BY <3>1
      <4> QED
        BY <4>1 DEF Codings
    <3> QED
      BY <3>2
  <2> QED
    BY <2>1
<1>2. \A n \in Nat, v \in V : n + 1 \in 1..N => on[<<n, v>>] = next[<<n + 1, v>>]
  OBVIOUS
<1> HIDE DEF on
<1>3. PICK g \in [Nat -> V] : Iterates(g, v0, on)
  BY <1>1, NatRecursion
<1> DEFINE f == [n \in 0..N |-> g[n]]
<1>4. f \in Codings(0..N, V)
  BY DEF Codings
<1>5. f[0] = v0
  BY <1>3 DEF Iterates
<1>6. ASSUME NEW n \in 1..N PROVE f[n] = next[<<n, f[n-1]>>]
  <2>1. n - 1 \in Nat /\ (n - 1) + 1 = n /\ n - 1 \in 0..N /\ n \in 0..N
    OBVIOUS
  <2>2. g[(n - 1) + 1] = on[<<n - 1, g[n - 1]>>]
    BY <1>3, <2>1 DEF Iterates
  <2>3. on[<<n - 1, g[n - 1]>>] = next[<<(n - 1) + 1, g[n - 1]>>]
    BY <1>2, <2>1
  <2> QED
    BY <2>1, <2>2, <2>3
<1> HIDE DEF f
<1>7. Counts(f, N, v0, next)
  BY <1>5, <1>6 DEF Counts
<1> QED
  BY <1>4, <1>7

=============================================================================
