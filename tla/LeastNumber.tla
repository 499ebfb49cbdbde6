---------------------------- MODULE LeastNumber ----------------------------
(***************************************************************************)
(* Facts about natural numbers, finite sets and recursion that the proofs  *)
(* about lists, loops and counters share.                                  *)
(***************************************************************************)
EXTENDS Integers, FiniteSetTheorems, WellFoundedInduction, TLAPS

\* A nonempty set of natural numbers has a least element.  This is how the
\* proofs of the project reason by induction: the least counterexample along
\* a list, a walk or a loop has a predecessor that is none.
LEMMA LeastNat ==
    ASSUME NEW T \in SUBSET Nat, T # {}
    PROVE  \E m \in T : \A n \in T : m <= n
<1> DEFINE F == {0 .. n : n \in T}
<1>1. F \subseteq FiniteSubsetsOf(Nat)
  <2>1. \A n \in T : IsFiniteSet(0 .. n)
    BY FS_Interval
  <2> QED BY <2>1 DEF FiniteSubsetsOf
<1>2. F # {}
  BY Zenon
<1>3. IsWellFoundedOn(StrictSubsetOrdering(Nat), FiniteSubsetsOf(Nat))
  BY FS_StrictSubsetOrderingWellFounded
<1>4. PICK x \in F : \A y \in F : ~ (<<y, x>> \in StrictSubsetOrdering(Nat))
  <2> HIDE DEF F
  <2> QED BY <1>1, <1>2, <1>3, WFMin, Zenon
<1>5. PICK m \in T : x = 0 .. m
  OBVIOUS
<1>6. ASSUME NEW n \in T, ~ (m <= n) PROVE FALSE
  <2>1. 0 .. n \in F
    OBVIOUS
  <2>2. <<0 .. n, 0 .. m>> \in StrictSubsetOrdering(Nat)
    BY <1>6 DEF StrictSubsetOrdering
  <2> QED BY <2>1, <2>2, <1>4, <1>5, Zenon
<1> QED BY <1>6

\* A sequence of n pairwise different elements of a finite set is no longer
\* than the set.
LEMMA InjectiveBound ==
    ASSUME NEW S, IsFiniteSet(S), NEW n \in Nat, NEW f \in [1 .. n -> S],
           \A i, j \in 1 .. n : f[i] = f[j] => i = j
    PROVE  n <= Cardinality(S)
<1>1. f \in Injection(1 .. n, S)
  BY DEF Injection, IsInjective
<1>2. Cardinality(1 .. n) <= Cardinality(S)
  BY <1>1, FS_Injection
<1>3. Cardinality(1 .. n) = n
  BY FS_Interval
<1> QED BY <1>2, <1>3

\* The states of a loop of n rounds that starts in s, the k-th round of which
\* takes the state x to F[<<x, k>>].
IsLoop(g, n, s, F) == g = [k \in 0 .. n |-> IF k = 0 THEN s ELSE F[<<g[k - 1], k>>]]

\* A recursion over 0 .. n has a solution.
LEMMA RecursionExists ==
    ASSUME NEW n \in Nat, NEW s, NEW F
    PROVE  \E g : IsLoop(g, n, s, F)
<1> DEFINE Solves(g, m) == IsLoop(g, m, s, F)
           Bad == {m \in 0 .. n : ~ \E g : Solves(g, m)}
<1>1. Bad = {}
  <2> SUFFICES ASSUME Bad # {} PROVE FALSE
    OBVIOUS
  <2>1. Bad \in SUBSET Nat
    OBVIOUS
  <2>2. PICK m \in Bad : \A i \in Bad : m <= i
    <3> HIDE DEF Bad
    <3> QED BY <2>1, LeastNat
  <2>3. m \in 0 .. n /\ ~ \E g : Solves(g, m)
    <3> HIDE DEF Solves
    <3> QED OBVIOUS
  <2>4. m # 0
    <3>1. Solves([k \in 0 .. 0 |-> s], 0)
      BY DEF IsLoop
    <3> HIDE DEF Solves
    <3> QED BY <2>3, <3>1
  <2>5. m - 1 \in 0 .. n /\ ~ m <= m - 1
    BY <2>3, <2>4
  <2>6. PICK g : Solves(g, m - 1)
    <3> HIDE DEF Solves
    <3> QED BY <2>2, <2>5
  <2> DEFINE h == [k \in 0 .. m |-> IF k = m THEN F[<<g[m - 1], m>>] ELSE g[k]]
  <2>7. Solves(h, m)
    <3>1. \A k \in 0 .. m - 1 : g[k] = IF k = 0 THEN s ELSE F[<<g[k - 1], k>>]
      BY <2>6 DEF IsLoop
    <3>2. ASSUME NEW k \in 0 .. m PROVE h[k] = IF k = 0 THEN s ELSE F[<<h[k - 1], k>>]
      <4>1. CASE k = m
        <5>1. m - 1 \in 0 .. m /\ m - 1 # m
          BY <2>3, <2>4
        <5> QED BY <2>4, <4>1, <5>1
      <4>2. CASE k # m
        <5>1. k \in 0 .. m - 1 /\ (k # 0 => k - 1 \in 0 .. m /\ k - 1 # m)
          BY <2>3, <4>2
        <5> QED BY <3>1, <4>2, <5>1, Zenon
      <4> QED BY <4>1, <4>2
    <3>3. h = [k \in 0 .. m |-> h[k]]
      OBVIOUS
    <3> HIDE DEF h
    <3>4. [k \in 0 .. m |-> h[k]] = [k \in 0 .. m |-> IF k = 0 THEN s ELSE F[<<h[k - 1], k>>]]
      BY <3>2
    <3> QED BY <3>3, <3>4 DEF IsLoop
  <2> HIDE DEF Solves
  <2> QED BY <2>3, <2>7
<1>2. \E g : Solves(g, n)
  <2> HIDE DEF Solves
  <2> QED BY <1>1
<1> QED BY <1>2

\* What holds before the first round of a loop and is kept by every round
\* holds after each: S[k] is the set of states allowed after k rounds.
LEMMA LoopInduction ==
    ASSUME NEW n \in Nat, NEW S, NEW x, x[0] \in S[0],
           \A k \in 1 .. n : x[k - 1] \in S[k - 1] => x[k] \in S[k]
    PROVE  \A k \in 0 .. n : x[k] \in S[k]
<1> DEFINE Bad == {k \in 0 .. n : x[k] \notin S[k]}
<1>1. Bad = {}
  <2> SUFFICES ASSUME Bad # {} PROVE FALSE
    OBVIOUS
  <2>1. Bad \in SUBSET Nat
    OBVIOUS
  <2>2. PICK m \in Bad : \A i \in Bad : m <= i
    <3> HIDE DEF Bad
    <3> QED BY <2>1, LeastNat, Zenon
  <2>3. m # 0 /\ m \in 1 .. n /\ m - 1 \in 0 .. n /\ ~ m <= m - 1
    BY <2>2
  <2>4. x[m - 1] \in S[m - 1]
    BY <2>2, <2>3
  <2> QED BY <2>2, <2>3, <2>4
<1> QED BY <1>1

\* A set of indices has a greatest element.
LEMMA GreatestIndex ==
    ASSUME NEW n \in Nat, NEW T \in SUBSET (1 .. n), T # {}
    PROVE  \E m \in T : \A j \in T : j <= m
<1> DEFINE U == {n - j : j \in T}
<1>1. U \in SUBSET Nat /\ U # {}
  <2>1. \A j \in T : n - j \in Nat
    OBVIOUS
  <2>2. PICK j \in T : TRUE
    OBVIOUS
  <2>3. n - j \in U
    OBVIOUS
  <2> QED BY <2>1, <2>3
<1>2. PICK u \in U : \A v \in U : u <= v
  <2> HIDE DEF U
  <2> QED BY <1>1, LeastNat
<1>3. PICK m \in T : u = n - m
  OBVIOUS
<1>4. \A j \in T : n - m <= n - j
  BY <1>2, <1>3
<1>5. \A j \in T : j <= m
  BY <1>4
<1> QED BY <1>5
=============================================================================
