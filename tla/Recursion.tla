------------------------------ MODULE Recursion ------------------------------
(* Induction over the natural numbers in terms of sets, and what follows    *)
(* from it: an iteration exists, and one of a monotone map on the subsets   *)
(* of a finite set ends in a closed set.                                    *)
EXTENDS FiniteSetTheorems, TLAPS

\* A set that has 0 and with every number the next one has all numbers.
LEMMA SetInduction ==
    ASSUME NEW S, 0 \in S, \A n \in Nat : n \in S => n + 1 \in S
    PROVE  \A n \in Nat : n \in S
<1> DEFINE T == {n \in Nat : n \notin S}
           less == OpToRel(<, Nat)
<1>1. IsWellFoundedOn(less, Nat)
  BY NatLessThanWellFounded
<1>2. \A i, j \in Nat : i < j => <<i, j>> \in less
  BY DEF OpToRel
<1>3. SUFFICES ASSUME T # {} PROVE FALSE
  OBVIOUS
<1> HIDE DEF less
<1>4. PICK d \in T : \A y \in T : <<y, d>> \notin less
  <2>1. T \subseteq Nat
    OBVIOUS
  <2> HIDE DEF T
  <2> QED BY <1>1, <1>3, <2>1, WFMin
<1>5. d \in Nat /\ d # 0 /\ d \notin S
  BY <1>4
<1>6. d - 1 \in Nat /\ d - 1 < d /\ (d - 1) + 1 = d
  BY <1>5
<1>7. d - 1 \notin T
  BY <1>2, <1>4, <1>5, <1>6
<1> QED BY <1>5, <1>6, <1>7

\* The same up to a bound.
LEMMA BoundedInduction ==
    ASSUME NEW N \in Nat, NEW S, 0 \in S, \A n \in 0..(N - 1) : n \in S => n + 1 \in S
    PROVE  \A n \in 0..N : n \in S
<1> DEFINE T == {n \in Nat : n <= N => n \in S}
<1>1. 0 \in T
  OBVIOUS
<1>2. \A n \in Nat : n \in T => n + 1 \in T
  <2> SUFFICES ASSUME NEW n \in Nat, n \in T, n + 1 <= N PROVE n + 1 \in S
    OBVIOUS
  <2>1. n \in 0..(N - 1) /\ n \in S
    OBVIOUS
  <2> QED BY <2>1
<1> HIDE DEF T
<1>3. \A n \in Nat : n \in T
  BY <1>1, <1>2, SetInduction
<1> QED BY <1>3 DEF T

\* N steps of a map from a value; a step may look at its number.
Iterates(N, V, base, step, f) ==
    /\ f \in [0..N -> V]
    /\ f[0] = base
    /\ \A n \in 1..N : f[n] = step[<<f[n - 1], n>>]

\* They can be taken.
LEMMA Iteration ==
    ASSUME NEW N \in Nat, NEW V, NEW base \in V, NEW step \in [V \X (1..N) -> V]
    PROVE  \E f : Iterates(N, V, base, step, f)
<1> DEFINE Good(f, n) == f[0] = base /\ \A k \in 1..n : f[k] = step[<<f[k - 1], k>>]
           S == {n \in 0..N : \E f \in [0..n -> V] : Good(f, n)}
<1>1. 0 \in S
  <2> DEFINE f == [k \in 0..0 |-> base]
  <2>1. f \in [0..0 -> V] /\ Good(f, 0)
    OBVIOUS
  <2>2. 0 \in 0..N
    OBVIOUS
  <2> HIDE DEF f, Good
  <2> QED BY <2>1, <2>2
<1>2. ASSUME NEW n \in 0..(N - 1), n \in S
      PROVE  n + 1 \in S
  <2>1. PICK f \in [0..n -> V] : Good(f, n)
    BY <1>2
  <2> DEFINE last == step[<<f[n], n + 1>>]
             g == [k \in 0..(n + 1) |-> IF k = n + 1 THEN last ELSE f[k]]
  <2>2. last \in V
    <3>1. <<f[n], n + 1>> \in V \X (1..N)
      OBVIOUS
    <3> QED BY <3>1
  <2>3. g \in [0..(n + 1) -> V]
    BY <2>2
  <2>4. \A k \in 0..n : g[k] = f[k]
    OBVIOUS
  <2>5. g[n + 1] = step[<<g[n], n + 1>>] /\ g[0] = base
    <3>1. n \in 0..n /\ 0 \in 0..n /\ n + 1 \in 0..(n + 1)
      OBVIOUS
    <3>2. g[n + 1] = last
      BY <3>1
    <3>3. g[n] = f[n] /\ g[0] = f[0]
      BY <2>4, <3>1
    <3> HIDE DEF g
    <3> QED BY <2>1, <3>2, <3>3
  <2>6. \A k \in 1..n : g[k] = step[<<g[k - 1], k>>]
    <3> SUFFICES ASSUME NEW k \in 1..n PROVE g[k] = step[<<g[k - 1], k>>]
      OBVIOUS
    <3>1. k \in 0..n /\ k - 1 \in 0..n
      OBVIOUS
    <3>2. f[k] = step[<<f[k - 1], k>>]
      BY <2>1
    <3> QED BY <2>4, <3>1, <3>2
  <2> HIDE DEF g
  <2>7. Good(g, n + 1)
    <3> SUFFICES ASSUME NEW k \in 1..(n + 1) PROVE g[k] = step[<<g[k - 1], k>>]
      BY <2>5
    <3>1. CASE k = n + 1
      BY <2>5, <3>1
    <3>2. CASE k # n + 1
      <4>1. k \in 1..n
        BY <3>2
      <4> QED BY <2>6, <4>1
    <3> QED BY <3>1, <3>2
  <2> HIDE DEF Good
  <2>8. n + 1 \in 0..N
    OBVIOUS
  <2> QED BY <2>3, <2>7, <2>8
<1>3. \A n \in 0..N : n \in S
  <2> HIDE DEF S
  <2> QED BY <1>1, <1>2, BoundedInduction
<1>4. N \in 0..N
  OBVIOUS
<1>5. N \in S
  BY <1>3, <1>4
<1> QED BY <1>5 DEF Iterates

\* As many steps of a monotone map as a finite set has elements, from the
\* empty set, lead to a set that the map adds nothing to.
LEMMA ClosedSet ==
    ASSUME NEW P, IsFiniteSet(P), NEW phi \in [SUBSET P -> SUBSET P],
           \A S, T \in SUBSET P : S \subseteq T => phi[S] \subseteq phi[T],
           NEW A \in [0..Cardinality(P) -> SUBSET P], A[0] = {},
           \A n \in 1..Cardinality(P) : A[n] = phi[A[n - 1]]
    PROVE  phi[A[Cardinality(P)]] \subseteq A[Cardinality(P)]
<1> DEFINE N == Cardinality(P)
<1>1. N \in Nat
  BY FS_CardinalityType
<1> DEFINE Grows == {n \in 0..N : A[n] \subseteq phi[A[n]]}
<1>2. \A n \in 0..N : n \in Grows
  <2>1. 0 \in Grows
    BY <1>1
  <2>2. ASSUME NEW n \in 0..(N - 1), n \in Grows
        PROVE  n + 1 \in Grows
    <3>1. n \in 0..N /\ n + 1 \in 1..N /\ n + 1 \in 0..N /\ (n + 1) - 1 = n
      BY <1>1
    <3>2. A[n + 1] = phi[A[n]] /\ A[n] \in SUBSET P /\ A[n + 1] \in SUBSET P
      BY <3>1
    <3>3. phi[A[n]] \subseteq phi[A[n + 1]]
      BY <2>2, <3>2
    <3> QED BY <3>1, <3>2, <3>3
  <2> HIDE DEF Grows
  <2> QED BY <1>1, <2>1, <2>2, BoundedInduction
<1> DEFINE Big == {n \in 0..N : phi[A[n]] \subseteq A[n] \/ Cardinality(A[n]) >= n}
<1>3. \A n \in 0..N : n \in Big
  <2>1. 0 \in Big
    <3>1. 0 \in 0..N /\ Cardinality(A[0]) = 0
      BY <1>1, FS_EmptySet
    <3>2. Cardinality(A[0]) >= 0
      BY <3>1
    <3> QED BY <3>1, <3>2
  <2>2. ASSUME NEW n \in 0..(N - 1), n \in Big
        PROVE  n + 1 \in Big
    <3>1. n \in 0..N /\ n + 1 \in 1..N /\ n + 1 \in 0..N /\ (n + 1) - 1 = n
      BY <1>1
    <3>2. A[n + 1] = phi[A[n]] /\ A[n] \in SUBSET P /\ A[n + 1] \in SUBSET P
      BY <3>1
    <3>3. A[n] \subseteq A[n + 1]
      BY <1>2, <3>1, <3>2
    <3>4. CASE phi[A[n]] \subseteq A[n]
      <4>1. A[n + 1] = A[n]
        BY <3>2, <3>3, <3>4
      <4> QED BY <3>1, <3>2, <3>4, <4>1
    <3>5. CASE A[n] # A[n + 1] /\ Cardinality(A[n]) >= n
      <4>1. IsFiniteSet(A[n + 1]) /\ IsFiniteSet(A[n])
        BY <3>2, FS_Subset
      <4>2. Cardinality(A[n]) \in Nat /\ Cardinality(A[n + 1]) \in Nat
        BY <4>1, FS_CardinalityType
      <4>3. Cardinality(A[n]) <= Cardinality(A[n + 1]) /\ Cardinality(A[n]) # Cardinality(A[n + 1])
        BY <3>3, <3>5, <4>1, FS_Subset
      <4>4. Cardinality(A[n + 1]) >= n + 1
        BY <3>1, <3>5, <4>2, <4>3
      <4> QED BY <3>1, <4>4
    <3> QED BY <2>2, <3>2, <3>3, <3>4, <3>5
  <2> HIDE DEF Big
  <2> QED BY <1>1, <2>1, <2>2, BoundedInduction
<1>4. N \in 0..N /\ A[N] \in SUBSET P
  BY <1>1
<1>5. CASE Cardinality(A[N]) >= N
  <2>1. IsFiniteSet(A[N]) /\ Cardinality(A[N]) <= N /\ (Cardinality(P) = Cardinality(A[N]) => P = A[N])
    BY <1>4, FS_Subset
  <2>2. Cardinality(A[N]) \in Nat
    BY <2>1, FS_CardinalityType
  <2>3. A[N] = P
    BY <1>1, <1>5, <2>1, <2>2
  <2> QED BY <1>4, <2>3
<1> QED BY <1>3, <1>4, <1>5
=============================================================================
