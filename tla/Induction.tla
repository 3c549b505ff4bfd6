----------------------------- MODULE Induction -----------------------------
(***************************************************************************)
(* What the proofs about recursive functions and powers rest on: induction *)
(* as a fact about a set of numbers, and functions that take turns.        *)
(***************************************************************************)
EXTENDS FiniteSetTheorems, FunctionTheorems, TLAPS

\* A set of numbers that is not empty has a least one.
LEMMA NatMin ==
  ASSUME NEW T, T \subseteq Nat, T # {}
  PROVE  \E x \in T : \A y \in T : x <= y
<1>1. PICK x \in T : \A y \in T : ~ (<<y, x>> \in OpToRel(<, Nat))
  BY NatLessThanWellFounded, WFMin
<1>2. \A y \in T : y < x => <<y, x>> \in OpToRel(<, Nat)
  BY DEF OpToRel
<1>3. \A y \in T : y \in Nat /\ x \in Nat /\ ~(y < x)
  BY <1>1, <1>2
<1>4. \A y \in T : x <= y
  BY <1>3
<1> QED BY <1>4

\* Induction, as a fact about a set.
LEMMA SetInduction ==
  ASSUME NEW S, 0 \in S, \A n \in Nat : n \in S => n + 1 \in S
  PROVE  Nat \subseteq S
<1> SUFFICES ASSUME ~(Nat \subseteq S) PROVE FALSE
  OBVIOUS
<1> DEFINE T == Nat \ S
<1>1. PICK x \in T : \A y \in T : x <= y
  BY NatMin
<1>2. x # 0 /\ x - 1 \in Nat
  BY <1>1
<1>3. x - 1 \in S
  BY <1>1, <1>2
<1> QED BY <1>2, <1>3

\* What N turns of f make of c, one after the other.
IsTurns(g, D, f, c, N) ==
  g \in [0..N -> D] /\ g[0] = c /\ \A i \in 1..N : g[i] = f[<<g[i - 1], i>>]

\* A function can be applied N times in turn.
LEMMA Iterated ==
  ASSUME NEW N \in Nat, NEW D, NEW f \in [D \X (1..N) -> D], NEW c \in D
  PROVE  \E g : IsTurns(g, D, f, c, N)
<1> DEFINE S == {n \in Nat : n <= N => \E g : IsTurns(g, D, f, c, n)}
<1>1. 0 \in S
  <2>1. IsTurns([i \in 0..0 |-> c], D, f, c, 0)
    BY DEF IsTurns
  <2> QED BY <2>1
<1>2. ASSUME NEW n \in Nat, n \in S PROVE n + 1 \in S
  <2> SUFFICES ASSUME n + 1 <= N PROVE \E g : IsTurns(g, D, f, c, n + 1)
    OBVIOUS
  <2>1. PICK g : IsTurns(g, D, f, c, n)
    BY <1>2
  <2> DEFINE next == f[<<g[n], n + 1>>]
             h == [i \in 0..(n + 1) |-> IF i = n + 1 THEN next ELSE g[i]]
  <2>2. next \in D
    <3>1. g[n] \in D /\ n + 1 \in 1..N
      BY <2>1 DEF IsTurns
    <3> QED BY <3>1
  <2>3. h \in [0..(n + 1) -> D]
    BY <2>1, <2>2 DEF IsTurns
  <2>4. ASSUME NEW i \in 1..(n + 1) PROVE h[i] = f[<<h[i - 1], i>>]
    <3>1. CASE i = n + 1
      <4>1. h[i] = f[<<g[n], n + 1>>] /\ h[i - 1] = g[n]
        BY <3>1
      <4> QED BY <3>1, <4>1
    <3>2. CASE i # n + 1
      <4>1. i \in 1..n /\ h[i] = g[i] /\ h[i - 1] = g[i - 1]
        BY <3>2
      <4> QED BY <2>1, <4>1 DEF IsTurns
    <3> QED BY <3>1, <3>2
  <2>5. h[0] = c
    BY <2>1 DEF IsTurns
  <2> HIDE DEF h
  <2>6. IsTurns(h, D, f, c, n + 1)
    BY <2>3, <2>4, <2>5 DEF IsTurns
  <2> QED BY <2>6
<1>3. N \in S
  <2> HIDE DEF S
  <2> QED BY <1>1, <1>2, SetInduction
<1> QED BY <1>3
-----------------------------------------------------------------------------
(* Powers of 2. *)

\* A set has 2^n subsets, and twice as many with one more element.
LEMMA PowerTurns ==
  ASSUME NEW n \in Nat
  PROVE  2^n \in Nat /\ 2^(n + 1) = 2 * 2^n /\ 2^0 = 1
<1> DEFINE S == 1..n
           x == n + 1
           T == S \union {x}
           P == SUBSET S
           M == {A \union {x} : A \in P}
<1>1. IsFiniteSet(S) /\ Cardinality(S) = n /\ x \notin S
  <2>1. IsFiniteSet(1..n) /\ Cardinality(1..n) = IF 1 > n THEN 0 ELSE n - 1 + 1
    BY FS_Interval
  <2> QED BY <2>1
<1> HIDE DEF S
<1>2. IsFiniteSet(T) /\ Cardinality(T) = n + 1
  BY <1>1, FS_AddElement
<1>3. IsFiniteSet(P) /\ Cardinality(P) = 2^n /\ Cardinality(P) \in Nat
  BY <1>1, FS_SUBSET, FS_CardinalityType
<1>4. IsFiniteSet(SUBSET T) /\ Cardinality(SUBSET T) = 2^(n + 1)
  BY <1>2, FS_SUBSET
<1>5. SUBSET T = P \union M /\ P \intersect M = {}
  <2>1. ASSUME NEW A \in SUBSET T PROVE A \in P \union M
    <3>1. CASE x \in A
      <4>1. A \ {x} \in P /\ A = (A \ {x}) \union {x}
        BY <3>1
      <4> QED BY <4>1
    <3>2. CASE x \notin A
      BY <3>2
    <3> QED BY <3>1, <3>2
  <2>2. \A A \in P \union M : A \in SUBSET T
    OBVIOUS
  <2>3. \A A \in P : x \notin A
    BY <1>1
  <2>4. \A A \in M : x \in A
    OBVIOUS
  <2> QED BY <2>1, <2>2, <2>3, <2>4
<1>6. ExistsBijection(P, M)
  <2> DEFINE f == [A \in P |-> A \union {x}]
  <2>1. f \in [P -> M]
    OBVIOUS
  <2>2. \A A, B \in P : f[A] = f[B] => A = B
    <3> SUFFICES ASSUME NEW A \in P, NEW B \in P, f[A] = f[B] PROVE A = B
      OBVIOUS
    <3>1. A \union {x} = B \union {x} /\ x \notin A /\ x \notin B
      BY <1>1
    <3> QED BY <3>1
  <2>3. \A C \in M : \E A \in P : f[A] = C
    OBVIOUS
  <2> HIDE DEF f, P, M
  <2>4. f \in Bijection(P, M)
    BY <2>1, <2>2, <2>3, Fun_IsBij
  <2> QED BY <2>4 DEF ExistsBijection
<1> HIDE DEF P, M, T
<1>7. IsFiniteSet(M) /\ Cardinality(M) = Cardinality(P)
  BY <1>3, <1>6, FS_Bijection
<1>8. Cardinality(P \union M) = Cardinality(P) + Cardinality(M) - Cardinality(P \intersect M)
  BY <1>3, <1>7, FS_Union
<1>9. Cardinality(P \intersect M) = 0
  BY <1>5, FS_EmptySet
<1>10. 2^0 = 1
  <2> DEFINE e == {}
  <2>1. IsFiniteSet(e) /\ Cardinality(e) = 0
    BY FS_EmptySet
  <2>2. Cardinality(SUBSET e) = 2^Cardinality(e)
    BY <2>1, FS_SUBSET
  <2>3. SUBSET e = {e}
    OBVIOUS
  <2> HIDE DEF e
  <2>4. Cardinality({e}) = 1
    BY FS_Singleton
  <2> QED BY <2>1, <2>2, <2>3, <2>4
<1> QED BY <1>3, <1>4, <1>5, <1>7, <1>8, <1>9, <1>10

\* A power of two is at least 1.
LEMMA PowerPositive == \A n \in Nat : 2^n \in Nat /\ 2^n >= 1
<1> DEFINE S == {n \in Nat : 2^n \in Nat /\ 2^n >= 1}
<1>1. 0 \in S
  <2>1. 2^0 = 1
    BY PowerTurns
  <2> QED BY <2>1
<1>2. ASSUME NEW n \in Nat, n \in S PROVE n + 1 \in S
  <2> DEFINE p == 2^n
             q == 2^(n + 1)
  <2>1. p \in Nat /\ p >= 1
    BY <1>2
  <2>2. q = 2 * p
    BY PowerTurns
  <2> HIDE DEF p, q
  <2>3. q \in Nat /\ q >= 1
    BY <2>1, <2>2
  <2> QED BY <2>3 DEF q
<1> HIDE DEF S
<1>3. Nat \subseteq S
  BY <1>1, <1>2, SetInduction
<1> QED BY <1>3 DEF S

\* 2 to a sum is a product.
LEMMA PowerSum ==
  ASSUME NEW k \in Nat, NEW d \in Nat
  PROVE  2^(k + d) = 2^k * 2^d
<1> DEFINE S == {n \in Nat : 2^(k + n) = 2^k * 2^n}
           p == 2^k
<1>0. p \in Nat
  BY PowerPositive
<1>1. 0 \in S
  <2>1. 2^0 = 1 /\ k + 0 = k
    BY PowerTurns
  <2> HIDE DEF p
  <2>2. p = p * 1
    BY <1>0
  <2> QED BY <2>1, <2>2 DEF p
<1>2. ASSUME NEW n \in Nat, n \in S PROVE n + 1 \in S
  <2> DEFINE q == 2^n
             r == 2^(n + 1)
             s == 2^(k + n)
             t == 2^(k + (n + 1))
  <2>1. s = p * q
    BY <1>2
  <2>2. q \in Nat /\ r = 2 * q
    BY PowerTurns
  <2>3. t = 2 * s
    <3>1. k + n \in Nat /\ k + (n + 1) = (k + n) + 1
      OBVIOUS
    <3> QED BY <3>1, PowerTurns
  <2> HIDE DEF p, q, r, s, t
  <2>4. t = p * r
    BY <1>0, <2>1, <2>2, <2>3
  <2> QED BY <2>4 DEF p, r, t
<1> HIDE DEF S
<1>3. Nat \subseteq S
  BY <1>1, <1>2, SetInduction
<1> QED BY <1>3 DEF S

\* 2^n does not shrink.
LEMMA PowerGrows ==
  ASSUME NEW k \in Nat, NEW n \in Nat, k <= n
  PROVE  2^k <= 2^n
<1> DEFINE d == n - k
           p == 2^k
           q == 2^d
<1>1. d \in Nat /\ k + d = n
  OBVIOUS
<1> HIDE DEF d
<1>2. p \in Nat /\ q \in Nat /\ q >= 1
  BY <1>1, PowerPositive
<1>3. 2^n = p * q
  BY <1>1, PowerSum
<1> HIDE DEF p, q
<1>4. p <= p * q
  BY <1>2
<1> QED BY <1>3, <1>4 DEF p

\* Quotient and remainder.
LEMMA Divides ==
  ASSUME NEW p \in Nat, p >= 1, NEW q \in Nat, NEW r \in 0..(p - 1)
  PROVE  (p * q + r) \div p = q /\ (p * q + r) % p = r
<1> DEFINE a == p * q + r
           t == a \div p
<1>1. a \in Nat
  OBVIOUS
<1>2. t \in Nat /\ a % p \in 0..(p - 1) /\ a = p * t + (a % p)
  <2> HIDE DEF a
  <2> QED BY <1>1
<1> HIDE DEF t
<1>3. a = p * q + r
  OBVIOUS
<1> HIDE DEF a
<1>4. ~(t < q)
  <2> SUFFICES ASSUME t + 1 <= q PROVE FALSE
    BY <1>2
  <2>1. p * (t + 1) <= p * q
    BY <1>2
  <2>2. p * (t + 1) = p * t + p
    BY <1>2
  <2> QED BY <1>2, <1>3, <2>1, <2>2
<1>5. ~(q < t)
  <2> SUFFICES ASSUME q + 1 <= t PROVE FALSE
    BY <1>2
  <2>1. p * (q + 1) <= p * t
    BY <1>2
  <2>2. p * (q + 1) = p * q + p
    OBVIOUS
  <2> QED BY <1>2, <1>3, <2>1, <2>2
<1>6. t = q
  BY <1>2, <1>4, <1>5
<1>7. a % p = r
  BY <1>2, <1>3, <1>6
<1> QED BY <1>6, <1>7 DEF a, t
=============================================================================
