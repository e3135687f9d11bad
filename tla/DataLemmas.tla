----------------------------- MODULE DataLemmas -----------------------------
(* Facts about natural numbers, sets and sequences that the proofs about   *)
(* the components cite.  Induction is over a set: what is to be shown of   *)
(* every number is that the set of those that have it is all of Nat.       *)
EXTENDS Integers, Sequences, FiniteSets, FiniteSetTheorems, WellFoundedInduction, TLAPS

(* A set of naturals with a member has a least one.                        *)
LEMMA LeastOf ==
  ASSUME NEW T, T \subseteq Nat, T # {}
  PROVE  \E x \in T : \A y \in T : x <= y
<1> DEFINE R == OpToRel(<, Nat)
<1>1. PICK x \in T : \A y \in T : ~ (<<y, x>> \in R)
  <2>1. IsWellFoundedOn(R, Nat)
    BY NatLessThanWellFounded
  <2> HIDE DEF R
  <2> QED
    BY <2>1, WFMin
<1>2. \A y \in T : ~(y < x)
  BY <1>1 DEF OpToRel
<1> QED
  BY <1>2

(* Induction: a set that has 0 and with every natural its successor.       *)
LEMMA SetInduction ==
  ASSUME NEW T, 0 \in T, \A n \in Nat : n \in T => n + 1 \in T
  PROVE  Nat \subseteq T
<1> DEFINE Bad == {n \in Nat : n \notin T}
<1> SUFFICES ASSUME Bad # {} PROVE FALSE
  OBVIOUS
<1>1. PICK x \in Bad : \A y \in Bad : x <= y
  <2>1. Bad \subseteq Nat
    OBVIOUS
  <2> HIDE DEF Bad
  <2> QED
    BY <2>1, LeastOf
<1>2. x \in Nat /\ x # 0 /\ x - 1 \in Nat
  OBVIOUS
<1>3. x - 1 \in T
  BY <1>1, <1>2
<1>4. (x - 1) + 1 \in T
  BY <1>2, <1>3
<1> QED
  BY <1>2, <1>4

(* A set of naturals with a member and a bound has a greatest one.         *)
LEMMA GreatestOf ==
  ASSUME NEW T, T \subseteq Nat, T # {}, NEW b \in Nat, \A x \in T : x <= b
  PROVE  \E x \in T : \A y \in T : y <= x
<1> DEFINE U == {n \in Nat : \A x \in T : x <= n}
<1>1. PICK m \in U : \A n \in U : m <= n
  <2>1. U \subseteq Nat /\ U # {}
    OBVIOUS
  <2> HIDE DEF U
  <2> QED
    BY <2>1, LeastOf
<1>2. CASE m \in T
  BY <1>2
<1>3. CASE m \notin T
  <2>1. \A x \in T : x <= m - 1
    BY <1>3
  <2>2. m - 1 \in U
    <3>1. PICK x \in T : TRUE
      OBVIOUS
    <3>2. x \in Nat /\ x <= m - 1 /\ m \in Nat
      BY <2>1, <3>1
    <3> QED
      BY <2>1, <3>2
  <2> QED
    BY <1>1, <2>2
<1> QED
  BY <1>2, <1>3

(* Finitely many naturals have a bound.                                    *)
LEMMA BoundOf ==
  ASSUME NEW s, NEW n \in Nat, \A i \in 1..n : s[i] \in Nat
  PROVE  \E b \in Nat : \A i \in 1..n : s[i] <= b
<1> DEFINE Bound(k) == k <= n => \E b \in Nat : \A i \in 1..k : s[i] <= b
           T == {k \in Nat : Bound(k)}
<1>1. 0 \in T
  OBVIOUS
<1>2. ASSUME NEW k \in Nat, k \in T
      PROVE  k + 1 \in T
  <2>1. Bound(k)
    BY <1>2
  <2>2. ASSUME k + 1 <= n
        PROVE  \E b \in Nat : \A i \in 1..(k + 1) : s[i] <= b
    <3>1. PICK b \in Nat : \A i \in 1..k : s[i] <= b
      BY <2>1, <2>2
    <3>2. s[k + 1] \in Nat
      BY <2>2
    <3>3. PICK a \in Nat : b <= a /\ s[k + 1] <= a
      BY <3>2
    <3>4. \A i \in 1..(k + 1) : s[i] <= a
      <4> SUFFICES ASSUME NEW i \in 1..(k + 1) PROVE s[i] <= a
        OBVIOUS
      <4>1. i = k + 1 \/ i \in 1..k
        OBVIOUS
      <4>2. s[i] \in Nat
        BY <2>2
      <4> QED
        BY <3>1, <3>3, <4>1, <4>2
    <3> QED
      BY <3>4
  <2> QED
    BY <2>2
<1>3. n \in T
  <2> HIDE DEF T
  <2> QED
    BY <1>1, <1>2, SetInduction
<1> QED
  BY <1>3

(* A one-to-one function between sets of the same finite size is onto.     *)
LEMMA OneToOneIsOnto ==
  ASSUME NEW S, NEW T, IsFiniteSet(T), Cardinality(S) = Cardinality(T),
         NEW f, f \in [S -> T], \A x \in S : \A y \in S : f[x] = f[y] => x = y
  PROVE  \A i \in T : \E x \in S : f[x] = i
<1>1. f \in Injection(S, T)
  BY DEF Injection, IsInjective
<1>2. f \in Surjection(S, T)
  BY <1>1, FS_Injection
<1> QED
  BY <1>2 DEF Surjection

(* An iteration: every value is made of the one before.                    *)
Iterations(V, v, N, G) ==
  {f \in [0..N -> V] : f[0] = v /\ \A n \in 1..N : f[n] = G[n][f[n - 1]]}

LEMMA IterationExists ==
  ASSUME NEW V, NEW v, v \in V, NEW N, N \in Nat, NEW G, \A n \in 1..N : \A x \in V : G[n][x] \in V
  PROVE  \E f : f \in Iterations(V, v, N, G)
<1> DEFINE Upto(k) == \E f \in [0..N -> V] : f[0] = v /\ \A n \in 1..N : n <= k => f[n] = G[n][f[n - 1]]
           T == {k \in Nat : Upto(k)}
<1>1. 0 \in T
  <2> DEFINE f == [n \in 0..N |-> v]
  <2>1. f \in [0..N -> V] /\ f[0] = v /\ \A n \in 1..N : ~(n <= 0)
    OBVIOUS
  <2> HIDE DEF f
  <2>2. Upto(0)
    BY <2>1
  <2> QED
    BY <2>2
<1>2. ASSUME NEW k \in Nat, k \in T
      PROVE  k + 1 \in T
  <2>1. PICK f \in [0..N -> V] : f[0] = v /\ \A n \in 1..N : n <= k => f[n] = G[n][f[n - 1]]
    BY <1>2
  <2> DEFINE g == [n \in 0..N |-> IF n = k + 1 THEN G[n][f[n - 1]] ELSE f[n]]
  <2>2. ASSUME NEW n \in 0..N, n = k + 1
        PROVE  n \in 1..N /\ n - 1 \in 0..N /\ n - 1 # n
    BY <2>2
  <2>3. g \in [0..N -> V]
    <3>1. \A n \in 0..N : g[n] \in V
      BY <1>2, <2>2
    <3> QED
      BY <3>1
  <2>4. g[0] = v
    BY <2>1
  <2>5. ASSUME NEW n \in 1..N, n <= k + 1
        PROVE  g[n] = G[n][g[n - 1]]
    <3>1. n \in 0..N /\ n - 1 \in 0..N /\ n - 1 # k + 1
      BY <2>5
    <3>2. g[n - 1] = f[n - 1]
      BY <3>1
    <3>3. CASE n = k + 1
      BY <3>1, <3>2, <3>3
    <3>4. CASE n # k + 1
      <4>1. n <= k
        BY <2>5, <3>4
      <4>2. g[n] = f[n]
        BY <3>1, <3>4
      <4> HIDE DEF g
      <4> QED
        BY <2>1, <3>2, <4>1, <4>2
    <3> QED
      BY <3>3, <3>4
  <2> HIDE DEF g
  <2>6. Upto(k + 1)
    BY <2>3, <2>4, <2>5
  <2> HIDE DEF Upto
  <2> QED
    BY <2>6
<1>3. N \in T
  <2> HIDE DEF T
  <2> QED
    BY <1>1, <1>2, SetInduction
<1>4. Upto(N)
  BY <1>3
<1> QED
  BY <1>4 DEF Iterations

(* A finite set listed in an order: the i-th element has i - 1 before it.  *)
Place(x, E, R) == Cardinality({y \in E : <<y, x>> \in R})
Sorted(s, E, R) ==
  /\ DOMAIN s = 1..Cardinality(E)
  /\ \A i \in 1..Cardinality(E) :
       (\E x \in E : Place(x, E, R) = i - 1) => s[i] \in E /\ Place(s[i], E, R) = i - 1

StrictOrder(E, R) ==
  /\ \A x \in E : <<x, x>> \notin R
  /\ \A x \in E : \A y \in E : x = y \/ <<x, y>> \in R \/ <<y, x>> \in R
  /\ \A x \in E : \A y \in E : \A z \in E : <<x, y>> \in R /\ <<y, z>> \in R => <<x, z>> \in R

Lists(s, E, R) ==
  \E n \in Nat : /\ DOMAIN s = 1..n
                 /\ \A i \in 1..n : s[i] \in E
                 /\ \A i, j \in 1..n : i < j => <<s[i], s[j]>> \in R
                 /\ \A e \in E : \E i \in 1..n : s[i] = e

LEMMA SortedLists ==
  ASSUME NEW E, IsFiniteSet(E), NEW R, StrictOrder(E, R), NEW s, Sorted(s, E, R)
  PROVE  Lists(s, E, R)
<1> DEFINE n == Cardinality(E)
           Below(x) == {y \in E : <<y, x>> \in R}
           Rank(x) == Cardinality(Below(x))
<1>1. IsFiniteSet(E) /\ n \in Nat
  BY FS_CardinalityType
<1>2. /\ \A x \in E : <<x, x>> \notin R
      /\ \A x \in E : \A y \in E : x = y \/ <<x, y>> \in R \/ <<y, x>> \in R
      /\ \A x \in E : \A y \in E : \A z \in E : <<x, y>> \in R /\ <<y, z>> \in R => <<x, z>> \in R
  BY DEF StrictOrder
<1>3. \A x \in E : IsFiniteSet(Below(x)) /\ Rank(x) \in Nat
  <2> SUFFICES ASSUME NEW x \in E PROVE IsFiniteSet(Below(x)) /\ Rank(x) \in Nat
    OBVIOUS
  <2>1. IsFiniteSet(Below(x))
    <3>1. Below(x) \in SUBSET E
      OBVIOUS
    <3> QED
      BY <1>1, <3>1, FS_Subset
  <2> QED
    BY <2>1, FS_CardinalityType
<1>4. \A x \in E : Rank(x) < n
  <2> SUFFICES ASSUME NEW x \in E PROVE Rank(x) < n
    OBVIOUS
  <2>1. x \notin Below(x)
    BY <1>2
  <2>2. Below(x) \in SUBSET E /\ Below(x) # E
    BY <2>1
  <2>3. Rank(x) <= n /\ Rank(x) # n
    BY <1>1, <2>2, FS_Subset
  <2> QED
    BY <1>1, <1>3, <2>3
<1>5. ASSUME NEW x \in E, NEW y \in E, <<x, y>> \in R
      PROVE  Rank(x) < Rank(y)
  <2>1. Below(x) \in SUBSET Below(y)
    BY <1>2, <1>5
  <2>2. x \in Below(y) /\ x \notin Below(x)
    BY <1>2, <1>5
  <2>3. Below(x) # Below(y)
    BY <2>2
  <2> HIDE DEF Below
  <2>4. Rank(x) <= Rank(y) /\ Rank(x) # Rank(y)
    BY <1>3, <2>1, <2>3, FS_Subset
  <2> QED
    BY <1>3, <2>4
<1> HIDE DEF Below, Rank
<1>6. \A x \in E : \A y \in E : Rank(x) = Rank(y) => x = y
  <2> SUFFICES ASSUME NEW x \in E, NEW y \in E, Rank(x) = Rank(y) PROVE x = y
    OBVIOUS
  <2>1. x = y \/ <<x, y>> \in R \/ <<y, x>> \in R
    BY <1>2
  <2> QED
    BY <1>3, <1>5, <2>1
<1>7. \A i \in 1..n : \E x \in E : Rank(x) = i - 1
  <2> DEFINE f == [x \in E |-> Rank(x)]
             T == 0..(n - 1)
  <2>1. f \in [E -> T]
    BY <1>1, <1>3, <1>4
  <2>2. IsFiniteSet(0..(n - 1)) /\ Cardinality(0..(n - 1)) = n
    <3>1. 0 \in Int /\ n - 1 \in Int
      BY <1>1
    <3>2. IsFiniteSet(0..(n - 1))
          /\ Cardinality(0..(n - 1)) = IF 0 > n - 1 THEN 0 ELSE (n - 1) - 0 + 1
      BY ONLY <3>1, FS_Interval
    <3> QED
      BY <1>1, <3>2
  <2>3. /\ IsFiniteSet(T) /\ Cardinality(E) = Cardinality(T) /\ f \in [E -> T]
        /\ \A x \in E : \A y \in E : f[x] = f[y] => x = y
    BY <1>6, <2>1, <2>2
  <2> HIDE DEF f, T
  <2>4. \A i \in T : \E x \in E : f[x] = i
    BY ONLY <2>3, OneToOneIsOnto
  <2> QED
    BY <1>1, <2>4 DEF f, T
<1>8. DOMAIN s = 1..n
      /\ \A i \in 1..n : (\E x \in E : Rank(x) = i - 1) => s[i] \in E /\ Rank(s[i]) = i - 1
  BY DEF Sorted, Place, Rank, Below
<1>9. DOMAIN s = 1..n /\ \A i \in 1..n : s[i] \in E /\ Rank(s[i]) = i - 1
  BY <1>7, <1>8
<1>10. ASSUME NEW i \in 1..n, NEW j \in 1..n, i < j
       PROVE  <<s[i], s[j]>> \in R
  <2>1. s[i] \in E /\ s[j] \in E /\ Rank(s[i]) < Rank(s[j])
    BY <1>1, <1>9, <1>10
  <2>2. ~(Rank(s[j]) < Rank(s[i])) /\ s[i] # s[j]
    <3>1. Rank(s[i]) \in Nat /\ Rank(s[j]) \in Nat
      BY <1>3, <2>1
    <3>2. Rank(s[i]) # Rank(s[j]) /\ ~(Rank(s[j]) < Rank(s[i]))
      BY <2>1, <3>1
    <3> QED
      BY <3>2
  <2> QED
    BY <1>2, <1>5, <2>1, <2>2
<1>11. ASSUME NEW e \in E
       PROVE  \E i \in 1..n : s[i] = e
  <2>1. Rank(e) + 1 \in 1..n
    BY <1>1, <1>3, <1>4
  <2>2. s[Rank(e) + 1] \in E /\ Rank(s[Rank(e) + 1]) = Rank(e)
    <3>1. (Rank(e) + 1) - 1 = Rank(e)
      BY <1>3
    <3> QED
      BY <1>9, <2>1, <3>1
  <2> QED
    BY <1>6, <2>1, <2>2
<1> QED
  BY <1>1, <1>9, <1>10, <1>11 DEF Lists
=============================================================================
