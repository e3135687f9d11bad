------------------------- MODULE LevelDBTreeProofs --------------------------
(***************************************************************************)
(* Safety of the levels of tables for any keys, levels, limits and bounds. *)
(* First come facts about the order of entries, about what a search in a   *)
(* level finds and about what a merge makes.  IInv, the inductive          *)
(* invariant, keeps the tables of a level apart; with it Reading, which is *)
(* inductive on top of it, keeps every entry that a reader needs where Get *)
(* looks.  Each has a lemma for each action; the theorems come last.       *)
(***************************************************************************)
EXTENDS LevelDBTree, DataLemmas, FiniteSetTheorems, SequenceTheorems

Tables == (SUBSET (1..LastSequence)) \ {{}}

TreeTyped ==
  /\ written \in Seq([key : Keys, deletion : BOOLEAN]) /\ Len(written) <= MaxWrites
  /\ mem \subseteq 1..LastSequence /\ imm \subseteq 1..LastSequence
  /\ levels \in [Levels -> SUBSET Tables]
  /\ snapshots \subseteq 0..LastSequence
  /\ broken \subseteq {"split", "gap"}

-----------------------------------------------------------------------------
(* The order of entries.                                                   *)

(* Bounded naturals have a greatest one, and naturals a least one.         *)
LEMMA MaxIs ==
  ASSUME NEW T, T \subseteq Nat, T # {}, NEW b \in Nat, \A x \in T : x <= b
  PROVE  Max(T) \in T /\ \A x \in T : x <= Max(T)
<1>1. PICK m \in T : \A x \in T : x <= m
  BY GreatestOf
<1>2. \A x \in T : m >= x
  BY <1>1
<1>3. Max(T) \in T /\ \A x \in T : Max(T) >= x
  BY <1>2 DEF Max
<1> QED
  BY <1>3

LEMMA MinIs ==
  ASSUME NEW T, T \subseteq Nat, T # {}
  PROVE  Min(T) \in T /\ \A x \in T : Min(T) <= x
<1>1. PICK m \in T : \A x \in T : m <= x
  BY LeastOf
<1> QED
  BY <1>1 DEF Min

LEMMA KeyTyped ==
  ASSUME TreeTyped
  PROVE  /\ LastSequence \in Nat
         /\ \A e \in 1..LastSequence : Key(e) \in Keys /\ Key(e) \in Nat \ {0}
<1>1. written \in Seq([key : Keys, deletion : BOOLEAN])
  BY DEF TreeTyped
<1>2. \A w \in [key : Keys, deletion : BOOLEAN] : w.key \in Keys
  OBVIOUS
<1>3. Len(written) \in Nat /\ \A e \in 1..Len(written) : written[e] \in [key : Keys, deletion : BOOLEAN]
  <2>1. ASSUME NEW S, NEW w \in Seq(S)
        PROVE  Len(w) \in Nat /\ \A e \in 1..Len(w) : w[e] \in S
    OBVIOUS
  <2> QED
    BY <1>1, <2>1
<1>4. Keys \subseteq Nat \ {0}
  BY TreeAssumption
<1> QED
  BY <1>2, <1>3, <1>4 DEF LastSequence, Key

LEMMA TableTyped ==
  ASSUME TreeTyped, NEW t \in Tables
  PROVE  /\ t \subseteq 1..LastSequence /\ t # {} /\ LastSequence \in Nat
         /\ \A e \in t : Key(e) \in Nat /\ e \in Nat /\ e <= LastSequence
<1>1. t \subseteq 1..LastSequence /\ t # {}
  BY DEF Tables
<1>2. ASSUME NEW n \in Nat, NEW e \in 1..n
      PROVE  e \in Nat /\ e <= n
  OBVIOUS
<1> QED
  BY <1>1, <1>2, KeyTyped

(* Precedes is a total order.                                              *)
LEMMA OrderIs ==
  ASSUME TreeTyped, NEW d \in 1..LastSequence, NEW e \in 1..LastSequence
  PROVE  /\ ~Precedes(e, e)
         /\ d = e \/ Precedes(d, e) \/ Precedes(e, d)
         /\ ~(Precedes(d, e) /\ Precedes(e, d))
         /\ \A f \in 1..LastSequence : Precedes(d, e) /\ Precedes(e, f) => Precedes(d, f)
<1>1. \A f \in 1..LastSequence : Key(f) \in Nat /\ f \in Nat
  BY KeyTyped
<1> QED
  BY <1>1 DEF Precedes

(* Every table has a first and a last entry.                               *)
LEMMA SmallestIs ==
  ASSUME TreeTyped, NEW t \in Tables
  PROVE  /\ Smallest(t) \in t
         /\ \A e \in t \ {Smallest(t)} : Precedes(Smallest(t), e)
<1>1. t \subseteq 1..LastSequence /\ t # {} /\ LastSequence \in Nat
      /\ \A e \in t : Key(e) \in Nat /\ e \in Nat /\ e <= LastSequence
  BY TableTyped
<1>2. PICK d \in t : \A e \in t : Key(d) <= Key(e)
  <2> DEFINE K == {Key(e) : e \in t}
  <2>1. PICK k \in K : \A x \in K : k <= x
    <3>1. K \subseteq Nat /\ K # {}
      BY <1>1
    <3> HIDE DEF K
    <3> QED
      BY <3>1, LeastOf
  <2> QED
    BY <2>1
<1>3. PICK f \in {e \in t : Key(e) = Key(d)} : \A e \in {e \in t : Key(e) = Key(d)} : e <= f
  <2> DEFINE T == {e \in t : Key(e) = Key(d)}
  <2>1. T \subseteq Nat /\ T # {} /\ \A e \in T : e <= LastSequence
    BY <1>1
  <2> HIDE DEF T
  <2>2. \E f \in T : \A e \in T : e <= f
    BY <1>1, <2>1, GreatestOf
  <2> QED
    BY <2>2 DEF T
<1>4. \A e \in t \ {f} : Precedes(f, e)
  BY <1>1, <1>2, <1>3 DEF Precedes
<1> QED
  BY <1>3, <1>4 DEF Smallest

LEMMA LargestIs ==
  ASSUME TreeTyped, NEW t \in Tables
  PROVE  /\ Largest(t) \in t
         /\ \A e \in t \ {Largest(t)} : Precedes(e, Largest(t))
<1>1. t \subseteq 1..LastSequence /\ t # {} /\ LastSequence \in Nat
      /\ \A e \in t : Key(e) \in Nat /\ e \in Nat /\ e <= LastSequence
  BY TableTyped
<1>2. PICK d \in t : \A e \in t : Key(e) <= Key(d)
  <2> DEFINE K == {Key(e) : e \in t}
  <2>2. \E b \in Nat : \A e \in 1..LastSequence : Key(e) <= b
    <3>1. \A e \in 1..LastSequence : Key(e) \in Nat
      BY KeyTyped
    <3>2. \E b \in Nat : \A i \in 1..LastSequence : [e \in 1..LastSequence |-> Key(e)][i] <= b
      BY <1>1, <3>1, BoundOf
    <3> QED
      BY <3>2
  <2>3. PICK b \in Nat : \A e \in 1..LastSequence : Key(e) <= b
    BY <2>2
  <2>4. PICK k \in K : \A x \in K : x <= k
    <3>1. K \subseteq Nat /\ K # {} /\ \A x \in K : x <= b
      BY <1>1, <2>3
    <3> HIDE DEF K
    <3> QED
      BY <3>1, GreatestOf
  <2> QED
    BY <2>4
<1>3. PICK f \in {e \in t : Key(e) = Key(d)} : \A e \in {e \in t : Key(e) = Key(d)} : f <= e
  <2> DEFINE T == {e \in t : Key(e) = Key(d)}
  <2>1. T \subseteq Nat /\ T # {}
    BY <1>1
  <2> HIDE DEF T
  <2>2. \E f \in T : \A e \in T : f <= e
    BY <2>1, LeastOf
  <2> QED
    BY <2>2 DEF T
<1>4. \A e \in t \ {f} : Precedes(e, f)
  BY <1>1, <1>2, <1>3 DEF Precedes
<1> QED
  BY <1>3, <1>4 DEF Largest
-----------------------------------------------------------------------------
(* The ranges of tables.                                                   *)

LEMMA SpanIs ==
  ASSUME TreeTyped, NEW t \in Tables
  PROVE  /\ Key(Smallest(t)) \in Nat /\ Key(Largest(t)) \in Nat
         /\ Key(Smallest(t)) <= Key(Largest(t))
         /\ \A e \in t : Key(e) \in Nat /\ Key(Smallest(t)) <= Key(e) /\ Key(e) <= Key(Largest(t))
<1>1. \A e \in t : Key(e) \in Nat
  BY TableTyped
<1>2. Smallest(t) \in t /\ \A e \in t \ {Smallest(t)} : Precedes(Smallest(t), e)
  BY SmallestIs
<1>3. Largest(t) \in t /\ \A e \in t \ {Largest(t)} : Precedes(e, Largest(t))
  BY LargestIs
<1>4. \A e \in t : Key(Smallest(t)) <= Key(e)
  BY <1>1, <1>2 DEF Precedes
<1>5. \A e \in t : Key(e) <= Key(Largest(t))
  BY <1>1, <1>3 DEF Precedes
<1> QED
  BY <1>1, <1>2, <1>3, <1>4, <1>5

(* The range of some tables reaches from the first of them to the last.    *)
LEMMA ReachIs ==
  ASSUME TreeTyped, NEW S, S \subseteq Tables, S # {}
  PROVE  /\ From(S) \in Nat /\ To(S) \in Nat /\ From(S) <= To(S)
         /\ \A t \in S : From(S) <= Key(Smallest(t)) /\ Key(Largest(t)) <= To(S)
         /\ \E t \in S : Key(Largest(t)) = To(S)
         /\ \E t \in S : Key(Smallest(t)) = From(S)
<1> DEFINE E == Entries(S)
<1>1. E \in Tables
  BY DEF Entries, Tables
<1>2. From(S) = Key(Smallest(E)) /\ To(S) = Key(Largest(E))
  BY DEF From, To
<1>3. \A t \in S : t \in Tables /\ t \subseteq E
  BY DEF Entries
<1>4. Smallest(E) \in E /\ Largest(E) \in E
  BY <1>1, SmallestIs, LargestIs
<1>5. \E t \in S : Largest(E) \in t
  BY <1>4 DEF Entries
<1>6. \E t \in S : Smallest(E) \in t
  BY <1>4 DEF Entries
<1> HIDE DEF E
<1>7. /\ Key(Smallest(E)) \in Nat /\ Key(Largest(E)) \in Nat /\ Key(Smallest(E)) <= Key(Largest(E))
      /\ \A e \in E : Key(e) \in Nat /\ Key(Smallest(E)) <= Key(e) /\ Key(e) <= Key(Largest(E))
  BY <1>1, SpanIs
<1>8. \A t \in S : Key(Smallest(E)) <= Key(Smallest(t)) /\ Key(Largest(t)) <= Key(Largest(E))
  <2> SUFFICES ASSUME NEW t \in S
               PROVE  Key(Smallest(E)) <= Key(Smallest(t)) /\ Key(Largest(t)) <= Key(Largest(E))
    OBVIOUS
  <2>1. Smallest(t) \in t /\ Largest(t) \in t
    BY <1>3, SmallestIs, LargestIs
  <2> QED
    BY <1>3, <1>7, <2>1
<1>9. \E t \in S : Key(Largest(t)) = Key(Largest(E))
  <2>1. PICK t \in S : Largest(E) \in t
    BY <1>5
  <2>2. Key(Largest(E)) <= Key(Largest(t)) /\ Key(Largest(t)) \in Nat
    BY <1>3, <2>1, SpanIs
  <2> QED
    BY <1>7, <1>8, <2>2
<1>10. \E t \in S : Key(Smallest(t)) = Key(Smallest(E))
  <2>1. PICK t \in S : Smallest(E) \in t
    BY <1>6
  <2>2. Key(Smallest(t)) <= Key(Smallest(E)) /\ Key(Smallest(t)) \in Nat
    BY <1>3, <2>1, SpanIs
  <2> QED
    BY <1>7, <1>8, <2>2
<1> QED
  BY <1>2, <1>7, <1>8, <1>9, <1>10

(* Of two tables that are apart one comes before the other.                *)
Before(t, u) == \A d \in t, e \in u : Precedes(d, e)
Apart(t, u) == Before(t, u) \/ Before(u, t)

LEMMA BeforeIs ==
  ASSUME TreeTyped, NEW t \in Tables, NEW u \in Tables
  PROVE  /\ Before(t, u) <=> Precedes(Largest(t), Smallest(u))
         /\ Key(Largest(t)) < Key(Smallest(u)) => Before(t, u)
<1>1. Largest(t) \in t /\ \A e \in t \ {Largest(t)} : Precedes(e, Largest(t))
  BY LargestIs
<1>2. Smallest(u) \in u /\ \A e \in u \ {Smallest(u)} : Precedes(Smallest(u), e)
  BY SmallestIs
<1>3. t \subseteq 1..LastSequence /\ u \subseteq 1..LastSequence
  BY DEF Tables
<1>4. ASSUME Precedes(Largest(t), Smallest(u)), NEW d \in t, NEW e \in u
      PROVE  Precedes(d, e)
  <2>1. d = Largest(t) \/ Precedes(d, Largest(t))
    BY <1>1
  <2>2. e = Smallest(u) \/ Precedes(Smallest(u), e)
    BY <1>2
  <2>3. Precedes(d, Smallest(u))
    BY <1>1, <1>2, <1>3, <1>4, <2>1, OrderIs
  <2> QED
    BY <1>2, <1>3, <2>2, <2>3, OrderIs
<1>5. Key(Largest(t)) < Key(Smallest(u)) => Precedes(Largest(t), Smallest(u))
  BY DEF Precedes
<1> QED
  BY <1>1, <1>2, <1>4, <1>5 DEF Before

LEMMA OverlapApart ==
  ASSUME TreeTyped, NEW t \in Tables, NEW u \in Tables,
         ~Overlaps(u, Key(Smallest(t)), Key(Largest(t)))
  PROVE  Apart(t, u)
<1>1. Key(Smallest(t)) \in Nat /\ Key(Largest(t)) \in Nat
      /\ Key(Smallest(u)) \in Nat /\ Key(Largest(u)) \in Nat
  BY SpanIs
<1>2. Key(Largest(u)) < Key(Smallest(t)) \/ Key(Largest(t)) < Key(Smallest(u))
  BY <1>1 DEF Overlaps
<1> QED
  BY <1>2, BeforeIs DEF Apart

(* A table before a key, or after it.                                      *)
Left(t, key) == \A e \in t : Key(e) < key
Right(t, key) == \A e \in t : key < Key(e)

LEMMA SidesAre ==
  ASSUME TreeTyped, NEW t \in Tables, NEW a \in Nat, NEW b \in Nat
  PROVE  /\ Left(t, a) <=> Key(Largest(t)) < a
         /\ Right(t, b) <=> b < Key(Smallest(t))
         /\ Overlaps(t, a, b) <=> ~Left(t, a) /\ ~Right(t, b)
<1>1. /\ Key(Smallest(t)) \in Nat /\ Key(Largest(t)) \in Nat
      /\ \A e \in t : Key(e) \in Nat /\ Key(Smallest(t)) <= Key(e) /\ Key(e) <= Key(Largest(t))
  BY SpanIs
<1>2. Smallest(t) \in t /\ Largest(t) \in t
  BY SmallestIs, LargestIs
<1>3. Left(t, a) <=> Key(Largest(t)) < a
  BY <1>1, <1>2 DEF Left
<1>4. Right(t, b) <=> b < Key(Smallest(t))
  BY <1>1, <1>2 DEF Right
<1> QED
  BY <1>1, <1>3, <1>4 DEF Overlaps

(* No range fits between tables that are gapless: it lies on one side.     *)
Gapless(S) ==
  \A a, b \in Nat :
    a <= b /\ (\A t \in S : Left(t, a) \/ Right(t, b))
    => (\A t \in S : Left(t, a)) \/ (\A t \in S : Right(t, b))

LEMMA GaplessTable ==
  ASSUME NEW t
  PROVE  Gapless({t})
BY DEF Gapless

(* Tables that overlap the range of gapless ones leave no gap.             *)
LEMMA GaplessGrows ==
  ASSUME TreeTyped, NEW R, R \subseteq Tables, NEW S, S \subseteq R, S # {}, Gapless(S),
         \A t \in R \ S : Overlaps(t, From(S), To(S))
  PROVE  Gapless(R)
<1> SUFFICES ASSUME NEW a \in Nat, NEW b \in Nat, a <= b, \A t \in R : Left(t, a) \/ Right(t, b)
             PROVE  (\A t \in R : Left(t, a)) \/ (\A t \in R : Right(t, b))
  BY DEF Gapless
<1>1. From(S) \in Nat /\ To(S) \in Nat
      /\ (\E t \in S : Key(Largest(t)) = To(S)) /\ (\E t \in S : Key(Smallest(t)) = From(S))
  BY ReachIs
<1>2. (\A t \in S : Left(t, a)) \/ (\A t \in S : Right(t, b))
  BY DEF Gapless
<1>3. \A t \in R : Key(Smallest(t)) \in Nat /\ Key(Largest(t)) \in Nat
                   /\ Key(Smallest(t)) <= Key(Largest(t))
  BY SpanIs
<1>4. \A t \in R : (Left(t, a) <=> Key(Largest(t)) < a) /\ (Right(t, b) <=> b < Key(Smallest(t)))
  BY SidesAre
<1>5. CASE \A t \in S : Left(t, a)
  <2>1. To(S) < a
    BY <1>1, <1>4, <1>5
  <2>2. ASSUME NEW t \in R \ S
        PROVE  Left(t, a)
    <3>1. Key(Smallest(t)) <= To(S)
      BY <2>2 DEF Overlaps
    <3> QED
      BY <1>1, <1>3, <1>4, <2>1, <3>1
  <2> QED
    BY <1>5, <2>2
<1>6. CASE \A t \in S : Right(t, b)
  <2>1. b < From(S)
    BY <1>1, <1>4, <1>6
  <2>2. ASSUME NEW t \in R \ S
        PROVE  Right(t, b)
    <3>1. From(S) <= Key(Largest(t))
      BY <1>1, <1>3, <2>2 DEF Overlaps
    <3> QED
      BY <1>1, <1>3, <1>4, <2>1, <3>1
  <2> QED
    BY <1>6, <2>2
<1> QED
  BY <1>2, <1>5, <1>6

(* The range of some tables and a set of them more.                        *)
LEMMA ReachGrows ==
  ASSUME TreeTyped, NEW S, S \subseteq Tables, S # {}, NEW F, F \subseteq Tables, F # {}
  PROVE  /\ From(S \cup F) = Min({From(S), From(F)}) /\ Min({From(S), From(F)}) <= From(S)
         /\ To(S \cup F) = Max({To(S), To(F)}) /\ To(S) <= Max({To(S), To(F)})
<1> DEFINE R == S \cup F
<1>1. R \subseteq Tables /\ R # {}
  OBVIOUS
<1>2. /\ From(S) \in Nat /\ To(S) \in Nat
      /\ \A t \in S : From(S) <= Key(Smallest(t)) /\ Key(Largest(t)) <= To(S)
      /\ \E t \in S : Key(Largest(t)) = To(S)
      /\ \E t \in S : Key(Smallest(t)) = From(S)
  BY ReachIs
<1>3. /\ From(F) \in Nat /\ To(F) \in Nat
      /\ \A t \in F : From(F) <= Key(Smallest(t)) /\ Key(Largest(t)) <= To(F)
      /\ \E t \in F : Key(Largest(t)) = To(F)
      /\ \E t \in F : Key(Smallest(t)) = From(F)
  BY ReachIs
<1>4. /\ From(R) \in Nat /\ To(R) \in Nat
      /\ \A t \in R : From(R) <= Key(Smallest(t)) /\ Key(Largest(t)) <= To(R)
      /\ \E t \in R : Key(Largest(t)) = To(R)
      /\ \E t \in R : Key(Smallest(t)) = From(R)
  BY <1>1, ReachIs
<1>5. \A t \in R : Key(Smallest(t)) \in Nat /\ Key(Largest(t)) \in Nat
  BY SpanIs
<1> HIDE DEF R
<1>6. S \subseteq R /\ F \subseteq R /\ \A t \in R : t \in S \/ t \in F
  BY DEF R
<1>7. From(R) <= From(S) /\ From(R) <= From(F) /\ (From(R) = From(S) \/ From(R) = From(F))
  <2>1. PICK t \in R : Key(Smallest(t)) = From(R)
    BY <1>4
  <2>2. From(R) >= From(S) \/ From(R) >= From(F)
    BY <1>2, <1>3, <1>6, <2>1
  <2>3. From(R) <= From(S) /\ From(R) <= From(F)
    BY <1>2, <1>3, <1>4, <1>6
  <2> QED
    BY <1>2, <1>3, <1>4, <2>2, <2>3
<1>8. To(S) <= To(R) /\ To(F) <= To(R) /\ (To(R) = To(S) \/ To(R) = To(F))
  <2>1. PICK t \in R : Key(Largest(t)) = To(R)
    BY <1>4
  <2>2. To(R) <= To(S) \/ To(R) <= To(F)
    BY <1>2, <1>3, <1>6, <2>1
  <2>3. To(S) <= To(R) /\ To(F) <= To(R)
    BY <1>2, <1>3, <1>4, <1>6
  <2> QED
    BY <1>2, <1>3, <1>4, <2>2, <2>3
<1>9. /\ Min({From(S), From(F)}) \in {From(S), From(F)}
      /\ \A x \in {From(S), From(F)} : Min({From(S), From(F)}) <= x
  BY <1>2, <1>3, MinIs
<1>10. /\ Max({To(S), To(F)}) \in {To(S), To(F)}
       /\ \A x \in {To(S), To(F)} : x <= Max({To(S), To(F)})
  <2>1. {To(S), To(F)} \subseteq Nat /\ {To(S), To(F)} # {} /\ To(R) \in Nat
        /\ \A x \in {To(S), To(F)} : x <= To(R)
    BY <1>2, <1>3, <1>4, <1>8
  <2> QED
    BY <2>1, MaxIs
<1>11. From(R) = Min({From(S), From(F)})
  BY <1>2, <1>3, <1>4, <1>7, <1>9
<1>12. To(R) = Max({To(S), To(F)})
  BY <1>2, <1>3, <1>4, <1>8, <1>10
<1> QED
  BY <1>9, <1>10, <1>11, <1>12 DEF R
-----------------------------------------------------------------------------
(* What a search in a level finds.                                         *)

(* A level has finitely many tables.                                       *)
LEMMA FiniteLevels ==
  ASSUME TreeTyped, NEW level \in Levels
  PROVE  /\ levels[level] \subseteq Tables
         /\ IsFiniteSet(levels[level]) /\ Cardinality(levels[level]) \in Nat
<1>1. levels[level] \subseteq Tables
  BY DEF TreeTyped
<1>2. LastSequence \in Nat
  BY KeyTyped
<1>3. IsFiniteSet(SUBSET (1..LastSequence))
  <2>1. IsFiniteSet(1..LastSequence)
    BY <1>2, FS_Interval
  <2> QED
    BY <2>1, FS_SUBSET, Zenon
<1>4. IsFiniteSet(levels[level])
  BY <1>1, <1>3, FS_Subset DEF Tables
<1> QED
  BY <1>1, <1>4, FS_CardinalityType

Within(level, from, to) == {t \in levels[level] : Overlaps(t, from, to)}

(* One more round of the search.                                           *)
Wider(level, from, to, found) ==
  IF level > 0 THEN Within(level, from, to)
  ELSE IF found = {} THEN {}
  ELSE Within(level, Min({from, From(found)}), Max({to, To(found)}))

Rounds(f, N, level, from, to) ==
  /\ f \in [0..N -> SUBSET levels[level]] /\ f[0] = Within(level, from, to)
  /\ \A n \in 1..N : f[n] = Wider(level, from, to, f[n - 1])
  /\ OverlappingInputs(level, from, to) = f[N]

(* The search in a level goes in rounds, no more than there are tables.    *)
LEMMA SearchRounds ==
  ASSUME TreeTyped, NEW level \in Levels, NEW from, NEW to
  PROVE  /\ Cardinality(levels[level]) \in Nat
         /\ \E f : Rounds(f, Cardinality(levels[level]), level, from, to)
<1> DEFINE N == Cardinality(levels[level])
           V == SUBSET levels[level]
           Body(f, n) == IF n = 0 \/ level > 0 THEN Within(level, from, to)
                         ELSE IF f[n - 1] = {} THEN {}
                         ELSE Within(level, Min({from, From(f[n - 1])}), Max({to, To(f[n - 1])}))
           Found(f) == f = [n \in 0..N |-> Body(f, n)]
           found == CHOOSE f : Found(f)
<1>1. N \in Nat
  BY FiniteLevels
<1>2. \A n \in 1..N, x \in V : Wider(level, from, to, x) \in V
  BY DEF Wider, Within
<1>3. \E f \in [0..N -> V] : f[0] = Within(level, from, to)
                             /\ \A n \in 1..N : f[n] = Wider(level, from, to, f[n - 1])
  <2> DEFINE G == [n \in 1..N |-> [x \in V |-> Wider(level, from, to, x)]]
  <2>1. \A n \in 1..N, x \in V : G[n][x] = Wider(level, from, to, x) /\ G[n][x] \in V
    BY <1>2
  <2>2. Within(level, from, to) \in V
    BY DEF Within
  <2> DEFINE v == Within(level, from, to)
  <2> HIDE DEF G, V, N, v
  <2>5. v \in V /\ \A n \in 1..N : \A x \in V : G[n][x] \in V
    BY <2>1, <2>2 DEF v
  <2>6. \E f : f \in Iterations(V, v, N, G)
    BY ONLY <1>1, <2>5, IterationExists
  <2>3. PICK f \in [0..N -> V] : f[0] = Within(level, from, to)
                                 /\ \A n \in 1..N : f[n] = G[n][f[n - 1]]
    BY <2>6 DEF v, Iterations
  <2>4. ASSUME NEW n \in 1..N
        PROVE  f[n] = Wider(level, from, to, f[n - 1])
    <3>1. f[n - 1] \in V
      BY <1>1
    <3>2. G[n][f[n - 1]] = Wider(level, from, to, f[n - 1])
      BY <2>1, <3>1
    <3> QED
      BY <2>3, <3>2
  <2> QED
    BY <2>3, <2>4
<1>4. ASSUME NEW f, \A n \in 0..N : f[n] = Body(f, n)
      PROVE  f[0] = Within(level, from, to) /\ \A n \in 1..N : f[n] = Wider(level, from, to, f[n - 1])
  <2>1. 0 \in 0..N /\ \A n \in 1..N : n \in 0..N /\ n # 0
    BY <1>1
  <2> QED
    BY <1>4, <2>1 DEF Wider
<1>5. ASSUME NEW f, f[0] = Within(level, from, to), NEW n \in 0..N,
             \A k \in 1..N : f[k] = Wider(level, from, to, f[k - 1])
      PROVE  f[n] = Body(f, n)
  <2>1. n = 0 \/ n \in 1..N
    BY <1>1
  <2>2. CASE n = 0
    BY <1>5, <2>2
  <2>3. CASE n # 0
    <3>1. f[n] = Wider(level, from, to, f[n - 1])
      BY <1>5, <2>1, <2>3
    <3> QED
      BY <2>3, <3>1 DEF Wider
  <2> QED
    BY <2>2, <2>3
<1>6. OverlappingInputs(level, from, to) = found[N]
  BY DEF OverlappingInputs, Within
<1> HIDE DEF Body, N, V
<1>7. \E f : Found(f)
  <2>1. PICK f \in [0..N -> V] : f[0] = Within(level, from, to)
                                 /\ \A n \in 1..N : f[n] = Wider(level, from, to, f[n - 1])
    BY <1>3
  <2>2. f = [n \in 0..N |-> Body(f, n)]
    BY <1>5, <2>1
  <2> QED
    BY <2>2
<1>8. Found(found)
  <2> HIDE DEF Found
  <2> QED
    BY <1>7
<1> HIDE DEF found
<1>9. \A n \in 0..N : found[n] = Body(found, n)
  BY <1>8
<1>10. found \in [0..N -> V]
  <2>1. \A n \in 0..N : Body(found, n) \in V
    BY DEF Body, V, Within
  <2>2. found = [n \in 0..N |-> Body(found, n)]
    BY <1>8
  <2> QED
    BY <2>1, <2>2
<1>11. found[0] = Within(level, from, to)
       /\ \A n \in 1..N : found[n] = Wider(level, from, to, found[n - 1])
  BY <1>4, <1>9
<1>12. Rounds(found, N, level, from, to)
  BY <1>1, <1>6, <1>10, <1>11 DEF V, Rounds
<1> QED
  BY <1>1, <1>12 DEF N

LEMMA SearchWithin ==
  ASSUME TreeTyped, NEW level \in Levels, NEW from, NEW to
  PROVE  OverlappingInputs(level, from, to) \subseteq levels[level]
<1> DEFINE N == Cardinality(levels[level])
<1>1. N \in Nat /\ \E f : Rounds(f, N, level, from, to)
  BY SearchRounds
<1> HIDE DEF N
<1>2. PICK f : Rounds(f, N, level, from, to)
  BY <1>1
<1>3. N \in 0..N
  BY <1>1
<1> QED
  BY <1>2, <1>3 DEF Rounds

(* It finds the tables that meet the range, below level 0 only those.      *)
LEMMA SearchIs ==
  ASSUME TreeTyped, NEW level \in Levels, NEW from \in Nat, NEW to \in Nat
  PROVE  /\ OverlappingInputs(level, from, to) \subseteq levels[level]
         /\ level > 0 => OverlappingInputs(level, from, to) = Within(level, from, to)
         /\ \A t \in levels[level] : Overlaps(t, from, to) => t \in OverlappingInputs(level, from, to)
<1> DEFINE N == Cardinality(levels[level])
<1>1. N \in Nat /\ \E f : Rounds(f, N, level, from, to)
  BY SearchRounds
<1> HIDE DEF N
<1>2. PICK f \in [0..N -> SUBSET levels[level]] :
           /\ f[0] = Within(level, from, to)
           /\ \A n \in 1..N : f[n] = Wider(level, from, to, f[n - 1])
           /\ OverlappingInputs(level, from, to) = f[N]
  BY <1>1 DEF Rounds
<1>3. N \in 0..N /\ f[N] \subseteq levels[level] /\ (N = 0 \/ N \in 1..N)
  BY <1>1
<1>4. ASSUME level > 0
      PROVE  f[N] = Within(level, from, to)
  BY <1>2, <1>3, <1>4 DEF Wider
<1>5. ASSUME NEW t \in levels[level], Overlaps(t, from, to)
      PROVE  t \in f[N]
  <2> DEFINE T == {n \in Nat : n <= N => t \in f[n]}
  <2>1. 0 \in T
    BY <1>2, <1>5 DEF Within
  <2>2. ASSUME NEW n \in Nat, n \in T
        PROVE  n + 1 \in T
    <3> SUFFICES ASSUME n + 1 <= N PROVE t \in f[n + 1]
      OBVIOUS
    <3>1. n + 1 \in 1..N /\ (n + 1) - 1 = n /\ n \in 0..N /\ t \in f[n]
      BY <1>1, <2>2
    <3>2. f[n + 1] = Wider(level, from, to, f[n])
      BY <1>2, <3>1
    <3>3. f[n] \subseteq Tables /\ f[n] # {} /\ t \in Tables
      BY <3>1, FiniteLevels
    <3>4. From(f[n]) \in Nat /\ To(f[n]) \in Nat
      BY <3>3, ReachIs
    <3>5. /\ Min({from, From(f[n])}) \in {from, From(f[n])} /\ Min({from, From(f[n])}) <= from
      BY <3>4, MinIs
    <3>6. /\ Max({to, To(f[n])}) \in {to, To(f[n])} /\ to <= Max({to, To(f[n])})
      <4>1. {to, To(f[n])} \subseteq Nat /\ {to, To(f[n])} # {} /\ to + To(f[n]) \in Nat
            /\ \A x \in {to, To(f[n])} : x <= to + To(f[n])
        BY <3>4
      <4> QED
        BY <4>1, MaxIs
    <3>7. Key(Smallest(t)) \in Nat /\ Key(Largest(t)) \in Nat
      BY <3>3, SpanIs
    <3>8. Overlaps(t, Min({from, From(f[n])}), Max({to, To(f[n])}))
      BY <1>5, <3>4, <3>5, <3>6, <3>7 DEF Overlaps
    <3> QED
      BY <1>5, <3>2, <3>3, <3>8 DEF Wider, Within
  <2>3. N \in T
    <3> HIDE DEF T
    <3> QED
      BY <1>1, <2>1, <2>2, SetInduction
  <2> QED
    BY <1>1, <2>3
<1> QED
  BY <1>2, <1>3, <1>4, <1>5

(* What a search from the range of gapless tables finds leaves no gap.     *)
LEMMA SearchGapless ==
  ASSUME TreeTyped, NEW level \in Levels, NEW S, S \subseteq Tables, S # {}, Gapless(S)
  PROVE  Gapless(S \cup OverlappingInputs(level, From(S), To(S)))
<1> DEFINE from == From(S)
           to == To(S)
<1>0. from \in Nat /\ to \in Nat
  BY ReachIs
<1> DEFINE N == Cardinality(levels[level])
<1>1. N \in Nat /\ \E f : Rounds(f, N, level, from, to)
  BY SearchRounds
<1> HIDE DEF N
<1>2. PICK f \in [0..N -> SUBSET levels[level]] :
           /\ f[0] = Within(level, from, to)
           /\ \A n \in 1..N : f[n] = Wider(level, from, to, f[n - 1])
           /\ OverlappingInputs(level, from, to) = f[N]
  BY <1>1 DEF Rounds
<1>3. levels[level] \subseteq Tables
  BY FiniteLevels
<1>4. Gapless(S \cup Within(level, from, to))
  <2> DEFINE R == S \cup Within(level, from, to)
  <2>1. R \subseteq Tables /\ S \subseteq R /\ \A t \in R \ S : Overlaps(t, from, to)
    BY <1>3 DEF Within
  <2> HIDE DEF R
  <2>2. Gapless(R)
    BY <2>1, GaplessGrows
  <2> QED
    BY <2>2 DEF R
<1> HIDE DEF from, to
<1> DEFINE T == {n \in Nat : n <= N => Gapless(S \cup f[n])}
<1>5. 0 \in T
  BY <1>2, <1>4
<1>6. ASSUME NEW n \in Nat, n \in T
      PROVE  n + 1 \in T
  <2> SUFFICES ASSUME n + 1 <= N PROVE Gapless(S \cup f[n + 1])
    OBVIOUS
  <2>1. n + 1 \in 1..N /\ (n + 1) - 1 = n /\ n \in 0..N /\ Gapless(S \cup f[n])
    BY <1>1, <1>6
  <2>2. f[n + 1] = Wider(level, from, to, f[n])
    BY <1>2, <2>1
  <2>3. f[n] \subseteq Tables /\ f[n] \subseteq levels[level]
    BY <1>3, <2>1
  <2>4. CASE level > 0
    BY <1>4, <2>2, <2>4 DEF Wider
  <2>5. CASE ~(level > 0) /\ f[n] = {}
    <3>1. f[n + 1] = f[n]
      BY <2>2, <2>5 DEF Wider
    <3> QED
      BY <2>1, <3>1
  <2>6. CASE ~(level > 0) /\ f[n] # {}
    <3> DEFINE P == S \cup f[n]
               R == S \cup f[n + 1]
    <3>1. f[n + 1] = Within(level, Min({from, From(f[n])}), Max({to, To(f[n])}))
      BY <2>2, <2>6 DEF Wider
    <3>2. From(P) = Min({from, From(f[n])}) /\ To(P) = Max({to, To(f[n])})
      BY <2>3, <2>6, ReachGrows DEF from, to
    <3>3. f[n + 1] = Within(level, From(P), To(P))
      BY <3>1, <3>2
    <3>4. P \subseteq Tables /\ P # {} /\ Gapless(P)
      BY <2>1, <2>3
    <3>5. R \subseteq Tables /\ \A t \in R \ P : Overlaps(t, From(P), To(P))
      BY <1>3, <3>3 DEF Within
    <3>6. P \subseteq R
      <4> SUFFICES ASSUME NEW t \in f[n] PROVE t \in f[n + 1]
        OBVIOUS
      <4>1. t \in P /\ t \in levels[level] /\ t \in Tables
        BY <2>3
      <4> HIDE DEF P
      <4>2. From(P) <= Key(Smallest(t)) /\ Key(Largest(t)) <= To(P)
            /\ From(P) \in Nat /\ To(P) \in Nat
        BY <3>4, <4>1, ReachIs
      <4>3. Key(Smallest(t)) \in Nat /\ Key(Largest(t)) \in Nat
            /\ Key(Smallest(t)) <= Key(Largest(t))
        BY <4>1, SpanIs
      <4> QED
        BY <3>3, <4>1, <4>2, <4>3 DEF Within, Overlaps
    <3> HIDE DEF P, R
    <3>7. Gapless(R)
      BY <3>4, <3>5, <3>6, GaplessGrows
    <3> QED
      BY <3>7 DEF R
  <2> QED
    BY <2>4, <2>5, <2>6
<1>7. N \in T
  <2> HIDE DEF T
  <2> QED
    BY <1>1, <1>5, <1>6, SetInduction
<1>8. Gapless(S \cup f[N])
  BY <1>1, <1>7
<1> QED
  BY <1>2, <1>8 DEF from, to
(* In level 0 the search goes on until it finds no more: a table it leaves *)
(* does not meet the range of those it found.                              *)
LEMMA SearchCloses ==
  ASSUME TreeTyped, NEW from \in Nat, NEW to \in Nat,
         OverlappingInputs(0, from, to) # {},
         NEW t \in levels[0],
         Overlaps(t, From(OverlappingInputs(0, from, to)), To(OverlappingInputs(0, from, to)))
  PROVE  t \in OverlappingInputs(0, from, to)
<1> DEFINE N == Cardinality(levels[0])
           F == OverlappingInputs(0, from, to)
<1>1. 0 \in Levels /\ levels[0] \subseteq Tables /\ N \in Nat /\ IsFiniteSet(levels[0])
  <2>1. 0 \in Levels
    BY TreeAssumption DEF Levels
  <2> QED
    BY <2>1, FiniteLevels
<1>2. PICK f : Rounds(f, N, 0, from, to)
  BY <1>1, SearchRounds
<1>3. /\ f \in [0..N -> SUBSET levels[0]]
      /\ \A n \in 1..N : f[n] = Wider(0, from, to, f[n - 1])
      /\ F = f[N]
  BY <1>2 DEF Rounds
<1> HIDE DEF N, F
<1>4. \A n \in Nat : n < N => /\ n \in 0..N /\ n + 1 \in 0..N
                              /\ f[n + 1] = Wider(0, from, to, f[n])
                              /\ f[n] \subseteq levels[0] /\ f[n + 1] \subseteq levels[0]
  <2> SUFFICES ASSUME NEW n \in Nat, n < N
               PROVE  /\ n \in 0..N /\ n + 1 \in 0..N
                      /\ f[n + 1] = Wider(0, from, to, f[n])
                      /\ f[n] \subseteq levels[0] /\ f[n + 1] \subseteq levels[0]
    OBVIOUS
  <2>1. n \in 0..N /\ n + 1 \in 0..N /\ n + 1 \in 1..N /\ (n + 1) - 1 = n
    BY <1>1
  <2> QED
    BY <1>3, <2>1
<1>5. ASSUME NEW S, S \subseteq levels[0], S # {}
      PROVE  /\ Wider(0, from, to, S) = Within(0, Min({from, From(S)}), Max({to, To(S)}))
             /\ Min({from, From(S)}) \in Nat /\ Max({to, To(S)}) \in Nat
             /\ From(S) \in Nat /\ To(S) \in Nat
             /\ Min({from, From(S)}) <= From(S) /\ To(S) <= Max({to, To(S)})
  <2>1. From(S) \in Nat /\ To(S) \in Nat
    BY <1>1, <1>5, ReachIs
  <2>2. /\ Min({from, From(S)}) \in {from, From(S)} /\ Min({from, From(S)}) <= From(S)
    BY <2>1, MinIs
  <2>3. /\ Max({to, To(S)}) \in {to, To(S)} /\ To(S) <= Max({to, To(S)})
    <3>1. {to, To(S)} \subseteq Nat /\ {to, To(S)} # {} /\ to + To(S) \in Nat
          /\ \A x \in {to, To(S)} : x <= to + To(S)
      BY <2>1
    <3> QED
      BY <3>1, MaxIs
  <2> QED
    BY <1>5, <2>1, <2>2, <2>3 DEF Wider
<1>6. ASSUME NEW S, S \subseteq levels[0], S # {}, NEW u \in levels[0], Overlaps(u, From(S), To(S))
      PROVE  u \in Wider(0, from, to, S)
  <2>1. Key(Smallest(u)) \in Nat /\ Key(Largest(u)) \in Nat
    BY <1>1, SpanIs
  <2> DEFINE a == Min({from, From(S)})
             b == Max({to, To(S)})
  <2>2. /\ Wider(0, from, to, S) = Within(0, a, b)
        /\ a \in Nat /\ b \in Nat /\ From(S) \in Nat /\ To(S) \in Nat
        /\ a <= From(S) /\ To(S) <= b
    BY <1>5, <1>6
  <2> HIDE DEF a, b
  <2>3. Overlaps(u, a, b)
    BY <1>6, <2>1, <2>2 DEF Overlaps
  <2> QED
    BY <1>6, <2>2, <2>3 DEF Within
<1>7. ASSUME NEW n \in Nat, n < N
      PROVE  f[n] \subseteq f[n + 1]
  <2> SUFFICES ASSUME NEW u \in f[n] PROVE u \in f[n + 1]
    OBVIOUS
  <2>1. f[n] \subseteq levels[0] /\ f[n] # {} /\ u \in levels[0]
    BY <1>4, <1>7
  <2>2. f[n] \subseteq Tables /\ u \in Tables
    BY <1>1, <2>1
  <2>3. Overlaps(u, From(f[n]), To(f[n]))
    <3>1. From(f[n]) <= Key(Smallest(u)) /\ Key(Largest(u)) <= To(f[n])
          /\ From(f[n]) \in Nat /\ To(f[n]) \in Nat
      BY <2>1, <2>2, ReachIs
    <3>2. Key(Smallest(u)) \in Nat /\ Key(Largest(u)) \in Nat
          /\ Key(Smallest(u)) <= Key(Largest(u))
      BY <2>2, SpanIs
    <3> QED
      BY <3>1, <3>2 DEF Overlaps
  <2> QED
    BY <1>4, <1>6, <1>7, <2>1, <2>3
<1>8. PICK n \in Nat : n < N /\ f[n + 1] = f[n]
  <2> SUFFICES ASSUME \A n \in Nat : n < N => f[n + 1] # f[n] PROVE FALSE
    OBVIOUS
  <2>1. \A n \in 0..N : f[n] \subseteq levels[0] /\ IsFiniteSet(f[n]) /\ Cardinality(f[n]) \in Nat
                        /\ Cardinality(f[n]) <= N
    <3> SUFFICES ASSUME NEW n \in 0..N
                 PROVE  f[n] \subseteq levels[0] /\ IsFiniteSet(f[n]) /\ Cardinality(f[n]) \in Nat
                        /\ Cardinality(f[n]) <= N
      OBVIOUS
    <3>1. f[n] \in SUBSET levels[0]
      BY <1>3
    <3>2. IsFiniteSet(f[n]) /\ Cardinality(f[n]) <= Cardinality(levels[0])
      BY <1>1, <3>1, FS_Subset
    <3> QED
      BY <3>1, <3>2, FS_CardinalityType DEF N
  <2>2. N # 0
    <3>1. ASSUME N = 0 PROVE levels[0] = {}
      BY <1>1, <3>1, FS_EmptySet DEF N
    <3>2. f[N] # {} /\ f[N] \subseteq levels[0]
      BY <1>1, <1>3, <2>1 DEF F
    <3> QED
      BY <3>1, <3>2
  <2>3. f[0] # {}
    <3>1. 0 \in Nat /\ 0 < N
      BY <1>1, <2>2
    <3>2. f[0 + 1] = Wider(0, from, to, f[0]) /\ f[0 + 1] # f[0]
      BY <1>4, <3>1
    <3> QED
      BY <3>2 DEF Wider
  <2> DEFINE T == {n \in Nat : n <= N => n + 1 <= Cardinality(f[n])}
  <2>4. 0 \in T
    <3>1. 0 \in 0..N
      BY <1>1
    <3>2. Cardinality(f[0]) # 0
      BY <2>1, <2>3, <3>1, FS_EmptySet
    <3> QED
      BY <2>1, <3>1, <3>2
  <2>5. ASSUME NEW n \in Nat, n \in T
        PROVE  n + 1 \in T
    <3> SUFFICES ASSUME n + 1 <= N PROVE (n + 1) + 1 <= Cardinality(f[n + 1])
      OBVIOUS
    <3>1. n < N /\ n \in 0..N /\ n + 1 \in 0..N
      BY <1>1
    <3>2. f[n] \in SUBSET f[n + 1] /\ f[n] # f[n + 1]
      BY <1>7, <3>1
    <3>3. Cardinality(f[n]) <= Cardinality(f[n + 1]) /\ Cardinality(f[n]) # Cardinality(f[n + 1])
      BY <2>1, <3>1, <3>2, FS_Subset
    <3>4. n + 1 <= Cardinality(f[n])
      BY <2>5, <3>1
    <3>5. Cardinality(f[n]) \in Nat /\ Cardinality(f[n + 1]) \in Nat
      BY <2>1, <3>1
    <3> QED
      BY <3>3, <3>4, <3>5
  <2>6. N \in T
    <3> HIDE DEF T
    <3> QED
      BY <1>1, <2>4, <2>5, SetInduction
  <2>7. N \in 0..N
    BY <1>1
  <2>8. N + 1 <= Cardinality(f[N]) /\ Cardinality(f[N]) <= N /\ Cardinality(f[N]) \in Nat
    BY <1>1, <2>1, <2>6, <2>7
  <2> QED
    BY <1>1, <2>8
<1>9. \A m \in Nat : n <= m /\ m <= N => f[m] = f[n]
  <2> DEFINE T == {m \in Nat : n <= m /\ m <= N => f[m] = f[n]}
  <2>1. 0 \in T
    OBVIOUS
  <2>2. ASSUME NEW m \in Nat, m \in T
        PROVE  m + 1 \in T
    <3> SUFFICES ASSUME n <= m + 1, m + 1 <= N PROVE f[m + 1] = f[n]
      OBVIOUS
    <3>1. CASE n = m + 1
      BY <3>1
    <3>2. CASE n # m + 1
      <4>1. n <= m /\ m < N /\ m <= N
        BY <1>1, <3>2
      <4>2. f[m] = f[n]
        BY <2>2, <4>1
      <4>3. f[m + 1] = Wider(0, from, to, f[m]) /\ f[n + 1] = Wider(0, from, to, f[n])
        BY <1>4, <1>8, <4>1
      <4> QED
        BY <1>8, <4>2, <4>3
    <3> QED
      BY <3>1, <3>2
  <2>3. \A m \in Nat : m \in T
    <3> HIDE DEF T
    <3> QED
      BY <2>1, <2>2, SetInduction
  <2> QED
    BY <2>3
<1>10. f[N] = f[n]
  BY <1>1, <1>8, <1>9
<1>11. F = Wider(0, from, to, F)
  BY <1>3, <1>4, <1>8, <1>10
<1>12. F \subseteq levels[0]
  BY <1>1, <1>3
<1> QED
  BY <1>6, <1>11, <1>12 DEF F

(* What lies beside the range of some tables shares no key with them.      *)
LEMMA RangeKeys ==
  ASSUME TreeTyped, NEW S, S \subseteq Tables, S # {}, NEW t \in Tables,
         ~Overlaps(t, From(S), To(S)), NEW d \in Entries(S), NEW e \in t
  PROVE  Key(d) # Key(e)
<1>1. PICK u \in S : d \in u
  BY DEF Entries
<1>2. From(S) \in Nat /\ To(S) \in Nat
      /\ From(S) <= Key(Smallest(u)) /\ Key(Largest(u)) <= To(S)
  BY ReachIs
<1>3. u \in Tables
  OBVIOUS
<1>4. /\ Key(Smallest(u)) \in Nat /\ Key(Largest(u)) \in Nat
      /\ Key(d) \in Nat /\ Key(Smallest(u)) <= Key(d) /\ Key(d) <= Key(Largest(u))
  BY <1>1, <1>3, SpanIs
<1>5. Left(t, From(S)) \/ Right(t, To(S))
  BY <1>2, SidesAre
<1>6. Key(e) \in Nat
  BY TableTyped
<1> QED
  BY <1>2, <1>4, <1>5, <1>6 DEF Left, Right

-----------------------------------------------------------------------------
(* What a merge makes.                                                     *)

(* The entries in order: each once, and every one before the next.         *)
LEMMA InOrderIs ==
  ASSUME TreeTyped, NEW E, E \subseteq 1..LastSequence
  PROVE  LET s == InOrder(E, Precedes) IN
         \E n \in Nat : /\ DOMAIN s = 1..n
                        /\ \A i \in 1..n : s[i] \in E
                        /\ \A i, j \in 1..n : i < j => Precedes(s[i], s[j])
                        /\ \A e \in E : \E i \in 1..n : s[i] = e
<1> DEFINE R == {p \in E \X E : Precedes(p[1], p[2])}
<1>1. IsFiniteSet(E)
  <2>1. LastSequence \in Nat
    BY KeyTyped
  <2>2. IsFiniteSet(1..LastSequence)
    BY <2>1, FS_Interval
  <2> QED
    BY <2>2, FS_Subset
<1>2. \A x \in E : \A y \in E : <<x, y>> \in R <=> Precedes(x, y)
  OBVIOUS
<1>3. StrictOrder(E, R)
  <2>1. \A x \in E : \A y \in E : \A z \in E : Precedes(x, y) /\ Precedes(y, z) => Precedes(x, z)
    BY OrderIs
  <2>2. \A x \in E : \A y \in E : ~Precedes(x, x) /\ (x = y \/ Precedes(x, y) \/ Precedes(y, x))
    BY OrderIs
  <2> HIDE DEF R
  <2> QED
    BY <1>2, <2>1, <2>2 DEF StrictOrder
<1> DEFINE Rank(x) == Cardinality({y \in E : Precedes(y, x)})
           s == InOrder(E, Precedes)
<1>4. \A x \in E : Rank(x) = Place(x, E, R)
  <2> SUFFICES ASSUME NEW x \in E PROVE Rank(x) = Place(x, E, R)
    OBVIOUS
  <2>1. {y \in E : Precedes(y, x)} = {y \in E : <<y, x>> \in R}
    BY <1>2
  <2> QED
    BY <2>1 DEF Place
<1>5. s = [i \in 1..Cardinality(E) |-> CHOOSE x \in E : Rank(x) = i - 1]
  BY DEF InOrder
<1> HIDE DEF R, Rank, s
<1>6. Sorted(s, E, R)
  BY <1>4, <1>5 DEF Sorted
<1>7. Lists(s, E, R)
  BY <1>1, <1>3, <1>6, SortedLists
<1> QED
  BY <1>2, <1>7 DEF Lists, s

(* A merge half done: its tables are of past entries, apart, and before    *)
(* the table that is being built.                                          *)
MergeSound(acc, past) ==
  /\ acc.builder \subseteq past
  /\ \A t \in acc.tables : t \subseteq past /\ Before(t, acc.builder)
  /\ \A t, u \in acc.tables : t # u => Apart(t, u)

(* An entry goes into a table after those that are made already.           *)
LEMMA AddSound ==
  ASSUME NEW level, NEW grandparents, NEW acc, NEW past, MergeSound(acc, past),
         NEW e, \A d \in past : Precedes(d, e)
  PROVE  MergeSound(Add(level, grandparents, acc, e), past \cup {e})
<1> DEFINE passed == {g \in grandparents : Precedes(Largest(g), e)}
           overlapped == acc.overlapped + IF acc.last = 0 THEN 0 ELSE Bytes(passed \ acc.passed)
           stop == overlapped > GrandparentLimit
           hidden == acc.last # 0 /\ Key(acc.last) = Key(e) /\ acc.last <= SmallestSnapshot
           useless == /\ written[e].deletion /\ e <= SmallestSnapshot
                      /\ IsBaseLevelForKey(level, Key(e))
           before == IF stop THEN {} ELSE acc.builder
           builder == IF hidden \/ useless THEN before ELSE before \cup {e}
           full == builder # {} /\ Cardinality(builder) >= MaxOutput
           next == Add(level, grandparents, acc, e)
<1>1. /\ next.tables = acc.tables \cup (IF stop THEN {acc.builder} ELSE {})
                                  \cup (IF full THEN {builder} ELSE {})
      /\ next.builder = IF full THEN {} ELSE builder
  BY DEF Add
<1>2. builder = before \/ builder = before \cup {e}
  OBVIOUS
<1> HIDE DEF stop, full, builder, next
<1>3. /\ acc.builder \subseteq past
      /\ \A t \in acc.tables : t \subseteq past /\ Before(t, acc.builder)
      /\ \A t, u \in acc.tables : t # u => Apart(t, u)
  BY DEF MergeSound
<1>4. /\ builder \subseteq past \cup {e}
      /\ \A t \in acc.tables : Before(t, builder)
      /\ stop => Before(acc.builder, builder)
  BY <1>2, <1>3 DEF Before
<1>5. \A t \in acc.tables : Before(t, {}) /\ Before(t, acc.builder)
  BY <1>3 DEF Before
<1>6. \A t \in next.tables : t \in acc.tables \/ (stop /\ t = acc.builder) \/ (full /\ t = builder)
  BY <1>1
<1>7. ASSUME NEW t \in next.tables
      PROVE  t \subseteq past \cup {e} /\ Before(t, next.builder)
  <2>1. t \subseteq past \cup {e}
    BY <1>3, <1>4, <1>6
  <2>2. CASE full
    BY <1>1, <2>1, <2>2 DEF Before
  <2>3. CASE ~full
    BY <1>1, <1>4, <1>6, <2>1, <2>3
  <2> QED
    BY <2>1, <2>2, <2>3
<1>8. ASSUME NEW t \in next.tables, NEW u \in next.tables, t # u
      PROVE  Apart(t, u)
  BY <1>3, <1>4, <1>6, <1>8 DEF Apart
<1>9. next.builder \subseteq past \cup {e}
  BY <1>1, <1>4
<1> QED
  BY <1>7, <1>8, <1>9 DEF MergeSound, next

(* A fold of Add goes through the entries one by one.                      *)
Merge(level, grandparents, s) ==
  FoldLeft(LAMBDA acc, e : Add(level, grandparents, acc, e), Nothing, s)

Steps(f, level, grandparents, s, N) ==
  /\ f[0] = Nothing
  /\ \A k \in 1..N : f[k] = Add(level, grandparents, f[k - 1], s[k])
  /\ Merge(level, grandparents, s) = f[N]

LEMMA FoldIs ==
  ASSUME NEW level, NEW grandparents, NEW s, NEW N, N \in Nat, DOMAIN s = 1..N
  PROVE  \E f : Steps(f, level, grandparents, s, N)
<1> DEFINE Dom == SUBSET DOMAIN s
           Step(f, S) == IF S = {} THEN Nothing
                         ELSE Add(level, grandparents, f[S \ {Max(S)}], s[Max(S)])
           Folds(f) == f = [S \in Dom |-> Step(f, S)]
           fold == CHOOSE f : Folds(f)
<1>1. Merge(level, grandparents, s) = fold[DOMAIN s]
  BY DEF Merge, FoldLeft, MapThenFoldSet
<1>2. ASSUME NEW k \in Nat, NEW S \in Dom, S \subseteq 1..(k + 1), S # {}
      PROVE  S \ {Max(S)} \in Dom /\ S \ {Max(S)} \subseteq 1..k
  <2>1. S \subseteq Nat /\ \A x \in S : x <= N
    OBVIOUS
  <2>2. Max(S) \in S /\ \A x \in S : x <= Max(S)
    BY <1>2, <2>1, MaxIs
  <2>3. \A x \in S \ {Max(S)} : x \in 1..k
    BY <1>2, <2>1, <2>2
  <2> QED
    BY <2>3
<1>3. ASSUME NEW f, NEW g, NEW k \in Nat, \A R \in Dom : R \subseteq 1..k => f[R] = g[R],
             NEW S \in Dom, S \subseteq 1..(k + 1)
      PROVE  Step(f, S) = Step(g, S)
  <2>1. S # {} => f[S \ {Max(S)}] = g[S \ {Max(S)}]
    BY <1>2, <1>3
  <2> QED
    BY <2>1
<1>4. \A f, S : S = {} => Step(f, S) = Nothing
  OBVIOUS
<1>5. ASSUME NEW f, NEW k \in 1..N
      PROVE  Step(f, 1..k) = Add(level, grandparents, f[1..(k - 1)], s[k])
  <2>1. Max(1..k) = k
    <3>1. 1..k \subseteq Nat /\ 1..k # {} /\ k \in Nat /\ \A x \in 1..k : x <= k
      OBVIOUS
    <3>2. Max(1..k) \in 1..k /\ \A x \in 1..k : x <= Max(1..k)
      BY ONLY <3>1, MaxIs
    <3> QED
      BY <3>2
  <2>2. (1..k) \ {k} = 1..(k - 1) /\ 1..k # {}
    OBVIOUS
  <2> QED
    BY <2>1, <2>2
<1> HIDE DEF Step
<1>6. \E f : Folds(f)
  <2> DEFINE Upto(k) == \E f : \A S \in Dom : S \subseteq 1..k => f[S] = Step(f, S)
             T == {k \in Nat : Upto(k)}
  <2>1. 0 \in T
    <3> DEFINE f == [S \in Dom |-> Nothing]
    <3>1. \A S \in Dom : S \subseteq 1..0 => f[S] = Step(f, S)
      BY <1>4
    <3> HIDE DEF f
    <3> QED
      BY <3>1
  <2>2. ASSUME NEW k \in Nat, k \in T
        PROVE  k + 1 \in T
    <3>1. PICK f : \A S \in Dom : S \subseteq 1..k => f[S] = Step(f, S)
      BY <2>2
    <3> DEFINE g == [S \in Dom |-> Step(f, S)]
    <3>2. \A R \in Dom : R \subseteq 1..k => f[R] = g[R]
      BY <3>1
    <3>3. \A S \in Dom : g[S] = Step(f, S)
      OBVIOUS
    <3> HIDE DEF g, Dom
    <3>4. \A S \in Dom : S \subseteq 1..(k + 1) => g[S] = Step(g, S)
      BY <1>3, <3>2, <3>3
    <3>5. Upto(k + 1)
      BY <3>4
    <3> HIDE DEF Upto
    <3> QED
      BY <3>5
  <2>3. N \in T
    <3> HIDE DEF T
    <3> QED
      BY <2>1, <2>2, SetInduction
  <2>4. PICK f : \A S \in Dom : S \subseteq 1..N => f[S] = Step(f, S)
    BY <2>3
  <2> DEFINE g == [S \in Dom |-> Step(f, S)]
  <2>5. \A S \in Dom : g[S] = f[S]
    BY <2>4
  <2>6. \A S \in Dom : Step(f, S) = Step(g, S)
    <3>1. \A S \in Dom : S \subseteq 1..(N + 1)
      OBVIOUS
    <3>2. \A R \in Dom : R \subseteq 1..N => f[R] = g[R]
      BY <2>5
    <3> HIDE DEF g, Dom
    <3> QED
      BY <1>3, <3>1, <3>2
  <2>7. g = [S \in Dom |-> Step(g, S)]
    BY <2>6
  <2> HIDE DEF g
  <2> QED
    BY <2>7
<1>7. Folds(fold)
  <2> HIDE DEF Folds
  <2> QED
    BY <1>6
<1> HIDE DEF fold
<1>8. \A S \in Dom : fold[S] = Step(fold, S)
  BY <1>7
<1> DEFINE f == [k \in 0..N |-> fold[1..k]]
<1>9. \A k \in 0..N : 1..k \in Dom
  OBVIOUS
<1>10. f[0] = Nothing
  <2>1. 0 \in 0..N /\ 1..0 = {}
    OBVIOUS
  <2> QED
    BY <1>4, <1>8, <1>9, <2>1
<1>11. ASSUME NEW k \in 1..N
       PROVE  f[k] = Add(level, grandparents, f[k - 1], s[k])
  <2>1. k \in 0..N /\ k - 1 \in 0..N
    OBVIOUS
  <2>2. fold[1..k] = Add(level, grandparents, fold[1..(k - 1)], s[k])
    BY <1>5, <1>8, <1>9, <2>1
  <2> QED
    BY <2>1, <2>2
<1>12. f[N] = fold[DOMAIN s]
  OBVIOUS
<1> HIDE DEF f
<1>13. Steps(f, level, grandparents, s, N)
  BY <1>1, <1>10, <1>11, <1>12 DEF Steps
<1> QED
  BY <1>13

(* A merge's tables are of its inputs' entries, and apart.                 *)
LEMMA MergedIs ==
  ASSUME TreeTyped, NEW level, NEW inputs, inputs.upper \cup inputs.lower \subseteq Tables
  PROVE  /\ \A t \in MergedTables(level, inputs) :
              t # {} /\ t \subseteq Entries(inputs.upper \cup inputs.lower)
         /\ \A t, u \in MergedTables(level, inputs) : t # u => Apart(t, u)
<1> DEFINE E == Entries(inputs.upper \cup inputs.lower)
           s == InOrder(E, Precedes)
           grandparents == Grandparents(level, inputs)
           end == Merge(level, grandparents, s)
<1>1. MergedTables(level, inputs) = (end.tables \cup {end.builder}) \ {{}}
  BY DEF MergedTables, Merge, FoldLeft, MapThenFoldSet, InOrder
<1>2. E \subseteq 1..LastSequence
  BY DEF Entries, Tables
<1> HIDE DEF E
<1>3. PICK N \in Nat : /\ DOMAIN s = 1..N
                       /\ \A i \in 1..N : s[i] \in E
                       /\ \A i, j \in 1..N : i < j => Precedes(s[i], s[j])
  BY <1>2, InOrderIs
<1> HIDE DEF s, grandparents
<1>11. PICK f : Steps(f, level, grandparents, s, N)
  BY <1>3, FoldIs
<1>4. /\ f[0] = Nothing
      /\ \A k \in 1..N : f[k] = Add(level, grandparents, f[k - 1], s[k])
      /\ end = f[N]
  BY <1>11 DEF Steps
<1> HIDE DEF end
<1> DEFINE Past(k) == {s[i] : i \in 1..k}
           T == {k \in Nat : k <= N => MergeSound(f[k], Past(k))}
<1>5. 0 \in T
  BY <1>4 DEF MergeSound, Nothing
<1>6. ASSUME NEW k \in Nat, k \in T
      PROVE  k + 1 \in T
  <2> SUFFICES ASSUME k + 1 <= N PROVE MergeSound(f[k + 1], Past(k + 1))
    OBVIOUS
  <2>1. k + 1 \in 1..N /\ (k + 1) - 1 = k /\ MergeSound(f[k], Past(k))
    BY <1>6
  <2>2. f[k + 1] = Add(level, grandparents, f[k], s[k + 1])
    BY <1>4, <2>1
  <2>3. \A d \in Past(k) : Precedes(d, s[k + 1])
    <3> SUFFICES ASSUME NEW i \in 1..k PROVE Precedes(s[i], s[k + 1])
      OBVIOUS
    <3>1. i \in 1..N /\ i < k + 1
      BY <2>1
    <3> QED
      BY <1>3, <2>1, <3>1
  <2>4. Past(k) \cup {s[k + 1]} = Past(k + 1)
    <3>1. 1..(k + 1) = (1..k) \cup {k + 1}
      OBVIOUS
    <3> QED
      BY <3>1
  <2> HIDE DEF Past
  <2> QED
    BY <2>1, <2>2, <2>3, <2>4, AddSound
<1>7. N \in T
  <2> HIDE DEF T
  <2> QED
    BY <1>3, <1>5, <1>6, SetInduction
<1>8. MergeSound(end, Past(N)) /\ Past(N) \subseteq E
  BY <1>3, <1>4, <1>7
<1>9. \A t \in end.tables \cup {end.builder} : t \subseteq E
  BY <1>8 DEF MergeSound
<1>10. \A t, u \in end.tables \cup {end.builder} : t # u => Apart(t, u)
  BY <1>8 DEF MergeSound, Apart
<1> QED
  BY <1>1, <1>9, <1>10 DEF E

LEMMA ReachShrinks ==
  ASSUME TreeTyped, NEW R, R \subseteq Tables, NEW S, S \subseteq R, S # {}
  PROVE  From(R) <= From(S) /\ To(S) <= To(R)
<1>1. \A t \in R : From(R) <= Key(Smallest(t)) /\ Key(Largest(t)) <= To(R)
  BY ReachIs
<1>2. (\E t \in S : Key(Largest(t)) = To(S)) /\ (\E t \in S : Key(Smallest(t)) = From(S))
  BY ReachIs
<1> QED
  BY <1>1, <1>2

(* SetupOtherInputs takes all of the next level that its tables reach.     *)
LEMMA InputsAre ==
  ASSUME TreeTyped, NEW level \in 0..(LastLevel - 1),
         NEW upper, upper \subseteq levels[level], upper # {}
  PROVE  LET inputs == OtherInputs(level, upper) IN
         /\ inputs.upper \subseteq levels[level] /\ inputs.upper # {}
         /\ inputs.lower = Within(level + 1, From(inputs.upper), To(inputs.upper))
         /\ Gapless(upper) => Gapless(inputs.upper \cup inputs.lower)
<1> DEFINE lower == OverlappingInputs(level + 1, From(upper), To(upper))
           both == upper \cup lower
           wide == OverlappingInputs(level, From(both), To(both))
           below == OverlappingInputs(level + 1, From(wide), To(wide))
           grows == /\ lower # {} /\ Cardinality(wide) > Cardinality(upper)
                    /\ Bytes(lower) + Bytes(wide) < ExpandedLimit
                    /\ Cardinality(below) = Cardinality(lower)
           inputs == OtherInputs(level, upper)
<1>1. inputs = [upper |-> IF grows THEN wide ELSE upper, lower |-> lower]
  BY DEF OtherInputs
<1>2. level \in Levels /\ level + 1 \in Levels /\ level + 1 > 0
  BY TreeAssumption DEF Levels
<1>3. levels[level] \subseteq Tables /\ levels[level + 1] \subseteq Tables
  BY <1>2, FiniteLevels
<1>4. upper \subseteq Tables /\ From(upper) \in Nat /\ To(upper) \in Nat
  BY <1>3, ReachIs
<1>5. lower = Within(level + 1, From(upper), To(upper)) /\ lower \subseteq levels[level + 1]
  BY <1>2, <1>4, SearchIs
<1> HIDE DEF lower
<1>6. both \subseteq Tables /\ both # {} /\ upper \subseteq both
  BY <1>3, <1>4, <1>5
<1>7. From(both) \in Nat /\ To(both) \in Nat
      /\ \A t \in both : From(both) <= Key(Smallest(t)) /\ Key(Largest(t)) <= To(both)
  BY <1>6, ReachIs
<1> HIDE DEF both
<1>8. wide \subseteq levels[level]
      /\ \A t \in levels[level] : Overlaps(t, From(both), To(both)) => t \in wide
  BY <1>2, <1>7, SearchIs
<1>9. upper \subseteq wide
  <2> SUFFICES ASSUME NEW t \in upper PROVE t \in wide
    OBVIOUS
  <2>1. Key(Smallest(t)) \in Nat /\ Key(Largest(t)) \in Nat
        /\ Key(Smallest(t)) <= Key(Largest(t))
    BY <1>4, SpanIs
  <2>2. Overlaps(t, From(both), To(both))
    BY <1>6, <1>7, <2>1 DEF Overlaps
  <2> QED
    BY <1>8, <2>2
<1> HIDE DEF wide
<1>10. wide \subseteq Tables /\ wide # {} /\ From(wide) \in Nat /\ To(wide) \in Nat
       /\ From(wide) <= From(upper) /\ To(upper) <= To(wide)
  <2>1. wide \subseteq Tables /\ wide # {}
    BY <1>3, <1>8, <1>9
  <2> QED
    BY <1>9, <2>1, ReachIs, ReachShrinks
<1>11. below = Within(level + 1, From(wide), To(wide)) /\ below \subseteq levels[level + 1]
  BY <1>2, <1>10, SearchIs
<1>12. lower \subseteq below
  <2> SUFFICES ASSUME NEW t \in lower PROVE t \in below
    OBVIOUS
  <2>1. t \in levels[level + 1] /\ Overlaps(t, From(upper), To(upper))
    BY <1>5 DEF Within
  <2>2. Key(Smallest(t)) \in Nat /\ Key(Largest(t)) \in Nat
    BY <1>3, <2>1, SpanIs
  <2>3. Overlaps(t, From(wide), To(wide))
    BY <1>4, <1>10, <2>1, <2>2 DEF Overlaps
  <2> QED
    BY <1>11, <2>1, <2>3 DEF Within
<1> HIDE DEF below
<1>13. ASSUME grows
       PROVE  below = lower
  <2>1. IsFiniteSet(below)
    <3>1. IsFiniteSet(1..LastSequence)
      BY KeyTyped, FS_Interval
    <3>2. IsFiniteSet(SUBSET (1..LastSequence))
      BY <3>1, FS_SUBSET, Zenon
    <3> QED
      BY <1>3, <1>11, <3>2, FS_Subset DEF Tables
  <2>2. Cardinality(below) = Cardinality(lower)
    BY <1>13
  <2> QED
    BY <1>12, <2>1, <2>2, FS_Subset
<1> HIDE DEF grows
<1>14. ASSUME Gapless(upper)
       PROVE  Gapless(both) /\ Gapless(both \cup wide)
  <2>1. \A t \in both \ upper : Overlaps(t, From(upper), To(upper))
    BY <1>5 DEF both, Within
  <2>2. Gapless(both)
    BY <1>4, <1>6, <1>14, <2>1, GaplessGrows
  <2> QED
    BY <1>2, <1>6, <2>2, SearchGapless DEF wide
<1>15. CASE grows
  <2>1. inputs.upper = wide /\ inputs.lower = lower
    BY <1>1, <1>15
  <2>2. both \cup wide = wide \cup lower
    BY <1>9 DEF both
  <2> HIDE DEF inputs
  <2> QED
    BY <1>8, <1>10, <1>11, <1>13, <1>14, <1>15, <2>1, <2>2 DEF inputs
<1>16. CASE ~grows
  <2>1. inputs.upper = upper /\ inputs.lower = lower
    BY <1>1, <1>16
  <2> HIDE DEF inputs
  <2> QED
    BY <1>5, <1>14, <2>1 DEF inputs, both
<1> QED
  BY <1>15, <1>16

(* The inputs of a merge of level 0 are all that share a key with them.    *)
Closed(S) == \A t \in levels[0] : Overlaps(t, From(S), To(S)) => t \in S

(* SetupOtherInputs takes no table of level 0 without those that meet it.  *)
LEMMA InputsClosed ==
  ASSUME TreeTyped, NEW upper, upper \subseteq levels[0], upper # {}, Closed(upper)
  PROVE  Closed(OtherInputs(0, upper).upper)
<1> DEFINE lower == OverlappingInputs(1, From(upper), To(upper))
           both == upper \cup lower
           wide == OverlappingInputs(0, From(both), To(both))
           below == OverlappingInputs(1, From(wide), To(wide))
           grows == /\ lower # {} /\ Cardinality(wide) > Cardinality(upper)
                    /\ Bytes(lower) + Bytes(wide) < ExpandedLimit
                    /\ Cardinality(below) = Cardinality(lower)
           inputs == OtherInputs(0, upper)
<1>1. inputs.upper = IF grows THEN wide ELSE upper
  BY DEF OtherInputs
<1>2. 0 \in Levels /\ 0 + 1 \in Levels /\ 1 \in Levels
  BY TreeAssumption DEF Levels
<1>3. levels[0] \subseteq Tables /\ levels[1] \subseteq Tables
  BY <1>2, FiniteLevels
<1>4. lower \subseteq levels[1]
  BY <1>2, SearchWithin
<1> HIDE DEF lower
<1>5. both \subseteq Tables /\ both # {}
  BY <1>3, <1>4
<1>6. From(both) \in Nat /\ To(both) \in Nat
  BY <1>5, ReachIs
<1>7. inputs.upper # {}
  <2>1. 0 \in 0..(LastLevel - 1)
    BY TreeAssumption
  <2> QED
    BY <2>1, InputsAre
<1>8. wide # {} => Closed(wide)
  <2> HIDE DEF both
  <2> QED
    BY <1>6, SearchCloses DEF Closed
<1> HIDE DEF grows, wide, inputs
<1> QED
  BY <1>1, <1>7, <1>8 DEF inputs

(* The rest of the next level lies on either side of all that is merged.   *)
LEMMA MergedClear ==
  ASSUME TreeTyped, NEW level \in 0..(LastLevel - 1),
         NEW upper, upper \subseteq levels[level], upper # {},
         \A t, u \in levels[level + 1] : t # u => Apart(t, u),
         NEW u \in levels[level + 1] \ OtherInputs(level, upper).lower,
         NEW t, t \subseteq Entries(OtherInputs(level, upper).upper \cup OtherInputs(level, upper).lower)
  PROVE  Apart(t, u)
<1> DEFINE inputs == OtherInputs(level, upper)
           U == inputs.upper
           L == inputs.lower
<1>1. U \subseteq levels[level] /\ U # {} /\ L = Within(level + 1, From(U), To(U))
  BY InputsAre
<1>2. t \subseteq Entries(U \cup L) /\ u \in levels[level + 1] /\ u \notin L
  OBVIOUS
<1> HIDE DEF inputs, U, L
<1>3. level \in Levels /\ level + 1 \in Levels
  BY TreeAssumption DEF Levels
<1>4. levels[level] \subseteq Tables /\ levels[level + 1] \subseteq Tables
  BY <1>3, FiniteLevels
<1>5. U \subseteq Tables /\ u \in Tables /\ L \subseteq levels[level + 1] /\ L \subseteq Tables
  BY <1>1, <1>2, <1>4 DEF Within
<1>6. From(U) \in Nat /\ To(U) \in Nat
      /\ \A v \in U : From(U) <= Key(Smallest(v)) /\ Key(Largest(v)) <= To(U)
  BY <1>1, <1>5, ReachIs
<1>7. \A v \in U : \A d \in v : Key(d) \in Nat /\ From(U) <= Key(d) /\ Key(d) <= To(U)
  <2> SUFFICES ASSUME NEW v \in U, NEW d \in v
               PROVE  Key(d) \in Nat /\ From(U) <= Key(d) /\ Key(d) <= To(U)
    OBVIOUS
  <2>1. /\ Key(Smallest(v)) \in Nat /\ Key(Largest(v)) \in Nat
        /\ Key(d) \in Nat /\ Key(Smallest(v)) <= Key(d) /\ Key(d) <= Key(Largest(v))
    BY <1>5, SpanIs
  <2> QED
    BY <1>6, <2>1
<1>8. Left(u, From(U)) \/ Right(u, To(U))
  <2>1. ~Overlaps(u, From(U), To(U))
    BY <1>1, <1>2 DEF Within
  <2> QED
    BY <1>5, <1>6, <2>1, SidesAre
<1>9. \A v \in L : ~Left(v, From(U)) /\ ~Right(v, To(U)) /\ Apart(v, u)
  <2> SUFFICES ASSUME NEW v \in L
               PROVE  ~Left(v, From(U)) /\ ~Right(v, To(U)) /\ Apart(v, u)
    OBVIOUS
  <2>1. Overlaps(v, From(U), To(U)) /\ v \in Tables
    BY <1>1, <1>5 DEF Within
  <2>2. v # u /\ v \in levels[level + 1]
    BY <1>2, <1>5
  <2> QED
    BY <1>2, <1>6, <2>1, <2>2, SidesAre
<1>10. u # {} /\ \A e \in u : Key(e) \in Nat
  BY <1>5, TableTyped
<1>11. \A v \in L : \A d \in v : Key(d) \in Nat
  BY <1>5, TableTyped
<1>12. CASE Left(u, From(U))
  <2>1. \A v \in U : Before(u, v)
    BY <1>6, <1>7, <1>10, <1>12 DEF Before, Left, Precedes
  <2>2. ASSUME NEW v \in L
        PROVE  Before(u, v)
    <3>1. PICK d \in v : ~(Key(d) < From(U))
      BY <1>9 DEF Left
    <3>2. PICK e \in u : TRUE
      BY <1>10
    <3>3. Key(e) < Key(d) /\ Key(e) \in Nat /\ Key(d) \in Nat
      BY <1>6, <1>10, <1>11, <1>12, <3>1 DEF Left
    <3>4. ~Precedes(d, e)
      BY <3>3 DEF Precedes
    <3> QED
      BY <1>9, <3>4 DEF Apart, Before
  <2> QED
    BY <1>2, <2>1, <2>2 DEF Entries, Apart, Before
<1>13. CASE Right(u, To(U))
  <2>1. \A v \in U : Before(v, u)
    BY <1>6, <1>7, <1>10, <1>13 DEF Before, Right, Precedes
  <2>2. ASSUME NEW v \in L
        PROVE  Before(v, u)
    <3>1. PICK d \in v : ~(To(U) < Key(d))
      BY <1>9 DEF Right
    <3>2. PICK e \in u : TRUE
      BY <1>10
    <3>3. Key(d) < Key(e) /\ Key(e) \in Nat /\ Key(d) \in Nat
      BY <1>6, <1>10, <1>11, <1>13, <3>1 DEF Right
    <3>4. ~Precedes(e, d)
      BY <3>3 DEF Precedes
    <3> QED
      BY <1>9, <3>4 DEF Apart, Before
  <2> QED
    BY <1>2, <2>1, <2>2 DEF Entries, Apart, Before
<1> QED
  BY <1>8, <1>12, <1>13

(* A merge drops what a newer entry of the key hides from every reader,    *)
(* and deletions that hide nothing further down.                           *)
Hidden(E, e) == \E d \in E : Key(d) = Key(e) /\ d > e /\ d <= SmallestSnapshot
Useless(level, e) ==
  written[e].deletion /\ e <= SmallestSnapshot /\ IsBaseLevelForKey(level, Key(e))

LEMMA SmallestSnapshotTyped ==
  ASSUME TreeTyped
  PROVE  /\ SmallestSnapshot \in Nat /\ SmallestSnapshot <= LastSequence
         /\ \A s \in snapshots : SmallestSnapshot <= s
<1>1. snapshots \subseteq Nat /\ LastSequence \in Nat /\ \A s \in snapshots : s <= LastSequence
  BY KeyTyped DEF TreeTyped
<1>2. snapshots # {} => Min(snapshots) \in snapshots /\ \A s \in snapshots : Min(snapshots) <= s
  BY <1>1, MinIs
<1>3. CASE snapshots = {}
  <2>1. SmallestSnapshot = LastSequence
    BY <1>3 DEF SmallestSnapshot
  <2> QED
    BY <1>1, <1>3, <2>1
<1>4. CASE snapshots # {}
  <2>1. SmallestSnapshot = Min(snapshots)
    BY <1>4 DEF SmallestSnapshot
  <2> QED
    BY <1>1, <1>2, <1>4, <2>1
<1> QED
  BY <1>3, <1>4

Made(acc) == Entries(acc.tables) \cup acc.builder
(* The entry that is added stays unless the last one hides it.             *)
LastHides(last, e) == last # 0 /\ Key(last) = Key(e) /\ last <= SmallestSnapshot

(* One entry is added, or dropped.                                         *)
LEMMA AddMakes ==
  ASSUME NEW level, NEW grandparents, NEW acc, NEW e
  PROVE  /\ Add(level, grandparents, acc, e).last = e
         /\ Made(Add(level, grandparents, acc, e)) =
              Made(acc) \cup (IF LastHides(acc.last, e) \/ Useless(level, e) THEN {} ELSE {e})
<1> DEFINE passed == {g \in grandparents : Precedes(Largest(g), e)}
           overlapped == acc.overlapped + IF acc.last = 0 THEN 0 ELSE Bytes(passed \ acc.passed)
           stop == overlapped > GrandparentLimit
           drop == LastHides(acc.last, e) \/ Useless(level, e)
           before == IF stop THEN {} ELSE acc.builder
           builder == IF drop THEN before ELSE before \cup {e}
           full == builder # {} /\ Cardinality(builder) >= MaxOutput
           next == Add(level, grandparents, acc, e)
<1>1. /\ next.tables = acc.tables \cup (IF stop THEN {acc.builder} ELSE {})
                                  \cup (IF full THEN {builder} ELSE {})
      /\ next.builder = IF full THEN {} ELSE builder
      /\ next.last = e
  BY DEF Add, LastHides, Useless
<1> HIDE DEF stop, full, drop, next
<1>2. Made(next) = Entries(acc.tables) \cup (IF stop THEN acc.builder ELSE {}) \cup builder
  <2>1. CASE full
    BY <1>1, <2>1 DEF Made, Entries
  <2>2. CASE ~full
    BY <1>1, <2>2 DEF Made, Entries
  <2> QED
    BY <2>1, <2>2
<1>3. Made(next) = Made(acc) \cup (IF drop THEN {} ELSE {e})
  BY <1>2 DEF Made
<1> QED
  BY <1>1, <1>3 DEF next, drop

(* What is left is what no newer entry hides and what is of use.           *)
LEMMA MergedEntries ==
  ASSUME TreeTyped, NEW level, NEW inputs, inputs.upper \cup inputs.lower \subseteq Tables
  PROVE  LET E == Entries(inputs.upper \cup inputs.lower) IN
         Entries(MergedTables(level, inputs)) = {e \in E : ~Hidden(E, e) /\ ~Useless(level, e)}
<1> DEFINE E == Entries(inputs.upper \cup inputs.lower)
           s == InOrder(E, Precedes)
           grandparents == Grandparents(level, inputs)
           end == Merge(level, grandparents, s)
<1>1. MergedTables(level, inputs) = (end.tables \cup {end.builder}) \ {{}}
  BY DEF MergedTables, Merge, FoldLeft, MapThenFoldSet, InOrder
<1>2. E \subseteq 1..LastSequence /\ LastSequence \in Nat
  BY KeyTyped DEF Entries, Tables
<1> HIDE DEF E
<1>3. PICK N \in Nat : /\ DOMAIN s = 1..N
                       /\ \A i \in 1..N : s[i] \in E
                       /\ \A i, j \in 1..N : i < j => Precedes(s[i], s[j])
                       /\ \A e \in E : \E i \in 1..N : s[i] = e
  BY <1>2, InOrderIs
<1> HIDE DEF s, grandparents
<1>4. PICK f : Steps(f, level, grandparents, s, N)
  BY <1>3, FoldIs
<1>5. /\ f[0] = Nothing
      /\ \A k \in 1..N : f[k] = Add(level, grandparents, f[k - 1], s[k])
      /\ end = f[N]
  BY <1>4 DEF Steps
<1> HIDE DEF end
<1> DEFINE Stays(e) == ~Hidden(E, e) /\ ~Useless(level, e)
           Past(k) == {s[i] : i \in {j \in 1..k : Stays(s[j])}}
           Latest(k) == IF k = 0 THEN 0 ELSE s[k]
(* The entry before one in the order hides it if any entry does.           *)
<1>6. ASSUME NEW k \in Nat, k + 1 <= N
      PROVE  LastHides(Latest(k), s[k + 1]) <=> Hidden(E, s[k + 1])
  <2> DEFINE e == s[k + 1]
  <2>0. k + 1 \in 1..N /\ (k # 0 => k \in 1..N)
    BY <1>3, <1>6
  <2>1. k + 1 \in 1..N /\ e \in E /\ e \in 1..LastSequence /\ (k # 0 => k \in 1..N)
    BY <1>2, <1>3, <2>0
  <2>2. \A x \in E : x \in Nat \ {0} /\ Key(x) \in Nat
    BY <1>2, KeyTyped
  <2>3. ASSUME LastHides(Latest(k), e)
        PROVE  Hidden(E, e)
    <3>1. k # 0 /\ Latest(k) = s[k]
      BY <2>3 DEF LastHides
    <3>2. s[k] \in E /\ Precedes(s[k], e)
      BY <1>3, <2>1, <3>1
    <3>3. s[k] > e
      BY <2>1, <2>2, <2>3, <3>1, <3>2 DEF Precedes, LastHides
    <3> QED
      BY <2>3, <3>1, <3>2, <3>3 DEF Hidden, LastHides
  <2>4. ASSUME Hidden(E, e)
        PROVE  LastHides(Latest(k), e)
    <3>1. PICK d \in E : Key(d) = Key(e) /\ d > e /\ d <= SmallestSnapshot
      BY <2>4 DEF Hidden
    <3>2. PICK i \in 1..N : s[i] = d
      BY <1>3
    <3>3. Precedes(d, e) /\ ~Precedes(e, d)
      BY <2>1, <2>2, <3>1 DEF Precedes
    <3>4. i < k + 1
      <4>1. i = k + 1 \/ i < k + 1 \/ k + 1 < i
        OBVIOUS
      <4>2. i # k + 1
        BY <2>1, <2>2, <3>1, <3>2
      <4>3. ~(k + 1 < i)
        BY <1>3, <2>1, <3>2, <3>3
      <4> QED
        BY <4>1, <4>2, <4>3
    <3>5. k # 0 /\ k \in 1..N /\ (i = k \/ i < k)
      BY <2>1, <3>4
    <3>6. s[k] \in E /\ Precedes(s[k], e) /\ (s[k] = d \/ Precedes(d, s[k]))
      <4>1. k < k + 1
        OBVIOUS
      <4> QED
        BY <1>3, <2>1, <3>2, <3>5, <4>1
    <3>7. Key(s[k]) = Key(e) /\ s[k] <= d
      BY <2>1, <2>2, <3>1, <3>6 DEF Precedes
    <3>8. s[k] # 0 /\ s[k] <= SmallestSnapshot
      <4>1. s[k] \in Nat \ {0} /\ d \in Nat
        BY <2>2, <3>6
      <4>2. SmallestSnapshot \in Int
        BY SmallestSnapshotTyped
      <4> QED
        BY <3>1, <3>7, <4>1, <4>2
    <3> QED
      BY <3>5, <3>7, <3>8 DEF LastHides
  <2> QED
    BY <2>3, <2>4
<1> DEFINE T == {k \in Nat : k <= N => f[k].last = Latest(k) /\ Made(f[k]) = Past(k)}
<1>7. 0 \in T
  BY <1>5 DEF Nothing, Made, Entries
<1>8. ASSUME NEW k \in Nat, k \in T
      PROVE  k + 1 \in T
  <2> SUFFICES ASSUME k + 1 <= N
               PROVE  f[k + 1].last = Latest(k + 1) /\ Made(f[k + 1]) = Past(k + 1)
    OBVIOUS
  <2>1. k + 1 \in 1..N /\ (k + 1) - 1 = k /\ f[k].last = Latest(k) /\ Made(f[k]) = Past(k)
    BY <1>8
  <2>2. f[k + 1] = Add(level, grandparents, f[k], s[k + 1])
    BY <1>5, <2>1
  <2>3. f[k + 1].last = s[k + 1]
        /\ Made(f[k + 1]) = Past(k) \cup (IF Stays(s[k + 1]) THEN {s[k + 1]} ELSE {})
    BY <1>6, <2>1, <2>2, AddMakes
  <2>4. Past(k + 1) = Past(k) \cup (IF Stays(s[k + 1]) THEN {s[k + 1]} ELSE {})
    <3>1. 1..(k + 1) = (1..k) \cup {k + 1}
      OBVIOUS
    <3> HIDE DEF Stays
    <3> QED
      BY <3>1
  <2> HIDE DEF Past
  <2> QED
    BY <2>3, <2>4
<1>9. N \in T
  <2> HIDE DEF T
  <2> QED
    BY <1>3, <1>7, <1>8, SetInduction
<1>10. Made(end) = Past(N)
  BY <1>3, <1>5, <1>9
<1>11. Past(N) = {e \in E : Stays(e)}
  <2> HIDE DEF Stays
  <2> QED
    BY <1>3
<1>12. Entries(MergedTables(level, inputs)) = Made(end)
  BY <1>1 DEF Made, Entries
<1> QED
  BY <1>10, <1>11, <1>12 DEF E
-----------------------------------------------------------------------------
(* The inductive invariant.                                                *)

Inputs == work.upper \cup work.lower
Automatic == work.busy /\ ~work.manual

(* A merge under way: its inputs are still there, its outputs are made of  *)
(* them, and are apart.                                                    *)
WorkSound ==
  work.busy =>
    /\ work.level \in 0..(LastLevel - 1)
    /\ work.upper \subseteq levels[work.level]
    /\ work.lower \subseteq levels[work.level + 1]
    /\ \A t \in work.outputs : t # {} /\ t \subseteq Entries(Inputs)
    /\ \A t, u \in work.outputs : t # u => Apart(t, u)

(* What a merge that was not asked for takes leaves no gap for a memtable  *)
(* that is flushed meanwhile.                                              *)
InputsGapless == Automatic => Gapless(Inputs)

(* So its outputs do not meet what is where they will go.                  *)
OutputsClear ==
  Automatic /\ "gap" \notin broken =>
    \A t \in work.outputs, u \in levels[work.level + 1] \ work.lower : Apart(t, u)

(* Below level 0 no two tables of a level overlap.                         *)
AllApart == \A l \in 1..LastLevel : \A t, u \in levels[l] : t # u => Apart(t, u)
LevelsApart == "gap" \notin broken => AllApart

ManualSound ==
  /\ {"active", "level", "top"} \subseteq DOMAIN manual
  /\ manual.active => /\ manual.level \in Nat /\ manual.top \in Nat
                      /\ manual.level < manual.top /\ manual.top <= LastLevel

IInv == TreeTyped /\ WorkSound /\ InputsGapless /\ OutputsClear /\ LevelsApart /\ ManualSound

LEMMA InvInit == Init => IInv
<1> SUFFICES ASSUME Init PROVE IInv
  OBVIOUS
<1> USE DEF Init
<1>1. LastSequence = 0
  BY DEF LastSequence
<1>2. TreeTyped
  BY <1>1, TreeAssumption DEF TreeTyped, Tables
<1>3. ~work.busy /\ ~manual.active
  BY DEF NoWork, NoRange
<1>4. LevelsApart
  BY DEF LevelsApart, AllApart, Levels
<1>5. ManualSound
  BY <1>3 DEF ManualSound, NoRange
<1> QED
  BY <1>2, <1>3, <1>4, <1>5 DEF IInv, WorkSound, InputsGapless, OutputsClear, Automatic

-----------------------------------------------------------------------------
(* Types.                                                                  *)

(* The level for a memtable: below level 0, nothing is in its way.         *)
LEMMA LevelIs ==
  ASSUME TreeTyped, NEW t \in Tables
  PROVE  LET level == PickLevelForMemTableOutput(From({t}), To({t})) IN
         /\ level \in Levels
         /\ level > 0 => \A k \in 0..level : \A u \in levels[k] :
                           ~Overlaps(u, Key(Smallest(t)), Key(Largest(t)))
<1>1. From({t}) = Key(Smallest(t)) /\ To({t}) = Key(Largest(t))
  <2>1. Entries({t}) = t
    BY DEF Entries
  <2> QED
    BY <2>1 DEF From, To
<1> DEFINE from == Key(Smallest(t))
           to == Key(Largest(t))
           Clear(l) ==
             /\ ~OverlapInLevel(l, from, to)
             /\ l + 1 > LastLevel \/ Bytes(OverlappingInputs(l + 1, from, to)) <= GrandparentLimit
           C == {l \in 0..MaxMemLevel : \A k \in 1..l : Clear(k)}
           level == PickLevelForMemTableOutput(from, to)
<1>2. level = IF OverlapInLevel(0, from, to) THEN 0 ELSE Max(C)
  BY DEF PickLevelForMemTableOutput
<1>3. \A k : Clear(k) => ~OverlapInLevel(k, from, to)
  OBVIOUS
<1>4. MaxMemLevel \in Nat /\ MaxMemLevel <= LastLevel /\ LastLevel \in Nat
  BY TreeAssumption DEF Levels
<1>5. Max(C) \in C
  <2>1. C \subseteq Nat /\ 0 \in C /\ \A x \in C : x <= MaxMemLevel
    BY <1>4
  <2> HIDE DEF C
  <2> QED
    BY <1>4, <2>1, MaxIs
<1>6. Max(C) \in 0..MaxMemLevel /\ \A k \in 1..Max(C) : ~OverlapInLevel(k, from, to)
  BY <1>3, <1>5
<1> HIDE DEF C
<1>7. level \in Levels
  BY <1>2, <1>4, <1>6 DEF Levels
<1>8. ASSUME level > 0
      PROVE  \A k \in 0..level : \A u \in levels[k] : ~Overlaps(u, from, to)
  <2>1. level = Max(C) /\ ~OverlapInLevel(0, from, to)
    BY <1>2, <1>8
  <2>2. \A k \in 0..level : ~OverlapInLevel(k, from, to)
    BY <1>6, <2>1
  <2> QED
    BY <2>2 DEF OverlapInLevel
<1> HIDE DEF level, from, to
<1> QED
  BY <1>1, <1>7, <1>8 DEF level, from, to

LEMMA PickedIs ==
  ASSUME TreeTyped, NEW level \in 0..(LastLevel - 1), NEW t \in Picked(level)
  PROVE  level \in Levels /\ level + 1 \in Levels /\ t \in levels[level] /\ t \in Tables
<1>1. level \in Levels /\ level + 1 \in Levels
  BY TreeAssumption DEF Levels
<1> QED
  BY <1>1, FiniteLevels DEF Picked

LEMMA TypedNext ==
  ASSUME IInv, [Next]_vars
  PROVE  TreeTyped'
<1>1. /\ written \in Seq([key : Keys, deletion : BOOLEAN]) /\ Len(written) <= MaxWrites
      /\ mem \subseteq 1..LastSequence /\ imm \subseteq 1..LastSequence
      /\ levels \in [Levels -> SUBSET Tables]
      /\ snapshots \subseteq 0..LastSequence
      /\ broken \subseteq {"split", "gap"} /\ LastSequence \in Nat
  BY KeyTyped DEF IInv, TreeTyped
<1>2. ASSUME written' = written
      PROVE  LastSequence' = LastSequence /\ Tables' = Tables
  BY <1>2 DEF LastSequence, Tables
<1>3. ASSUME NEW kind \in {"split", "gap"}, NEW happens
      PROVE  Broken(kind, happens) \subseteq {"split", "gap"}
  BY <1>1, <1>3 DEF Broken
<1>4. ASSUME NEW key \in Keys, NEW deletion \in BOOLEAN, Write(key, deletion)
      PROVE  TreeTyped'
  <2>1. written' = Append(written, [key |-> key, deletion |-> deletion])
        /\ Len(written) < MaxWrites /\ mem' = mem \cup {LastSequence + 1}
        /\ imm' = imm /\ levels' = levels /\ snapshots' = snapshots /\ broken' = broken
    BY <1>4 DEF Write
  <2>2. written' \in Seq([key : Keys, deletion : BOOLEAN]) /\ Len(written') = Len(written) + 1
    <3>1. ASSUME NEW S, NEW w \in Seq(S), NEW x \in S
          PROVE  Append(w, x) \in Seq(S) /\ Len(Append(w, x)) = Len(w) + 1
      OBVIOUS
    <3>2. [key |-> key, deletion |-> deletion] \in [key : Keys, deletion : BOOLEAN]
      OBVIOUS
    <3> HIDE DEF TreeTyped
    <3> QED
      BY ONLY <1>1, <2>1, <3>1, <3>2
  <2>3. LastSequence' = LastSequence + 1
    BY <2>2 DEF LastSequence
  <2>4. Tables \subseteq Tables'
    BY <1>1, <2>3 DEF Tables
  <2>5. levels' \in [Levels -> SUBSET Tables']
    BY <1>1, <2>1, <2>4
  <2>6. mem' \subseteq 1..LastSequence' /\ imm' \subseteq 1..LastSequence'
        /\ snapshots' \subseteq 0..LastSequence'
    BY <1>1, <2>1, <2>3
  <2>7. Len(written') <= MaxWrites
    BY <1>1, <2>1, <2>2, TreeAssumption DEF LastSequence
  <2> QED
    BY <1>1, <2>1, <2>2, <2>5, <2>6, <2>7 DEF TreeTyped
<1>5. CASE GetSnapshot
  BY <1>1, <1>2, <1>5 DEF GetSnapshot, TreeTyped
<1>6. CASE ReleaseSnapshot
  BY <1>1, <1>2, <1>6 DEF ReleaseSnapshot, TreeTyped
<1>7. CASE SwitchMemTable
  BY <1>1, <1>2, <1>7 DEF SwitchMemTable, TreeTyped
<1>8. ASSUME NEW begin \in Begins, NEW end \in Ends, CompactRange(begin, end)
      PROVE  TreeTyped'
  BY <1>1, <1>2, <1>8 DEF CompactRange, TreeTyped
<1>9. CASE CompactMemTable
  <2> DEFINE level == PickLevelForMemTableOutput(From({imm}), To({imm}))
  <2>1. imm \in Tables
    BY <1>1, <1>9 DEF CompactMemTable, Tables
  <2>2. level \in Levels
    BY <2>1, LevelIs DEF IInv
  <2>3. levels' = [levels EXCEPT ![level] = @ \cup {imm}]
    BY <1>9 DEF CompactMemTable
  <2> HIDE DEF level
  <2>4. levels' \in [Levels -> SUBSET Tables]
    BY <1>1, <2>1, <2>2, <2>3
  <2> QED
    BY <1>1, <1>2, <1>9, <2>4 DEF CompactMemTable, TreeTyped
<1>10. CASE PickCompaction
  <2>1. broken' \subseteq {"split", "gap"}
    BY <1>3, <1>10 DEF PickCompaction, StartMerge
  <2> QED
    BY <1>1, <1>2, <1>10, <2>1 DEF PickCompaction, TreeTyped
<1>11. CASE TrivialMove
  <2>5. PICK level \in 0..(LastLevel - 1) : \E t \in Picked(level) :
          /\ levels' = [levels EXCEPT ![level] = @ \ {t}, ![level + 1] = @ \cup {t}]
          /\ broken' = Broken("split", Splits(level, OtherInputs(level, {t})))
    BY <1>11 DEF TrivialMove
  <2>1. PICK t \in Picked(level) :
          /\ levels' = [levels EXCEPT ![level] = @ \ {t}, ![level + 1] = @ \cup {t}]
          /\ broken' = Broken("split", Splits(level, OtherInputs(level, {t})))
    BY <2>5
  <2>2. broken' \subseteq {"split", "gap"}
    BY <1>3, <2>1
  <2>3. level \in Levels /\ level + 1 \in Levels /\ t \in Tables
    BY PickedIs DEF IInv
  <2>4. levels' \in [Levels -> SUBSET Tables]
    BY <1>1, <2>1, <2>3
  <2> QED
    BY <1>1, <1>2, <1>11, <2>2, <2>4 DEF TrivialMove, TreeTyped
<1>12. CASE StartManual
  <2>1. broken' \subseteq {"split", "gap"}
    BY <1>3, <1>12 DEF StartManual, StartMerge
  <2> QED
    BY <1>1, <1>2, <1>12, <2>1 DEF StartManual, TreeTyped
<1>13. CASE ManualDone
  BY <1>1, <1>2, <1>13 DEF ManualDone, TreeTyped
<1>14. CASE InstallMerge
  <2>1. /\ work.busy
        /\ levels' = [levels EXCEPT ![work.level] = @ \ work.upper,
                                    ![work.level + 1] = (@ \ work.lower) \cup work.outputs]
        /\ broken' = Broken("gap", work.manual /\ Overtaken)
        /\ UNCHANGED <<written, mem, imm, snapshots>>
    BY <1>14 DEF InstallMerge
  <2>2. /\ work.level \in 0..(LastLevel - 1)
        /\ work.upper \subseteq levels[work.level]
        /\ work.lower \subseteq levels[work.level + 1]
        /\ \A t \in work.outputs : t # {} /\ t \subseteq Entries(Inputs)
    BY <2>1 DEF IInv, WorkSound
  <2>3. work.level \in Levels /\ work.level + 1 \in Levels
    BY <2>2, TreeAssumption DEF Levels
  <2>4. Entries(Inputs) \subseteq 1..LastSequence
    BY <1>1, <2>2, <2>3 DEF Entries, Inputs, Tables
  <2>5. work.outputs \subseteq Tables
    BY <2>2, <2>4 DEF Tables
  <2>6. levels' \in [Levels -> SUBSET Tables]
    BY <1>1, <2>1, <2>3, <2>5
  <2>7. broken' \subseteq {"split", "gap"}
    BY <1>3, <2>1
  <2> QED
    BY <1>1, <1>2, <2>1, <2>6, <2>7 DEF TreeTyped
<1>15. CASE UNCHANGED vars
  BY <1>1, <1>2, <1>15 DEF vars, TreeTyped
<1> QED
  BY <1>4, <1>5, <1>6, <1>7, <1>8, <1>9, <1>10, <1>11, <1>12, <1>13, <1>14, <1>15
  DEF Next, Background

LEMMA ManualNext ==
  ASSUME IInv, [Next]_vars
  PROVE  ManualSound'
<1>1. /\ {"active", "level", "top"} \subseteq DOMAIN manual
      /\ manual.active => /\ manual.level \in Nat /\ manual.top \in Nat
                          /\ manual.level < manual.top /\ manual.top <= LastLevel
  BY DEF IInv, ManualSound
<1>2. CASE manual' = manual
  BY <1>1, <1>2 DEF ManualSound
<1>3. ASSUME NEW begin \in Begins, NEW end \in Ends, CompactRange(begin, end)
      PROVE  ManualSound'
  <2> DEFINE T == {1} \cup {l \in 1..LastLevel : OverlapInLevel(l, begin, end)}
  <2>1. manual' = [active |-> TRUE, level |-> 0, begin |-> begin, from |-> begin, to |-> end,
                   top |-> Max(T)]
    BY <1>3 DEF CompactRange
  <2>2. LastLevel \in Nat /\ 1 <= LastLevel
    BY TreeAssumption
  <2>3. T \subseteq Nat /\ T # {} /\ \A x \in T : 1 <= x /\ x <= LastLevel
    BY <2>2
  <2> HIDE DEF T
  <2>4. Max(T) \in T
    BY <2>2, <2>3, MaxIs
  <2>5. Max(T) \in Nat /\ 0 < Max(T) /\ Max(T) <= LastLevel
    <3>1. Max(T) \in Nat /\ 1 <= Max(T) /\ Max(T) <= LastLevel
      BY <2>3, <2>4
    <3> QED
      BY <3>1
  <2>6. {"active", "level", "top"} \subseteq DOMAIN manual'
        /\ manual'.level = 0 /\ manual'.top = Max(T)
    BY <2>1
  <2> QED
    BY <2>5, <2>6 DEF ManualSound
<1>4. CASE ManualDone
  <2>1. CASE AnotherLevel
    <3>1. manual' = [manual EXCEPT !.level = @ + 1, !.from = manual.begin] /\ manual.active
      BY <1>4, <2>1 DEF ManualDone
    <3>2. DOMAIN manual' = DOMAIN manual
          /\ manual'.level = manual.level + 1 /\ manual'.top = manual.top
      BY <1>1, <3>1
    <3>3. manual.level + 1 < manual.top
      BY <2>1 DEF AnotherLevel
    <3>4. manual'.level \in Nat /\ manual'.top \in Nat
          /\ manual'.level < manual'.top /\ manual'.top <= LastLevel
      BY <1>1, <3>1, <3>2, <3>3
    <3> QED
      BY <1>1, <3>2, <3>4 DEF ManualSound
  <2>2. CASE ~AnotherLevel
    <3>1. manual' = NoRange
      BY <1>4, <2>2 DEF ManualDone
    <3> QED
      BY <3>1 DEF ManualSound, NoRange
  <2> QED
    BY <2>1, <2>2
<1>5. CASE InstallMerge
  <2> DEFINE key == LET last == CHOOSE t \in work.upper : \A u \in work.upper \ {t} :
                                  Precedes(Smallest(u), Smallest(t))
                    IN Key(Largest(last))
  <2>1. manual' = [manual EXCEPT !.from = key] \/ manual' = manual
    BY <1>5 DEF InstallMerge
  <2> HIDE DEF key
  <2>2. CASE manual' = [manual EXCEPT !.from = key]
    <3>1. DOMAIN manual' = DOMAIN manual
          /\ manual'.level = manual.level /\ manual'.top = manual.top
      BY <1>1, <2>2
    <3>2. manual'.active = manual.active
      BY <1>1, <2>2
    <3> QED
      BY <1>1, <3>1, <3>2 DEF ManualSound
  <2> QED
    BY <1>2, <2>1, <2>2
<1>6. \/ manual' = manual \/ ManualDone \/ InstallMerge
      \/ \E begin \in Begins, end \in Ends : CompactRange(begin, end)
  BY DEF Next, Background, Write, GetSnapshot, ReleaseSnapshot, SwitchMemTable,
         CompactMemTable, PickCompaction, TrivialMove, StartManual, vars
<1> QED
  BY <1>2, <1>3, <1>4, <1>5, <1>6

-----------------------------------------------------------------------------
(* Merges and levels.                                                      *)

MergesSound == WorkSound /\ InputsGapless /\ OutputsClear /\ LevelsApart

LEMMA OrderKept ==
  ASSUME TreeTyped, \A e \in 1..LastSequence : Key(e)' = Key(e)
  PROVE  /\ \A t, u \in Tables : Apart(t, u)' <=> Apart(t, u)
         /\ \A t \in Tables : \A key : (Left(t, key)' <=> Left(t, key))
                                       /\ (Right(t, key)' <=> Right(t, key))
<1>1. \A t \in Tables : \A e \in t : e \in 1..LastSequence
  BY DEF Tables
<1> QED
  BY <1>1 DEF Apart, Before, Precedes, Left, Right

LEMMA InputsTyped ==
  ASSUME TreeTyped, WorkSound, work.busy
  PROVE  /\ work.level \in Levels /\ work.level + 1 \in Levels
         /\ work.level + 1 \in 1..LastLevel /\ work.level # work.level + 1
         /\ levels[work.level] \subseteq Tables /\ levels[work.level + 1] \subseteq Tables
         /\ Inputs \subseteq Tables /\ work.outputs \subseteq Tables
<1>1. /\ work.level \in 0..(LastLevel - 1)
      /\ work.upper \subseteq levels[work.level]
      /\ work.lower \subseteq levels[work.level + 1]
      /\ \A t \in work.outputs : t # {} /\ t \subseteq Entries(Inputs)
  BY DEF WorkSound
<1>2. LastLevel \in Nat
  BY TreeAssumption
<1>3. /\ work.level \in Levels /\ work.level + 1 \in Levels
      /\ work.level + 1 \in 1..LastLevel /\ work.level # work.level + 1
  BY <1>1, <1>2 DEF Levels
<1>4. levels[work.level] \subseteq Tables /\ levels[work.level + 1] \subseteq Tables
  BY <1>3, FiniteLevels
<1>5. Inputs \subseteq Tables
  BY <1>1, <1>4 DEF Inputs
<1>6. Entries(Inputs) \subseteq 1..LastSequence
  BY <1>5 DEF Entries, Tables
<1>7. work.outputs \subseteq Tables
  BY <1>1, <1>6 DEF Tables
<1> QED
  BY <1>3, <1>4, <1>5, <1>7

(* What leaves levels, merge and keys alone.                               *)
LEMMA MergesKept ==
  ASSUME IInv, \A e \in 1..LastSequence : Key(e)' = Key(e),
         UNCHANGED <<levels, work>>, broken' = broken
  PROVE  MergesSound'
<1>1. TreeTyped /\ WorkSound /\ InputsGapless /\ OutputsClear /\ LevelsApart
  BY DEF IInv
<1>2. /\ \A t, u \in Tables : Apart(t, u)' <=> Apart(t, u)
      /\ \A t \in Tables : \A key : (Left(t, key)' <=> Left(t, key))
                                    /\ (Right(t, key)' <=> Right(t, key))
  BY <1>1, OrderKept
<1>3. Inputs' = Inputs /\ Entries(Inputs)' = Entries(Inputs)
      /\ (Automatic' <=> Automatic) /\ (work'.busy <=> work.busy)
  BY DEF Inputs, Entries, Automatic
<1>4. LevelsApart'
  <2> SUFFICES ASSUME "gap" \notin broken', NEW l \in 1..LastLevel,
                      NEW t \in levels'[l], NEW u \in levels'[l], t # u
               PROVE  Apart(t, u)'
    BY DEF LevelsApart, AllApart
  <2>1. l \in Levels
    BY TreeAssumption DEF Levels
  <2>2. levels[l] \subseteq Tables
    BY <1>1, <2>1, FiniteLevels
  <2> QED
    BY <1>1, <1>2, <2>2 DEF LevelsApart, AllApart
<1>5. CASE ~work.busy
  <2>1. ~work'.busy /\ ~Automatic'
    BY <1>3, <1>5 DEF Automatic
  <2> QED
    BY <1>4, <2>1 DEF MergesSound, WorkSound, InputsGapless, OutputsClear
<1>6. CASE work.busy
  <2>1. /\ work.level \in Levels /\ work.level + 1 \in Levels
        /\ levels[work.level] \subseteq Tables /\ levels[work.level + 1] \subseteq Tables
        /\ Inputs \subseteq Tables /\ work.outputs \subseteq Tables
    BY <1>1, <1>6, InputsTyped
  <2>2. WorkSound'
    BY <1>1, <1>2, <1>3, <1>6, <2>1 DEF WorkSound
  <2>3. Gapless(Inputs) => Gapless(Inputs)'
    BY <1>2, <1>3, <2>1 DEF Gapless
  <2>4. InputsGapless'
    BY <1>1, <1>3, <2>3 DEF InputsGapless
  <2>5. OutputsClear'
    BY <1>1, <1>2, <1>3, <2>1 DEF OutputsClear
  <2> QED
    BY <1>4, <2>2, <2>4, <2>5 DEF MergesSound
<1> QED
  BY <1>5, <1>6

(* A merge starts.                                                         *)
LEMMA MergeStarts ==
  ASSUME IInv, NEW level \in 0..(LastLevel - 1),
         NEW upper, upper \subseteq levels[level], upper # {},
         NEW isManual \in BOOLEAN, isManual \/ Gapless(upper),
         StartMerge(level, upper, isManual), UNCHANGED <<written, levels>>
  PROVE  MergesSound'
<1> DEFINE inputs == OtherInputs(level, upper)
<1>1. TreeTyped /\ LevelsApart
  BY DEF IInv
<1>2. level \in Levels /\ level + 1 \in Levels /\ level + 1 \in 1..LastLevel
  BY TreeAssumption DEF Levels
<1>3. levels[level] \subseteq Tables /\ levels[level + 1] \subseteq Tables
  BY <1>1, <1>2, FiniteLevels
<1>4. /\ inputs.upper \subseteq levels[level] /\ inputs.upper # {}
      /\ inputs.lower = Within(level + 1, From(inputs.upper), To(inputs.upper))
      /\ Gapless(upper) => Gapless(inputs.upper \cup inputs.lower)
  BY <1>1, InputsAre
<1>5. inputs.lower \subseteq levels[level + 1]
  BY <1>4 DEF Within
<1>6. work' = [busy |-> TRUE, level |-> level, upper |-> inputs.upper, lower |-> inputs.lower,
               outputs |-> MergedTables(level, inputs), manual |-> isManual]
      /\ broken \subseteq broken'
  BY DEF StartMerge, Broken
<1>7. /\ \A t \in MergedTables(level, inputs) :
           t # {} /\ t \subseteq Entries(inputs.upper \cup inputs.lower)
      /\ \A t, u \in MergedTables(level, inputs) : t # u => Apart(t, u)
  BY <1>1, <1>3, <1>4, <1>5, MergedIs
<1>8. ASSUME "gap" \notin broken
      PROVE  \A t \in MergedTables(level, inputs), u \in levels[level + 1] \ inputs.lower : Apart(t, u)
  <2>1. \A t, u \in levels[level + 1] : t # u => Apart(t, u)
    BY <1>1, <1>2, <1>8 DEF LevelsApart, AllApart
  <2> SUFFICES ASSUME NEW t \in MergedTables(level, inputs), NEW u \in levels[level + 1] \ inputs.lower
               PROVE  Apart(t, u)
    OBVIOUS
  <2>2. t \subseteq Entries(inputs.upper \cup inputs.lower)
    BY <1>7
  <2> QED
    BY <1>1, <2>1, <2>2, MergedClear
<1> HIDE DEF inputs
<1>9. /\ work'.busy /\ work'.level = level /\ work'.upper = inputs.upper
      /\ work'.lower = inputs.lower /\ work'.outputs = MergedTables(level, inputs)
      /\ Inputs' = inputs.upper \cup inputs.lower
  BY <1>6 DEF Inputs
<1>10. Automatic' => Gapless(upper)
  <2>1. CASE isManual = TRUE
    BY <1>6, <2>1 DEF Automatic
  <2>2. CASE isManual = FALSE
    BY <2>2
  <2> QED
    BY <2>1, <2>2
<1>11. \A t, u : Apart(t, u)' <=> Apart(t, u)
  BY DEF Apart, Before, Precedes, Key
<1>12. \A S : Gapless(S)' <=> Gapless(S)
  BY DEF Gapless, Left, Right, Key
<1>13. WorkSound'
  BY <1>4, <1>5, <1>7, <1>9, <1>11 DEF WorkSound, Entries
<1>14. InputsGapless'
  <2>1. PICK S : S = inputs.upper \cup inputs.lower
    OBVIOUS
  <2>2. Automatic' => Gapless(S)'
    BY <1>4, <1>10, <1>12, <2>1
  <2>3. Inputs' = S
    BY <1>9, <2>1
  <2> QED
    BY <2>2, <2>3 DEF InputsGapless, Gapless
<1>15. OutputsClear'
  BY <1>6, <1>8, <1>9, <1>11 DEF OutputsClear
<1>16. LevelsApart'
  BY <1>1, <1>6, <1>11 DEF LevelsApart, AllApart
<1> QED
  BY <1>13, <1>14, <1>15, <1>16 DEF MergesSound

LEMMA RangeOfOne ==
  ASSUME NEW t
  PROVE  From({t}) = Key(Smallest(t)) /\ To({t}) = Key(Largest(t))
<1>1. Entries({t}) = t
  BY DEF Entries
<1> QED
  BY <1>1 DEF From, To

LEMMA PickSound ==
  ASSUME IInv, PickCompaction
  PROVE  MergesSound'
<1>1. PICK level \in 0..(LastLevel - 1) : \E t \in Picked(level) :
        StartMerge(level, IF level > 0 THEN {t}
                          ELSE OverlappingInputs(0, Key(Smallest(t)), Key(Largest(t))), FALSE)
  BY DEF PickCompaction
<1>2. PICK t \in Picked(level) :
        StartMerge(level, IF level > 0 THEN {t}
                          ELSE OverlappingInputs(0, Key(Smallest(t)), Key(Largest(t))), FALSE)
  BY <1>1
<1> DEFINE upper == IF level > 0 THEN {t}
                    ELSE OverlappingInputs(0, Key(Smallest(t)), Key(Largest(t)))
<1>3. TreeTyped /\ level \in Levels /\ t \in levels[level] /\ t \in Tables
  BY PickedIs DEF IInv
<1>4. UNCHANGED <<written, levels>>
  BY DEF PickCompaction
<1>5. upper \subseteq levels[level] /\ upper # {} /\ Gapless(upper)
  <2>1. CASE level > 0
    BY <1>3, <2>1, GaplessTable
  <2>2. CASE ~(level > 0)
    <3>1. level = 0 /\ 0 \in Levels
      BY <1>3, <2>2
    <3> DEFINE found == OverlappingInputs(0, Key(Smallest(t)), Key(Largest(t)))
    <3>2. Key(Smallest(t)) \in Nat /\ Key(Largest(t)) \in Nat
          /\ Key(Smallest(t)) <= Key(Largest(t))
      BY <1>3, SpanIs
    <3>3. found \subseteq levels[0] /\ t \in found
      <4>1. Overlaps(t, Key(Smallest(t)), Key(Largest(t)))
        BY <3>2 DEF Overlaps
      <4> QED
        BY <1>3, <3>1, <3>2, <4>1, SearchIs
    <3>4. Gapless({t} \cup found)
      <4>1. {t} \subseteq Tables /\ {t} # {} /\ Gapless({t})
        BY <1>3, GaplessTable
      <4>2. Gapless({t} \cup OverlappingInputs(0, From({t}), To({t})))
        BY <1>3, <3>1, <4>1, SearchGapless
      <4> QED
        BY <4>2, RangeOfOne
    <3>5. {t} \cup found = found /\ upper = found
      BY <2>2, <3>3
    <3> HIDE DEF found
    <3> QED
      BY <3>1, <3>3, <3>4, <3>5
  <2> QED
    BY <2>1, <2>2
<1>6. StartMerge(level, upper, FALSE)
  BY <1>2
<1> HIDE DEF upper
<1> QED
  BY <1>4, <1>5, <1>6, MergeStarts

LEMMA StartManualSound ==
  ASSUME IInv, StartManual
  PROVE  MergesSound'
<1>1. manual.active /\ ManualInputs # {} /\ StartMerge(manual.level, ManualInputs, TRUE)
      /\ UNCHANGED <<written, levels>>
  BY DEF StartManual
<1>2. manual.level \in 0..(LastLevel - 1) /\ manual.level \in Levels
  <2>1. manual.level \in Nat /\ manual.top \in Nat /\ manual.level < manual.top
        /\ manual.top <= LastLevel /\ LastLevel \in Nat
    BY <1>1, TreeAssumption DEF IInv, ManualSound
  <2> QED
    BY <2>1 DEF Levels
<1>3. ManualInputs \subseteq levels[manual.level]
  <2>1. OverlappingInputs(manual.level, manual.from, manual.to) \subseteq levels[manual.level]
    BY <1>2, SearchWithin DEF IInv
  <2> QED
    BY <2>1 DEF ManualInputs
<1> QED
  BY <1>1, <1>2, <1>3, MergeStarts

LEMMA TrivialMoveSound ==
  ASSUME IInv, TrivialMove
  PROVE  MergesSound'
<1>1. PICK level \in 0..(LastLevel - 1) : \E t \in Picked(level) :
        /\ IsTrivialMove(level, OtherInputs(level, {t}))
        /\ levels' = [levels EXCEPT ![level] = @ \ {t}, ![level + 1] = @ \cup {t}]
        /\ broken' = Broken("split", Splits(level, OtherInputs(level, {t})))
  BY DEF TrivialMove
<1>2. PICK t \in Picked(level) :
        /\ IsTrivialMove(level, OtherInputs(level, {t}))
        /\ levels' = [levels EXCEPT ![level] = @ \ {t}, ![level + 1] = @ \cup {t}]
        /\ broken' = Broken("split", Splits(level, OtherInputs(level, {t})))
  BY <1>1
<1>3. TreeTyped /\ LevelsApart /\ level \in Levels /\ level + 1 \in Levels
      /\ t \in levels[level] /\ t \in Tables
  BY PickedIs DEF IInv
<1>4. ~work.busy /\ UNCHANGED <<written, work>>
  BY DEF TrivialMove
<1>5. broken \subseteq broken'
  BY <1>2 DEF Broken
<1>6. levels[level] \subseteq Tables /\ levels[level + 1] \subseteq Tables
  BY <1>3, FiniteLevels
<1>7. \A u \in levels[level + 1] : Apart(t, u)
  <2>1. OverlappingInputs(level + 1, From({t}), To({t})) = {}
    BY <1>2 DEF IsTrivialMove, OtherInputs
  <2>2. Key(Smallest(t)) \in Nat /\ Key(Largest(t)) \in Nat
    BY <1>3, SpanIs
  <2>3. OverlappingInputs(level + 1, Key(Smallest(t)), Key(Largest(t))) = {}
    BY <2>1, RangeOfOne
  <2>4. \A u \in levels[level + 1] : ~Overlaps(u, Key(Smallest(t)), Key(Largest(t)))
    BY <1>3, <2>2, <2>3, SearchIs
  <2> QED
    BY <1>3, <1>6, <2>4, OverlapApart
<1>8. \A l \in Levels : levels'[l] = IF l = level THEN levels[level] \ {t}
                                     ELSE IF l = level + 1 THEN levels[level + 1] \cup {t}
                                     ELSE levels[l]
  <2>1. levels \in [Levels -> SUBSET Tables] /\ level # level + 1
    BY <1>3 DEF TreeTyped
  <2> QED
    BY <1>2, <1>3, <2>1
<1>9. ASSUME "gap" \notin broken, NEW l \in 1..LastLevel,
             NEW v \in levels'[l], NEW u \in levels'[l], v # u
      PROVE  Apart(v, u)
  <2>1. l \in Levels
    BY TreeAssumption DEF Levels
  <2>2. \A x, y \in levels[l] : x # y => Apart(x, y)
    BY <1>3, <1>9 DEF LevelsApart, AllApart
  <2>3. CASE l # level + 1
    <3>1. levels'[l] \subseteq levels[l]
      BY <1>8, <2>1, <2>3
    <3> QED
      BY <1>9, <2>2, <3>1
  <2>4. CASE l = level + 1
    <3>1. levels'[l] \subseteq levels[l] \cup {t}
      BY <1>8, <2>1, <2>4
    <3> QED
      BY <1>7, <1>9, <2>2, <2>4, <3>1 DEF Apart
  <2> QED
    BY <2>3, <2>4
<1>10. \A v, u : Apart(v, u)' <=> Apart(v, u)
  BY <1>4 DEF Apart, Before, Precedes, Key
<1>11. LevelsApart'
  BY <1>5, <1>9, <1>10 DEF LevelsApart, AllApart
<1>12. ~work'.busy
  BY <1>4
<1> QED
  BY <1>11, <1>12 DEF MergesSound, WorkSound, InputsGapless, OutputsClear, Automatic

(* A memtable is flushed, perhaps in the middle of a merge.                *)
LEMMA FlushSound ==
  ASSUME IInv, CompactMemTable
  PROVE  MergesSound'
<1> DEFINE M == PickLevelForMemTableOutput(From({imm}), To({imm}))
           a == Key(Smallest(imm))
           b == Key(Largest(imm))
<1>1. TreeTyped /\ WorkSound /\ InputsGapless /\ OutputsClear /\ LevelsApart
  BY DEF IInv
<1>2. imm \in Tables
  BY <1>1 DEF CompactMemTable, TreeTyped, Tables
<1>3. /\ M \in Levels
      /\ M > 0 => \A k \in 0..M : \A u \in levels[k] : ~Overlaps(u, a, b)
  BY <1>1, <1>2, LevelIs
<1>4. levels' = [levels EXCEPT ![M] = @ \cup {imm}] /\ UNCHANGED <<written, work, broken>>
  BY DEF CompactMemTable
<1>5. a \in Nat /\ b \in Nat /\ a <= b
      /\ \A e \in imm : Key(e) \in Nat /\ a <= Key(e) /\ Key(e) <= b
  BY <1>1, <1>2, SpanIs
<1> HIDE DEF M
<1>6. \A u \in Tables : ~Overlaps(u, a, b) => Apart(imm, u)
  BY <1>1, <1>2, OverlapApart
<1> HIDE DEF a, b
<1>7. \A l \in Levels : levels'[l] = IF l = M THEN levels[l] \cup {imm} ELSE levels[l]
  BY <1>1, <1>4 DEF TreeTyped
<1>8. \A l \in 1..LastLevel : l \in Levels /\ l \in 0..l /\ levels[l] \subseteq Tables /\ l > 0
  <2> SUFFICES ASSUME NEW l \in 1..LastLevel
               PROVE  l \in Levels /\ l \in 0..l /\ levels[l] \subseteq Tables /\ l > 0
    OBVIOUS
  <2>1. l \in Levels /\ l \in 0..l /\ l > 0
    BY TreeAssumption DEF Levels
  <2> QED
    BY <1>1, <2>1, FiniteLevels
<1>9. ASSUME NEW l \in 1..LastLevel, l = M
      PROVE  \A u \in levels[l] : Apart(imm, u)
  BY <1>3, <1>6, <1>8, <1>9
<1>10. ASSUME "gap" \notin broken, NEW l \in 1..LastLevel,
              NEW t \in levels'[l], NEW u \in levels'[l], t # u
       PROVE  Apart(t, u)
  <2>1. \A x, y \in levels[l] : x # y => Apart(x, y)
    BY <1>1, <1>10 DEF LevelsApart, AllApart
  <2>2. CASE l = M
    <3>1. levels'[l] = levels[l] \cup {imm}
      BY <1>7, <1>8, <2>2
    <3> QED
      BY <1>9, <1>10, <2>1, <2>2, <3>1 DEF Apart
  <2>3. CASE l # M
    <3>1. levels'[l] = levels[l]
      BY <1>7, <1>8, <2>3
    <3> QED
      BY <1>10, <2>1, <3>1
  <2> QED
    BY <2>2, <2>3
<1>11. \A t, u : Apart(t, u)' <=> Apart(t, u)
  BY <1>4 DEF Apart, Before, Precedes, Key
<1>12. \A S : Gapless(S)' <=> Gapless(S)
  BY <1>4 DEF Gapless, Left, Right, Key
<1>13. LevelsApart'
  BY <1>4, <1>10, <1>11 DEF LevelsApart, AllApart
<1>14. CASE ~work.busy
  <2>1. ~work'.busy
    BY <1>4, <1>14
  <2> QED
    BY <1>13, <2>1 DEF MergesSound, WorkSound, InputsGapless, OutputsClear, Automatic
<1>15. CASE work.busy
  <2> DEFINE L == work.level
  <2>1. /\ L \in Levels /\ L + 1 \in Levels /\ L + 1 \in 1..LastLevel
        /\ levels[L] \subseteq Tables /\ levels[L + 1] \subseteq Tables
        /\ Inputs \subseteq Tables /\ work.outputs \subseteq Tables
    BY <1>1, <1>15, InputsTyped
  <2>2. /\ L \in 0..(LastLevel - 1)
        /\ work.upper \subseteq levels[L] /\ work.lower \subseteq levels[L + 1]
        /\ \A t \in work.outputs : t # {} /\ t \subseteq Entries(Inputs)
        /\ \A t, u \in work.outputs : t # u => Apart(t, u)
    BY <1>1, <1>15 DEF WorkSound
  <2>3. levels[L] \subseteq levels'[L] /\ levels[L + 1] \subseteq levels'[L + 1]
    BY <1>7, <2>1
  <2>4. WorkSound'
    BY <1>4, <1>11, <2>2, <2>3 DEF WorkSound, Entries, Inputs
  <2>5. Inputs' = Inputs /\ (Automatic' <=> Automatic)
    BY <1>4 DEF Inputs, Automatic
  <2>6. InputsGapless'
    <3>1. PICK S : S = Inputs
      OBVIOUS
    <3>2. Automatic' => Gapless(S)'
      BY <1>1, <1>12, <2>5, <3>1 DEF InputsGapless
    <3>3. Inputs' = S
      BY <2>5, <3>1
    <3> QED
      BY <3>2, <3>3 DEF InputsGapless, Gapless
  <2>7. ASSUME Automatic, L + 1 = M
        PROVE  \A t \in work.outputs : Apart(t, imm)
    <3>1. L \in 0..M /\ L + 1 \in 0..M /\ M > 0
      BY <2>2, <2>7, TreeAssumption
    <3>2. \A v \in Inputs : ~Overlaps(v, a, b)
      BY <1>3, <2>2, <3>1 DEF Inputs
    <3>3. \A v \in Inputs : Left(v, a) \/ Right(v, b)
      BY <1>1, <1>5, <2>1, <3>2, SidesAre
    <3>4. (\A v \in Inputs : Left(v, a)) \/ (\A v \in Inputs : Right(v, b))
      BY <1>1, <1>5, <2>7, <3>3 DEF InputsGapless, Gapless
    <3>5. \A v \in Inputs : \A d \in v : Key(d) \in Nat
      BY <1>1, <2>1, TableTyped
    <3>6. CASE \A v \in Inputs : Left(v, a)
      <4>1. \A v \in Inputs : \A d \in v, e \in imm : Precedes(d, e)
        BY <1>5, <3>5, <3>6 DEF Left, Precedes
      <4> QED
        BY <2>2, <4>1 DEF Entries, Apart, Before
    <3>7. CASE \A v \in Inputs : Right(v, b)
      <4>1. \A v \in Inputs : \A d \in v, e \in imm : Precedes(e, d)
        BY <1>5, <3>5, <3>7 DEF Right, Precedes
      <4> QED
        BY <2>2, <4>1 DEF Entries, Apart, Before
    <3> QED
      BY <3>4, <3>6, <3>7
  <2>8. ASSUME Automatic, "gap" \notin broken, NEW t \in work.outputs,
               NEW u \in levels'[L + 1] \ work.lower
        PROVE  Apart(t, u)
    <3>1. \A x \in levels[L + 1] \ work.lower : Apart(t, x)
      BY <1>1, <2>8 DEF OutputsClear
    <3>2. CASE L + 1 = M
      <4>1. levels'[L + 1] = levels[L + 1] \cup {imm}
        BY <1>7, <2>1, <3>2
      <4> QED
        BY <2>7, <2>8, <3>1, <3>2, <4>1
    <3>3. CASE L + 1 # M
      <4>1. levels'[L + 1] = levels[L + 1]
        BY <1>7, <2>1, <3>3
      <4> QED
        BY <2>8, <3>1, <4>1
    <3> QED
      BY <3>2, <3>3
  <2>9. OutputsClear'
    BY <1>4, <1>11, <2>5, <2>8 DEF OutputsClear
  <2> QED
    BY <1>13, <2>4, <2>6, <2>9 DEF MergesSound
<1> QED
  BY <1>14, <1>15

(* A merge ends.                                                           *)
LEMMA InstallSound ==
  ASSUME IInv, InstallMerge
  PROVE  MergesSound'
<1> DEFINE L == work.level
<1>1. TreeTyped /\ WorkSound /\ OutputsClear /\ LevelsApart
  BY DEF IInv
<1>2. /\ work.busy
      /\ levels' = [levels EXCEPT ![L] = @ \ work.upper,
                                  ![L + 1] = (@ \ work.lower) \cup work.outputs]
      /\ broken' = Broken("gap", work.manual /\ Overtaken)
      /\ written' = written /\ work' = NoWork
  BY DEF InstallMerge
<1>3. /\ L \in Levels /\ L + 1 \in Levels /\ L + 1 \in 1..LastLevel /\ L # L + 1
      /\ levels[L + 1] \subseteq Tables /\ work.outputs \subseteq Tables
  BY <1>1, <1>2, InputsTyped
<1>4. \A t, u \in work.outputs : t # u => Apart(t, u)
  BY <1>1, <1>2 DEF WorkSound
<1>5. \A l \in Levels :
        levels'[l] = IF l = L THEN levels[l] \ work.upper
                     ELSE IF l = L + 1 THEN (levels[l] \ work.lower) \cup work.outputs
                     ELSE levels[l]
  BY <1>1, <1>2, <1>3 DEF TreeTyped
<1>6. ASSUME "gap" \notin broken'
      PROVE  "gap" \notin broken /\ ~(work.manual /\ Overtaken)
  BY <1>2, <1>6 DEF Broken
<1>7. ASSUME "gap" \notin broken', NEW t \in work.outputs, NEW u \in levels[L + 1] \ work.lower
      PROVE  Apart(t, u)
  <2>1. CASE work.manual
    <3>1. ~Overlaps(u, Key(Smallest(t)), Key(Largest(t)))
      BY <1>6, <1>7, <2>1 DEF Overtaken
    <3> QED
      BY <1>1, <1>3, <3>1, OverlapApart
  <2>2. CASE ~work.manual
    BY <1>1, <1>2, <1>6, <1>7, <2>2 DEF OutputsClear, Automatic
  <2> QED
    BY <2>1, <2>2
<1>8. ASSUME "gap" \notin broken', NEW l \in 1..LastLevel,
             NEW t \in levels'[l], NEW u \in levels'[l], t # u
      PROVE  Apart(t, u)
  <2>1. l \in Levels
    BY TreeAssumption DEF Levels
  <2>2. \A x, y \in levels[l] : x # y => Apart(x, y)
    BY <1>1, <1>6, <1>8 DEF LevelsApart, AllApart
  <2>3. CASE l # L + 1
    <3>1. levels'[l] \subseteq levels[l]
      BY <1>5, <2>1, <2>3
    <3> QED
      BY <1>8, <2>2, <3>1
  <2>4. CASE l = L + 1
    <3>1. levels'[l] = (levels[l] \ work.lower) \cup work.outputs
      BY <1>3, <1>5, <2>1, <2>4
    <3>2. CASE t \in work.outputs /\ u \in work.outputs
      BY <1>4, <1>8, <3>2
    <3>3. CASE t \in work.outputs /\ u \notin work.outputs
      BY <1>7, <1>8, <2>4, <3>1, <3>3
    <3>4. CASE t \notin work.outputs /\ u \in work.outputs
      BY <1>7, <1>8, <2>4, <3>1, <3>4 DEF Apart
    <3>5. CASE t \notin work.outputs /\ u \notin work.outputs
      BY <1>8, <2>2, <3>1, <3>5
    <3> QED
      BY <3>2, <3>3, <3>4, <3>5
  <2> QED
    BY <2>3, <2>4
<1>9. \A t, u : Apart(t, u)' <=> Apart(t, u)
  BY <1>2 DEF Apart, Before, Precedes, Key
<1>10. LevelsApart'
  BY <1>8, <1>9 DEF LevelsApart, AllApart
<1>11. ~work'.busy
  BY <1>2 DEF NoWork
<1> QED
  BY <1>10, <1>11 DEF MergesSound, WorkSound, InputsGapless, OutputsClear, Automatic

LEMMA MergesNext ==
  ASSUME IInv, [Next]_vars
  PROVE  MergesSound'
<1>1. ASSUME NEW key \in Keys, NEW deletion \in BOOLEAN, Write(key, deletion)
      PROVE  MergesSound'
  <2>1. written \in Seq([key : Keys, deletion : BOOLEAN])
    BY DEF IInv, TreeTyped
  <2>2. ASSUME NEW S, NEW w \in Seq(S), NEW x
        PROVE  \A e \in 1..Len(w) : Append(w, x)[e] = w[e]
    OBVIOUS
  <2>3. \A e \in 1..LastSequence : written'[e] = written[e]
    BY <1>1, <2>1, <2>2 DEF Write, LastSequence
  <2>4. \A e \in 1..LastSequence : Key(e)' = Key(e)
    BY <2>3 DEF Key
  <2> QED
    BY <1>1, <2>4, MergesKept DEF Write
<1>2. ASSUME UNCHANGED <<written, levels, work, broken>>
      PROVE  MergesSound'
  <2>1. \A e \in 1..LastSequence : Key(e)' = Key(e)
    BY <1>2 DEF Key
  <2> QED
    BY <1>2, <2>1, MergesKept
<1>3. CASE CompactMemTable
  BY <1>3, FlushSound
<1>4. CASE PickCompaction
  BY <1>4, PickSound
<1>5. CASE TrivialMove
  BY <1>5, TrivialMoveSound
<1>6. CASE StartManual
  BY <1>6, StartManualSound
<1>7. CASE InstallMerge
  BY <1>7, InstallSound
<1>8. \/ \E key \in Keys, deletion \in BOOLEAN : Write(key, deletion)
      \/ UNCHANGED <<written, levels, work, broken>>
      \/ CompactMemTable \/ PickCompaction \/ TrivialMove \/ StartManual \/ InstallMerge
  BY DEF Next, Background, GetSnapshot, ReleaseSnapshot, SwitchMemTable, CompactRange,
         ManualDone, vars
<1> QED
  BY <1>1, <1>2, <1>3, <1>4, <1>5, <1>6, <1>7, <1>8

LEMMA InvNext == IInv /\ [Next]_vars => IInv'
BY TypedNext, ManualNext, MergesNext DEF IInv, MergesSound

-----------------------------------------------------------------------------
(* What Get finds.                                                         *)

(* All that is stored, and who reads it.                                   *)
InTables == UNION {Entries(levels[l]) : l \in Levels}
Stored == mem \cup imm \cup InTables
Readers == snapshots \cup {LastSequence}

(* Tables of level 0, and the memtables above them, are in order of age.   *)
Newer(t, u) == \A d \in t, e \in u : d > e
MemoryNewest == Newer(mem, imm) /\ Newer(mem, InTables) /\ Newer(imm, InTables)
FlushedInOrder == \A t, u \in levels[0] : t # u => Newer(t, u) \/ Newer(u, t)

(* An entry is the last of its key up to a sequence number.                *)
LastOf(S, n, s) == n \in S /\ n <= s /\ \A e \in S : Key(e) = Key(n) /\ e <= s => e <= n

(* A deletion needs no entry if nothing older is left either.              *)
Gone(S, n, s) == written[n].deletion /\ \A e \in S : Key(e) = Key(n) => e > s

(* Every reader finds the last write, or nothing if it is a deletion.      *)
Kept ==
  \A s \in Readers, n \in 1..LastSequence :
    LastOf(1..LastSequence, n, s) => n \in Stored \/ Gone(Stored, n, s)

(* What is stored has been written.                                        *)
LEMMA StoredTyped ==
  ASSUME TreeTyped
  PROVE  /\ \A l \in Levels : levels[l] \subseteq Tables /\ Entries(levels[l]) \subseteq 1..LastSequence
         /\ InTables \subseteq 1..LastSequence /\ Stored \subseteq 1..LastSequence
<1>1. \A l \in Levels : levels[l] \subseteq Tables
  BY FiniteLevels
<1>2. \A l \in Levels : Entries(levels[l]) \subseteq 1..LastSequence
  BY <1>1 DEF Entries, Tables
<1>3. InTables \subseteq 1..LastSequence
  BY <1>2 DEF InTables
<1> QED
  BY <1>1, <1>2, <1>3 DEF Stored, TreeTyped

(* Newest finds the last entry of a key, or there is none.                 *)
LEMMA NewestIs ==
  ASSUME TreeTyped, NEW S, S \subseteq 1..LastSequence, NEW key, NEW s \in Nat
  PROVE  \/ Newest(S, key, s) = 0 /\ \A e \in S : Key(e) = key => e > s
         \/ /\ Newest(S, key, s) # 0 /\ Key(Newest(S, key, s)) = key
            /\ LastOf(S, Newest(S, key, s), s)
<1> DEFINE seen == {e \in S : Key(e) = key /\ e <= s}
<1>1. LastSequence \in Nat /\ \A e \in S : e \in Nat /\ e # 0 /\ e <= LastSequence
  BY KeyTyped
<1>2. Newest(S, key, s) = IF seen = {} THEN 0 ELSE Max(seen)
  BY DEF Newest
<1>3. seen \subseteq Nat /\ \A e \in seen : e <= LastSequence
  BY <1>1
<1>4. CASE seen = {}
  <2>1. \A e \in S : Key(e) = key => e > s
    BY <1>1, <1>4
  <2> QED
    BY <1>2, <1>4, <2>1
<1>5. CASE seen # {}
  <2> DEFINE m == Newest(S, key, s)
  <2> HIDE DEF seen
  <2>1. m \in seen /\ \A e \in seen : e <= m
    BY <1>1, <1>2, <1>3, <1>5, MaxIs
  <2> HIDE DEF m
  <2>2. m \in S /\ Key(m) = key /\ m <= s /\ m # 0
    BY <1>1, <2>1 DEF seen
  <2>3. \A e \in S : Key(e) = Key(m) /\ e <= s => e <= m
    BY <2>1, <2>2 DEF seen
  <2> QED
    BY <2>2, <2>3 DEF LastOf, m
<1> QED
  BY <1>4, <1>5

(* The tables of level 0 from the newest on.                               *)
LEMMA NewestFirstIs ==
  ASSUME TreeTyped, FlushedInOrder, NEW S, S \subseteq levels[0]
  PROVE  LET r == NewestFirst(S) IN
         \E n \in Nat : /\ DOMAIN r = 1..n
                        /\ \A i \in 1..n : r[i] \in S
                        /\ \A i, j \in 1..n : i < j => Newer(r[i], r[j])
                        /\ \A t \in S : \E i \in 1..n : r[i] = t
<1> DEFINE R == {p \in S \X S : Max(p[1]) > Max(p[2])}
           r == NewestFirst(S)
<1>1. 0 \in Levels /\ IsFiniteSet(S) /\ S \subseteq Tables
  <2>1. 0 \in Levels
    BY TreeAssumption DEF Levels
  <2> QED
    BY <2>1, FiniteLevels, FS_Subset
<1>2. \A x \in S : \A y \in S : <<x, y>> \in R <=> Max(x) > Max(y)
  OBVIOUS
<1>3. ASSUME NEW x \in S
      PROVE  Max(x) \in x /\ Max(x) \in Nat
  <2>1. x \in Tables
    BY <1>1
  <2>2. x \subseteq Nat /\ x # {} /\ LastSequence \in Nat /\ \A e \in x : e <= LastSequence
    BY <2>1, TableTyped
  <2> QED
    BY <2>2, MaxIs
<1>4. ASSUME NEW x \in S, NEW y \in S, Newer(x, y)
      PROVE  Max(x) > Max(y)
  BY <1>3, <1>4 DEF Newer
<1>5. ASSUME NEW x \in S, NEW y \in S
      PROVE  /\ Max(x) > Max(y) => Newer(x, y)
             /\ x = y \/ Max(x) > Max(y) \/ Max(y) > Max(x)
  <2>1. x = y \/ Newer(x, y) \/ Newer(y, x)
    BY DEF FlushedInOrder
  <2>2. Max(x) \in Nat /\ Max(y) \in Nat
    BY <1>3
  <2>3. Max(x) > Max(y) => x # y /\ ~Newer(y, x)
    BY <1>4, <2>2
  <2> QED
    BY <1>4, <2>1, <2>3
<1>6. StrictOrder(S, R)
  <2>1. \A x \in S : \A y \in S : \A z \in S : Max(x) > Max(y) /\ Max(y) > Max(z) => Max(x) > Max(z)
    BY <1>3
  <2>2. \A x \in S : ~(Max(x) > Max(x))
    BY <1>3
  <2> HIDE DEF R
  <2> QED
    BY <1>2, <1>5, <2>1, <2>2 DEF StrictOrder
<1> DEFINE Rank(x) == Cardinality({y \in S : Max(y) > Max(x)})
<1>7. \A x \in S : Rank(x) = Place(x, S, R)
  <2> SUFFICES ASSUME NEW x \in S PROVE Rank(x) = Place(x, S, R)
    OBVIOUS
  <2>1. {y \in S : Max(y) > Max(x)} = {y \in S : <<y, x>> \in R}
    BY <1>2
  <2> QED
    BY <2>1 DEF Place
<1>8. r = [i \in 1..Cardinality(S) |-> CHOOSE x \in S : Rank(x) = i - 1]
  BY DEF NewestFirst, InOrder
<1> HIDE DEF R, Rank, r
<1>9. Sorted(r, S, R)
  BY <1>7, <1>8 DEF Sorted
<1>10. Lists(r, S, R)
  BY <1>1, <1>6, <1>9, SortedLists
<1>11. PICK n \in Nat : /\ DOMAIN r = 1..n
                        /\ \A i \in 1..n : r[i] \in S
                        /\ \A i, j \in 1..n : i < j => <<r[i], r[j]>> \in R
                        /\ \A t \in S : \E i \in 1..n : r[i] = t
  BY <1>10 DEF Lists
<1>12. \A i, j \in 1..n : i < j => Newer(r[i], r[j])
  BY <1>2, <1>5, <1>11
<1> QED
  BY <1>11, <1>12 DEF r

(* In a level below 0, the one table that is searched has the last entry.  *)
LEMMA FindFileFinds ==
  ASSUME TreeTyped, NEW l \in 1..LastLevel, AllApart,
         NEW key, NEW s \in Nat, NEW m \in Entries(levels[l]), Key(m) = key,
         LastOf(Entries(levels[l]), m, s)
  PROVE  m \in UNION FindFile(l, key, s)
<1>1. l \in Levels
  BY TreeAssumption DEF Levels
<1>2. levels[l] \subseteq Tables
  BY <1>1, FiniteLevels
<1>3. PICK t \in levels[l] : m \in t
  BY DEF Entries
<1> DEFINE reaches == {u \in levels[l] : \E e \in u : Key(e) > key \/ (Key(e) = key /\ e <= s)}
<1>4. t \in reaches
  BY <1>3 DEF LastOf
<1>5. ASSUME NEW u \in reaches \ {t}
      PROVE  Precedes(Smallest(t), Smallest(u))
  <2>1. u \in levels[l] /\ u # t /\ \E e \in u : Key(e) > key \/ (Key(e) = key /\ e <= s)
    BY <1>5
  <2>2. PICK e \in u : Key(e) > key \/ (Key(e) = key /\ e <= s)
    BY <2>1
  <2>3. e \in Entries(levels[l]) /\ t \in Tables /\ u \in Tables
    BY <1>2, <2>1, <2>2 DEF Entries
  <2>4. Key(e) \in Nat /\ Key(m) \in Nat /\ e \in Nat /\ m \in Nat
    BY <1>3, <2>2, <2>3, TableTyped
  <2>5. ~Precedes(e, m)
    <3>1. Key(e) = key /\ e <= s => e <= m
      BY <2>3 DEF LastOf
    <3> QED
      BY <2>2, <2>4, <3>1 DEF Precedes
  <2>6. ~Before(u, t)
    BY <1>3, <2>2, <2>5 DEF Before
  <2>7. Before(t, u)
    BY <1>3, <2>1, <2>6 DEF Apart, AllApart
  <2>8. Smallest(t) \in t /\ Smallest(u) \in u
    BY <2>3, SmallestIs
  <2> QED
    BY <2>7, <2>8 DEF Before
<1>6. FindFile(l, key, s) = {x \in reaches : \A u \in reaches \ {x} : Precedes(Smallest(x), Smallest(u))}
  BY DEF FindFile
<1> HIDE DEF reaches
<1>7. t \in FindFile(l, key, s)
  BY <1>4, <1>5, <1>6
<1> QED
  BY <1>3, <1>7

(* What FindFile finds is in its level.                                    *)
LEMMA FindFileWithin ==
  ASSUME NEW l, NEW key, NEW s
  PROVE  UNION FindFile(l, key, s) \subseteq Entries(levels[l])
BY DEF FindFile, Entries

(* Where Get looks, one by one.                                            *)
Looks(searched, r, n, key, s) ==
  /\ DOMAIN searched = 1..(2 + n + LastLevel)
  /\ searched[1] = mem /\ searched[2] = imm
  /\ \A i \in 1..n : searched[2 + i] = r[i]
  /\ \A l \in 1..LastLevel : searched[2 + n + l] = UNION FindFile(l, key, s)

(* A sequence of two parts.                                                *)
LEMMA TwoParts ==
  ASSUME NEW X, NEW x \in Seq(X), NEW y \in Seq(X)
  PROVE  /\ x \o y \in Seq(X) /\ Len(x \o y) = Len(x) + Len(y)
         /\ DOMAIN (x \o y) = 1..(Len(x) + Len(y))
         /\ \A i \in 1..Len(x) : (x \o y)[i] = x[i]
         /\ \A i \in 1..Len(y) : (x \o y)[Len(x) + i] = y[i]
<1> DEFINE xy == x \o y
           k == Len(x)
           m == Len(y)
<1>1. /\ xy \in Seq(X) /\ Len(xy) = k + m
      /\ \A i \in 1..(k + m) : xy[i] = IF i <= k THEN x[i] ELSE y[i - k]
  BY ConcatProperties
<1>2. k \in Nat /\ m \in Nat
  OBVIOUS
<1>3. DOMAIN xy = 1..(k + m)
  <2> HIDE DEF xy, k, m
  <2> QED
    BY <1>1
<1> HIDE DEF xy, k, m
<1>4. \A i \in 1..k : xy[i] = x[i]
  BY <1>1, <1>2
<1>5. \A i \in 1..m : xy[k + i] = y[i]
  <2> SUFFICES ASSUME NEW i \in 1..m PROVE xy[k + i] = y[i]
    OBVIOUS
  <2>1. k + i \in 1..(k + m) /\ ~(k + i <= k) /\ (k + i) - k = i
    BY <1>2
  <2> QED
    BY <1>1, <2>1
<1> QED
  BY <1>1, <1>3, <1>4, <1>5 DEF xy, k, m

(* Get looks into the memtables, tables of level 0, and every other level. *)
LEMMA SearchedIs ==
  ASSUME TreeTyped, NEW key, NEW s, NEW n \in Nat,
         NEW r, r = NewestFirst({t \in levels[0] : Overlaps(t, key, key)}),
         DOMAIN r = 1..n, \A i \in 1..n : r[i] \in levels[0]
  PROVE  Looks(Searched(key, s), r, n, key, s)
<1> DEFINE V == SUBSET (1..LastSequence)
           files == [l \in 1..LastLevel |-> UNION FindFile(l, key, s)]
           first == <<mem, imm>>
<1>1. LastLevel \in Nat /\ 0 \in Levels
  BY TreeAssumption DEF Levels
<1>2. \A l \in Levels : levels[l] \subseteq Tables /\ Entries(levels[l]) \subseteq 1..LastSequence
  BY StoredTyped
<1>3. first \in Seq(V)
  BY DEF TreeTyped
<1>4. r \in Seq(V)
  <2>1. \A i \in 1..n : r[i] \in V
    BY <1>1, <1>2 DEF Tables
  <2>2. \E e : r = [i \in 1..n |-> e[i]]
    <3>1. r = [i \in 1..n |-> r[i]]
      <4> DEFINE S == {t \in levels[0] : Overlaps(t, key, key)}
                 Nth(i) == CHOOSE x \in S : Cardinality({y \in S : Max(y) > Max(x)}) = i - 1
      <4>1. NewestFirst(S) = [i \in 1..Cardinality(S) |-> Nth(i)]
        BY DEF NewestFirst, InOrder
      <4> HIDE DEF Nth
      <4>2. r = [i \in 1..Cardinality(S) |-> Nth(i)]
        BY <4>1
      <4> HIDE DEF S
      <4>3. DOMAIN r = 1..Cardinality(S) /\ r = [i \in DOMAIN r |-> r[i]]
        BY <4>2
      <4> QED
        BY <4>3
    <3> QED
      BY <3>1
  <2> QED
    BY <2>1, <2>2
<1>5. files \in Seq(V)
  <2>1. \A l \in 1..LastLevel : UNION FindFile(l, key, s) \in V
    <3> SUFFICES ASSUME NEW l \in 1..LastLevel PROVE UNION FindFile(l, key, s) \in V
      OBVIOUS
    <3>1. l \in Levels
      BY <1>1 DEF Levels
    <3> QED
      BY <1>2, <3>1, FindFileWithin
  <2> QED
    BY <1>1, <2>1
<1>6. Searched(key, s) = first \o r \o files
  BY DEF Searched
<1>7. Len(first) = 2 /\ first[1] = mem /\ first[2] = imm
  OBVIOUS
<1>8. Len(r) = n /\ Len(files) = LastLevel /\ \A l \in 1..LastLevel : files[l] = UNION FindFile(l, key, s)
  <2>1. ASSUME NEW x \in Seq(V), NEW k \in Nat, DOMAIN x = 1..k
        PROVE  Len(x) = k
    BY <2>1
  <2> HIDE DEF V
  <2> QED
    BY <1>1, <1>4, <1>5, <2>1
<1> HIDE DEF V, files, first
<1> DEFINE searched == (first \o r) \o files
<1>10. /\ DOMAIN searched = 1..(2 + n + LastLevel)
       /\ searched[1] = first[1] /\ searched[2] = first[2]
       /\ \A i \in 1..n : searched[2 + i] = r[i]
       /\ \A i \in 1..LastLevel : searched[2 + n + i] = files[i]
  <2> DEFINE begin == first \o r
  <2>1. /\ begin \in Seq(V) /\ Len(begin) = Len(first) + Len(r)
        /\ DOMAIN begin = 1..(Len(first) + Len(r))
        /\ \A i \in 1..Len(first) : begin[i] = first[i]
        /\ \A i \in 1..Len(r) : begin[Len(first) + i] = r[i]
    BY <1>3, <1>4, TwoParts
  <2> HIDE DEF begin
  <2>2. /\ begin \in Seq(V) /\ Len(begin) = 2 + n
        /\ begin[1] = first[1] /\ begin[2] = first[2]
        /\ \A i \in 1..n : begin[2 + i] = r[i]
    <3>1. 1 \in 1..2 /\ 2 \in 1..2
      OBVIOUS
    <3> QED
      BY <1>7, <1>8, <2>1, <3>1
  <2> DEFINE all == begin \o files
  <2>3. /\ DOMAIN all = 1..(Len(begin) + Len(files))
        /\ \A i \in 1..Len(begin) : all[i] = begin[i]
        /\ \A i \in 1..Len(files) : all[Len(begin) + i] = files[i]
    <3>1. begin \in Seq(V) /\ files \in Seq(V)
      BY <1>5, <2>2
    <3> QED
      BY ONLY <3>1, TwoParts DEF all
  <2> HIDE DEF all
  <2>4. /\ DOMAIN all = 1..((2 + n) + LastLevel)
        /\ \A i \in 1..(2 + n) : all[i] = begin[i]
        /\ \A i \in 1..LastLevel : all[(2 + n) + i] = files[i]
    BY <1>8, <2>2, <2>3
  <2>5. 1 \in 1..(2 + n) /\ 2 \in 1..(2 + n) /\ \A i \in 1..n : 2 + i \in 1..(2 + n)
    OBVIOUS
  <2>6. searched = all
    BY DEF begin, all
  <2> HIDE DEF searched
  <2> QED
    BY <2>2, <2>4, <2>5, <2>6
<1> HIDE DEF searched
<1>11. Searched(key, s) = searched
  BY <1>6 DEF searched
<1> QED
  BY <1>7, <1>8, <1>10, <1>11 DEF Looks

(* Whatever is found first is newer than all that is further on.           *)
LEMMA SearchedNewer ==
  ASSUME TreeTyped, MemoryNewest, NeverHop, NEW key, NEW s, NEW n \in Nat, NEW r,
         \A i \in 1..n : r[i] \in levels[0], \A i, j \in 1..n : i < j => Newer(r[i], r[j]),
         NEW a, Looks(a, r, n, key, s)
  PROVE  /\ \A i \in DOMAIN a : a[i] \subseteq Stored
         /\ \A i, j \in DOMAIN a : i < j =>
              \A d \in a[i], e \in a[j] : Key(d) = Key(e) => d > e
<1>1. LastLevel \in Nat /\ 0 \in Levels /\ \A l \in 1..LastLevel : l \in Levels /\ 0 < l
  BY TreeAssumption DEF Levels
<1>2. /\ DOMAIN a = 1..(2 + n + LastLevel) /\ a[1] = mem /\ a[2] = imm
      /\ \A i \in 1..n : a[2 + i] = r[i]
      /\ \A l \in 1..LastLevel : a[2 + n + l] \subseteq Entries(levels[l])
  BY FindFileWithin DEF Looks
<1>3. ASSUME NEW i \in DOMAIN a, i > 2
      PROVE  \/ i - 2 \in 1..n /\ a[i] = r[i - 2] /\ a[i] \subseteq Entries(levels[0])
             \/ /\ i - 2 - n \in 1..LastLevel /\ i > 2 + n
                /\ a[i] \subseteq Entries(levels[i - 2 - n])
  <2>0. i \in 1..(2 + n + LastLevel)
    BY <1>2
  <2>1. CASE i <= 2 + n
    <3>1. i - 2 \in 1..n /\ 2 + (i - 2) = i
      BY <1>1, <1>3, <2>0, <2>1
    <3> QED
      BY <1>2, <3>1 DEF Entries
  <2>2. CASE i > 2 + n
    <3>1. i - 2 - n \in 1..LastLevel /\ 2 + n + (i - 2 - n) = i
      BY <1>1, <1>3, <2>0, <2>2
    <3> QED
      BY <1>2, <2>2, <3>1
  <2>3. i <= 2 + n \/ i > 2 + n
    BY <2>0
  <2> QED
    BY <2>1, <2>2, <2>3
<1>4. ASSUME NEW i \in DOMAIN a, i > 2
      PROVE  a[i] \subseteq InTables
  BY <1>1, <1>3, <1>4 DEF InTables
<1>5. \A i \in DOMAIN a : i = 1 \/ i = 2 \/ i > 2
  BY <1>2
<1>6. \A i \in DOMAIN a : a[i] \subseteq Stored
  BY <1>2, <1>4, <1>5 DEF Stored
<1>7. ASSUME NEW i \in DOMAIN a, NEW j \in DOMAIN a, i < j,
             NEW d \in a[i], NEW e \in a[j], Key(d) = Key(e)
      PROVE  d > e
  <2>0. i \in Nat /\ j \in Nat
    BY <1>2
  <2>1. CASE i = 1
    <3>1. j = 2 \/ j > 2
      BY <1>5, <1>7, <2>1
    <3> QED
      BY <1>2, <1>4, <1>7, <2>1, <3>1 DEF MemoryNewest, Newer
  <2>2. CASE i = 2
    <3>1. j > 2
      BY <1>7, <2>2
    <3> QED
      BY <1>2, <1>4, <1>7, <2>2, <3>1 DEF MemoryNewest, Newer
  <2>3. CASE i > 2
    <3>1. j > 2
      BY <1>7, <2>0, <2>3
    <3>2. CASE i - 2 \in 1..n /\ a[i] = r[i - 2] /\ j - 2 \in 1..n /\ a[j] = r[j - 2]
      <4>1. i - 2 < j - 2
        BY <1>7, <2>0
      <4> QED
        BY <1>7, <3>2, <4>1 DEF Newer
    <3>3. CASE a[i] \subseteq Entries(levels[0]) /\ j - 2 - n \in 1..LastLevel
               /\ a[j] \subseteq Entries(levels[j - 2 - n])
      BY <1>1, <1>7, <3>3 DEF NeverHop
    <3>4. CASE /\ i - 2 - n \in 1..LastLevel /\ a[i] \subseteq Entries(levels[i - 2 - n])
               /\ j - 2 - n \in 1..LastLevel /\ a[j] \subseteq Entries(levels[j - 2 - n])
      <4>1. i - 2 - n < j - 2 - n
        BY <1>7, <2>0
      <4> QED
        BY <1>1, <1>7, <3>4, <4>1 DEF NeverHop
    <3>5. ~(i > 2 + n /\ j - 2 \in 1..n)
      BY <1>7, <2>0
    <3> QED
      BY <1>3, <2>3, <3>1, <3>2, <3>3, <3>4, <3>5
  <2> QED
    BY <1>5, <2>1, <2>2, <2>3
<1> QED
  BY <1>6, <1>7

(* The last entry of a key that is stored is among what is searched.       *)
Covers(r, n, key) == \A t \in levels[0] : Overlaps(t, key, key) => \E i \in 1..n : r[i] = t

LEMMA SearchedHas ==
  ASSUME TreeTyped, AllApart, NEW key, NEW s \in Nat, NEW n \in Nat, NEW r, Covers(r, n, key),
         NEW a, Looks(a, r, n, key, s),
         NEW m, Key(m) = key, LastOf(Stored, m, s)
  PROVE  \E i \in DOMAIN a : m \in a[i]
<1>1. /\ DOMAIN a = 1..(2 + n + LastLevel) /\ a[1] = mem /\ a[2] = imm
      /\ \A i \in 1..n : a[2 + i] = r[i]
      /\ \A l \in 1..LastLevel : a[2 + n + l] = UNION FindFile(l, key, s)
  BY DEF Looks
<1>2. LastLevel \in Nat
  BY TreeAssumption
<1>3. 1 \in DOMAIN a /\ 2 \in DOMAIN a
      /\ (\A i \in 1..n : 2 + i \in DOMAIN a) /\ (\A l \in 1..LastLevel : 2 + n + l \in DOMAIN a)
  BY <1>1, <1>2
<1>4. m \in mem \/ m \in imm \/ \E l \in Levels : m \in Entries(levels[l])
  BY DEF LastOf, Stored, InTables
<1>5. ASSUME NEW l \in Levels, m \in Entries(levels[l])
      PROVE  \E i \in DOMAIN a : m \in a[i]
  <2>1. l = 0 \/ l \in 1..LastLevel
    BY <1>2 DEF Levels
  <2>2. CASE l = 0
    <3>1. PICK t \in levels[0] : m \in t
      BY <1>5, <2>2 DEF Entries
    <3>2. t \in Tables
      BY <2>2, FiniteLevels
    <3>3. /\ Key(Smallest(t)) <= key /\ Key(Largest(t)) >= key
      <4>1. Key(Smallest(t)) \in Nat /\ Key(Largest(t)) \in Nat /\ Key(m) \in Nat
            /\ Key(Smallest(t)) <= Key(m) /\ Key(m) <= Key(Largest(t))
        BY <3>1, <3>2, SpanIs
      <4> QED
        BY <4>1
    <3>4. PICK i \in 1..n : r[i] = t
      BY <3>3 DEF Overlaps, Covers
    <3> QED
      BY <1>1, <1>3, <3>1, <3>4
  <2>3. CASE l \in 1..LastLevel
    <3>1. LastOf(Entries(levels[l]), m, s)
      <4>1. Entries(levels[l]) \subseteq Stored
        BY DEF Stored, InTables
      <4> QED
        BY <1>5, <4>1 DEF LastOf
    <3>2. m \in UNION FindFile(l, key, s)
      BY <1>5, <2>3, <3>1, FindFileFinds
    <3> QED
      BY <1>1, <1>3, <2>3, <3>2
  <2> QED
    BY <2>1, <2>2, <2>3
<1> QED
  BY <1>1, <1>3, <1>4, <1>5

(* So Get finds the last entry of the key that is stored.                  *)
LEMMA GetFinds ==
  ASSUME TreeTyped, MemoryNewest, FlushedInOrder, NeverHop,
         AllApart, NEW key, NEW s \in Nat
  PROVE  Get(key, s) = Value(Newest(Stored, key, s))
<1> DEFINE S == {t \in levels[0] : Overlaps(t, key, key)}
           r == NewestFirst(S)
           a == Searched(key, s)
           hits == [i \in DOMAIN a |-> Newest(a[i], key, s)]
           found == {i \in DOMAIN hits : hits[i] # 0}
           m == Newest(Stored, key, s)
<1>1. PICK n \in Nat : /\ DOMAIN r = 1..n
                       /\ \A i \in 1..n : r[i] \in S
                       /\ \A i, j \in 1..n : i < j => Newer(r[i], r[j])
                       /\ \A t \in S : \E i \in 1..n : r[i] = t
  BY NewestFirstIs
<1>2. /\ \A i \in 1..n : r[i] \in levels[0]
      /\ \A t \in levels[0] : Overlaps(t, key, key) => \E i \in 1..n : r[i] = t
  BY <1>1
<1>3. Looks(a, r, n, key, s)
  BY <1>1, <1>2, SearchedIs
<1>4. Get(key, s) = IF found = {} THEN 0 ELSE Value(hits[Min(found)])
  BY DEF Get
<1> HIDE DEF S, r, a
<1>5. /\ \A i \in DOMAIN a : a[i] \subseteq Stored
      /\ \A i, j \in DOMAIN a : i < j =>
           \A d \in a[i], e \in a[j] : Key(d) = Key(e) => d > e
  BY <1>1, <1>2, <1>3, SearchedNewer
<1>6. Stored \subseteq 1..LastSequence /\ LastSequence \in Nat /\ \A e \in Stored : e \in Nat
  BY StoredTyped, KeyTyped
<1>7. DOMAIN a \subseteq Nat
  BY <1>3 DEF Looks
<1>8. \A i \in DOMAIN a :
        \/ hits[i] = 0 /\ \A e \in a[i] : Key(e) = key => e > s
        \/ hits[i] # 0 /\ Key(hits[i]) = key /\ LastOf(a[i], hits[i], s)
  <2> SUFFICES ASSUME NEW i \in DOMAIN a
               PROVE  \/ hits[i] = 0 /\ \A e \in a[i] : Key(e) = key => e > s
                      \/ hits[i] # 0 /\ Key(hits[i]) = key /\ LastOf(a[i], hits[i], s)
    OBVIOUS
  <2>1. a[i] \subseteq 1..LastSequence
    BY <1>5, <1>6
  <2> QED
    BY <2>1, NewestIs
<1>9. \/ m = 0 /\ \A e \in Stored : Key(e) = key => e > s
      \/ m # 0 /\ Key(m) = key /\ LastOf(Stored, m, s)
  BY <1>6, NewestIs
<1>10. DOMAIN hits = DOMAIN a
  OBVIOUS
<1> HIDE DEF hits, m
<1>11. CASE m = 0 /\ \A e \in Stored : Key(e) = key => e > s
  <2>1. found = {}
    <3> SUFFICES ASSUME NEW i \in DOMAIN a, hits[i] # 0 PROVE FALSE
      BY <1>10
    <3>1. hits[i] \in Stored /\ hits[i] <= s /\ Key(hits[i]) = key
      BY <1>5, <1>8 DEF LastOf
    <3>2. hits[i] > s /\ hits[i] \in Nat
      BY <1>6, <1>11, <3>1
    <3> QED
      BY <3>1, <3>2
  <2> QED
    BY <1>4, <1>11, <2>1 DEF Value, m
<1>12. CASE m # 0 /\ Key(m) = key /\ LastOf(Stored, m, s)
  <2>1. PICK i \in DOMAIN a : m \in a[i]
    <3>1. Key(m) = key /\ LastOf(Stored, m, s)
          /\ Covers(r, n, key)
      BY <1>2, <1>12 DEF Covers
    <3> HIDE DEF a, r
    <3> QED
      BY <1>3, <3>1, SearchedHas
  <2>2. m \in Stored /\ m <= s /\ \A e \in Stored : Key(e) = key /\ e <= s => e <= m
    BY <1>12 DEF LastOf
  <2>3. hits[i] = m
    <3>1. hits[i] # 0 /\ Key(hits[i]) = key /\ LastOf(a[i], hits[i], s)
      BY <1>6, <1>8, <1>12, <2>1, <2>2
    <3>2. hits[i] \in Stored /\ hits[i] <= s /\ m <= hits[i]
      BY <1>5, <1>12, <2>1, <2>2, <3>1 DEF LastOf
    <3>3. hits[i] <= m /\ hits[i] \in Nat /\ m \in Nat
      BY <1>6, <2>2, <3>1, <3>2
    <3> QED
      BY <3>2, <3>3
  <2>4. found \subseteq Nat /\ found # {} /\ i \in found
    BY <1>7, <1>10, <1>12, <2>3
  <2>5. Min(found) \in found /\ Min(found) <= i
    <3> HIDE DEF found
    <3> QED
      BY <2>4, MinIs
  <2>6. Min(found) = i
    <3>1. PICK j \in found : j = Min(found)
      BY <2>5
    <3>2. hits[j] \in a[j] /\ Key(hits[j]) = key /\ hits[j] \in Stored /\ hits[j] <= s
      BY <1>5, <1>8, <1>10, <3>1 DEF LastOf
    <3>3. hits[j] <= m
      BY <2>2, <3>2
    <3>4. ~(j < i)
      <4>1. j < i => hits[j] > m
        BY <1>5, <1>10, <1>12, <2>1, <3>1, <3>2
      <4>2. hits[j] \in Nat /\ m \in Nat
        BY <1>6, <2>2, <3>2
      <4> QED
        BY <3>3, <4>1, <4>2
    <3>5. j \in Nat /\ i \in Nat /\ j <= i
      BY <2>4, <2>5, <3>1
    <3> QED
      BY <3>1, <3>4, <3>5
  <2> QED
    BY <1>4, <2>3, <2>4, <2>6 DEF m
<1> QED
  BY <1>9, <1>11, <1>12
-----------------------------------------------------------------------------
(* What merges leave for the readers.                                      *)

(* Of a key that a merge takes, what it leaves in its two levels is newer. *)
RestNewer(level, upper, lower) ==
  \A d \in Entries(upper \cup lower) :
    \A e \in Entries(levels[level] \ upper) \cup Entries(levels[level + 1] \ lower) :
      Key(d) = Key(e) => d < e

(* What a merge makes keeps the last entry of each key for every reader,   *)
(* or is rid of a deletion and all that it deletes.                        *)
NoDeeper(level, key) ==
  \A l \in (level + 2)..LastLevel : \A e \in Entries(levels[l]) : Key(e) # key
KeptBy(level, taken, made) ==
  \A s \in Readers, n \in taken :
    LastOf(taken, n, s) => n \in made \/ (Gone(made, n, s) /\ NoDeeper(level, Key(n)))

(* Every reader may need what is not older than the smallest snapshot.     *)
LEMMA ReadersTyped ==
  ASSUME TreeTyped
  PROVE  Readers \subseteq 0..LastSequence /\ Readers \subseteq Nat
         /\ \A s \in Readers : SmallestSnapshot <= s /\ s <= LastSequence
<1>1. LastSequence \in Nat /\ snapshots \subseteq 0..LastSequence
  BY KeyTyped DEF TreeTyped
<1>2. SmallestSnapshot \in Nat /\ SmallestSnapshot <= LastSequence
      /\ \A s \in snapshots : SmallestSnapshot <= s
  BY SmallestSnapshotTyped
<1> QED
  BY <1>1, <1>2 DEF Readers

(* Tables that are apart share no entry.                                   *)
LEMMA ApartEntries ==
  ASSUME TreeTyped, NEW t \in Tables, NEW u \in Tables, Apart(t, u), NEW d \in t, NEW e \in u
  PROVE  d # e
<1>1. d \in 1..LastSequence /\ e \in 1..LastSequence
  BY TableTyped
<1>2. Precedes(d, e) \/ Precedes(e, d)
  BY DEF Apart, Before
<1> QED
  BY <1>1, <1>2, OrderIs

(* A merge that splits no key leaves nothing older than what it takes.     *)
LEMMA RestNewerIs ==
  ASSUME TreeTyped, AllApart, NeverHop, NEW level \in 0..(LastLevel - 1),
         NEW upper, upper \subseteq levels[level], upper # {}, level = 0 => Closed(upper),
         ~Splits(level, OtherInputs(level, upper))
  PROVE  RestNewer(level, OtherInputs(level, upper).upper, OtherInputs(level, upper).lower)
<1> DEFINE inputs == OtherInputs(level, upper)
           U == inputs.upper
           L == inputs.lower
<1>1. level \in Levels /\ level + 1 \in Levels /\ level < level + 1 /\ level + 1 \in 1..LastLevel
      /\ (level > 0 => level \in 1..LastLevel) /\ (level = 0 \/ level > 0)
  BY TreeAssumption DEF Levels
<1>2. levels[level] \subseteq Tables /\ levels[level + 1] \subseteq Tables
      /\ Entries(levels[level]) \subseteq 1..LastSequence
      /\ Entries(levels[level + 1]) \subseteq 1..LastSequence
  BY <1>1, StoredTyped
<1>3. /\ U \subseteq levels[level] /\ U # {}
      /\ L = Within(level + 1, From(U), To(U))
  BY InputsAre
<1>4. level = 0 => Closed(U)
  BY InputsClosed
<1>5. /\ level > 0 => \A d \in Entries(U), e \in Entries(levels[level] \ U) : ~(Key(d) = Key(e) /\ d > e)
      /\ \A d \in Entries(L), e \in Entries(levels[level + 1] \ L) : ~(Key(d) = Key(e) /\ d > e)
  BY DEF Splits
<1> HIDE DEF inputs, U, L
<1>6. L \subseteq levels[level + 1] /\ U \subseteq Tables
  BY <1>2, <1>3 DEF Within
<1>7. \A d \in Entries(levels[level]) \cup Entries(levels[level + 1]) : d \in Nat
  BY <1>2, KeyTyped
<1>8. Entries(U) \subseteq Entries(levels[level]) /\ Entries(L) \subseteq Entries(levels[level + 1])
      /\ Entries(levels[level] \ U) \subseteq Entries(levels[level])
      /\ Entries(levels[level + 1] \ L) \subseteq Entries(levels[level + 1])
      /\ Entries(U \cup L) = Entries(U) \cup Entries(L)
  BY <1>3, <1>6 DEF Entries
<1>9. ASSUME NEW l \in 1..LastLevel, l \in Levels, NEW taken, taken \subseteq levels[l],
             NEW d \in Entries(taken), NEW e \in Entries(levels[l] \ taken)
      PROVE  d # e
  <2>1. PICK t \in taken : d \in t
    BY DEF Entries
  <2>2. PICK u \in levels[l] \ taken : e \in u
    BY DEF Entries
  <2>3. t \in Tables /\ u \in Tables
    BY <1>9, FiniteLevels
  <2>4. Apart(t, u)
    BY <1>9 DEF AllApart
  <2> QED
    BY <2>1, <2>2, <2>3, <2>4, ApartEntries
<1>10. ASSUME NEW d \in Entries(U), NEW e \in Entries(levels[level] \ U), Key(d) = Key(e)
       PROVE  d < e
  <2>1. CASE level = 0
    <3>1. PICK t \in levels[level] \ U : e \in t
      BY DEF Entries
    <3>2. ~Overlaps(t, From(U), To(U)) /\ t \in Tables
      BY <1>2, <1>4, <2>1, <3>1 DEF Closed
    <3> QED
      BY <1>3, <1>6, <1>10, <3>1, <3>2, RangeKeys
  <2>2. CASE level > 0
    <3>1. d # e
      BY <1>1, <1>3, <1>9, <2>2
    <3>2. ~(d > e)
      BY <1>5, <1>10, <2>2
    <3>3. d \in Nat /\ e \in Nat
      BY <1>7, <1>8
    <3> QED
      BY <3>1, <3>2, <3>3
  <2> QED
    BY <1>1, <2>1, <2>2
<1>11. ASSUME NEW d \in Entries(L), NEW e \in Entries(levels[level + 1] \ L), Key(d) = Key(e)
       PROVE  d < e
  <2>1. d # e
    BY <1>1, <1>6, <1>9
  <2>2. ~(d > e)
    BY <1>5, <1>11
  <2>3. d \in Nat /\ e \in Nat
    BY <1>7, <1>8
  <2> QED
    BY <2>1, <2>2, <2>3
<1>12. ASSUME NEW d \in Entries(U), NEW e \in Entries(levels[level + 1] \ L), Key(d) = Key(e)
       PROVE  d < e
  <2>1. PICK t \in levels[level + 1] \ L : e \in t
    BY DEF Entries
  <2>2. ~Overlaps(t, From(U), To(U)) /\ t \in Tables
    BY <1>2, <1>3, <2>1 DEF Within
  <2> QED
    BY <1>3, <1>6, <1>12, <2>1, <2>2, RangeKeys
<1>13. ASSUME NEW d \in Entries(L), NEW e \in Entries(levels[level] \ U), Key(d) = Key(e)
       PROVE  d < e
  <2>1. e > d
    BY <1>1, <1>8, <1>13 DEF NeverHop
  <2> QED
    BY <1>7, <1>8, <2>1
<1>14. RestNewer(level, U, L)
  BY <1>8, <1>10, <1>11, <1>12, <1>13 DEF RestNewer
<1> QED
  BY <1>14 DEF U, L, inputs

(* A merge drops no entry that a reader needs.                             *)
LEMMA KeptByMerge ==
  ASSUME TreeTyped, NEW level \in 0..(LastLevel - 1), NEW inputs,
         inputs.upper \cup inputs.lower \subseteq Tables
  PROVE  KeptBy(level, Entries(inputs.upper \cup inputs.lower), Entries(MergedTables(level, inputs)))
<1> DEFINE E == Entries(inputs.upper \cup inputs.lower)
           made == Entries(MergedTables(level, inputs))
<1>1. made = {e \in E : ~Hidden(E, e) /\ ~Useless(level, e)}
  BY MergedEntries
<1>2. \A e \in E : e \in Nat
  BY KeyTyped DEF Entries, Tables
<1>3. SmallestSnapshot \in Nat /\ \A s \in Readers : s \in Nat /\ SmallestSnapshot <= s
  BY SmallestSnapshotTyped, ReadersTyped
<1> HIDE DEF E, made
<1>4. ASSUME NEW s \in Readers, NEW n \in E, LastOf(E, n, s), n \notin made
      PROVE  Gone(made, n, s) /\ NoDeeper(level, Key(n))
  <2>1. n <= s /\ \A e \in E : Key(e) = Key(n) /\ e <= s => e <= n
    BY <1>4 DEF LastOf
  <2>2. ~Hidden(E, n)
    <3> SUFFICES ASSUME NEW d \in E, Key(d) = Key(n), d > n, d <= SmallestSnapshot PROVE FALSE
      BY DEF Hidden
    <3>1. d <= s /\ d \in Nat /\ n \in Nat
      BY <1>2, <1>3
    <3>2. d <= n
      BY <2>1, <3>1
    <3> QED
      BY <3>1, <3>2
  <2>3. Useless(level, n)
    BY <1>1, <1>4, <2>2
  <2>4. written[n].deletion /\ n <= SmallestSnapshot /\ IsBaseLevelForKey(level, Key(n))
    BY <2>3 DEF Useless
  <2>5. ASSUME NEW e \in made, Key(e) = Key(n)
        PROVE  e > s
    <3>1. e \in E /\ ~Hidden(E, e) /\ e # n
      BY <1>1, <1>4
    <3>2. e \in Nat /\ n \in Nat /\ s \in Nat
      BY <1>2, <1>3, <3>1
    <3>3. ~(n > e)
      BY <2>4, <2>5, <3>1 DEF Hidden
    <3>4. e <= s => e <= n
      BY <2>1, <2>5, <3>1
    <3> QED
      BY <3>1, <3>2, <3>3, <3>4
  <2>6. ASSUME NEW l \in (level + 2)..LastLevel, NEW e \in Entries(levels[l])
        PROVE  Key(e) # Key(n)
    <3>1. l \in Levels
      BY TreeAssumption DEF Levels
    <3>2. PICK t \in levels[l] : e \in t
      BY DEF Entries
    <3>3. t \in Tables
      BY <3>1, FiniteLevels
    <3>4. Key(Smallest(t)) \in Nat /\ Key(Largest(t)) \in Nat /\ Key(e) \in Nat
          /\ Key(Smallest(t)) <= Key(e) /\ Key(e) <= Key(Largest(t))
      BY <3>2, <3>3, SpanIs
    <3>5. ~Overlaps(t, Key(n), Key(n))
      BY <2>4, <3>2 DEF IsBaseLevelForKey, OverlapInLevel
    <3> QED
      BY <3>4, <3>5 DEF Overlaps
  <2> QED
    BY <2>4, <2>5, <2>6 DEF Gone, NoDeeper
<1>5. KeptBy(level, E, made)
  BY <1>4 DEF KeptBy
<1> QED
  BY <1>5 DEF E, made

(* A merge is installed, or a table moved.                                 *)
Replaced(level, upper, lower, outputs) ==
  \A l \in Levels :
    levels'[l] = IF l = level THEN levels[l] \ upper
                 ELSE IF l = level + 1 THEN (levels[l] \ lower) \cup outputs
                 ELSE levels[l]

(* So once it is installed the order of ages and the last writes are kept. *)
LEMMA Installs ==
  ASSUME TreeTyped, MemoryNewest, NeverHop, Kept, NEW level \in 0..(LastLevel - 1),
         NEW upper, upper \subseteq levels[level], NEW lower, lower \subseteq levels[level + 1],
         NEW outputs, Entries(outputs) \subseteq Entries(upper \cup lower),
         RestNewer(level, upper, lower),
         KeptBy(level, Entries(upper \cup lower), Entries(outputs)),
         Replaced(level, upper, lower, outputs), UNCHANGED <<written, mem, imm, snapshots>>
  PROVE  NeverHop' /\ Kept'
<1> DEFINE E == Entries(upper \cup lower)
           made == Entries(outputs)
           upperRest == Entries(levels[level] \ upper)
           lowerRest == Entries(levels[level + 1] \ lower)
<1>1. level \in Levels /\ level + 1 \in Levels /\ level < level + 1 /\ level \in Nat
      /\ LastLevel \in Nat /\ Levels = 0..LastLevel
  BY TreeAssumption DEF Levels
<1>2. /\ \A l \in Levels : Entries(levels[l]) \subseteq 1..LastSequence
      /\ Stored \subseteq 1..LastSequence /\ LastSequence \in Nat
      /\ \A e \in Stored : e \in Nat
  BY StoredTyped, KeyTyped
<1>3. \A e \in E : e \in Entries(levels[level]) \/ e \in Entries(levels[level + 1])
  BY DEF Entries
<1>4. \A l \in Levels : \A e \in Entries(levels[l]) :
        /\ e \in Stored /\ e \in InTables
        /\ l = level => e \in E \/ e \in upperRest
        /\ l = level + 1 => e \in E \/ e \in lowerRest
  BY DEF Entries, Stored, InTables
<1>5. \A d \in E : \A e \in upperRest \cup lowerRest : Key(d) = Key(e) => d < e
  BY DEF RestNewer
<1>6. made \subseteq E
  OBVIOUS
<1>7. \A l \in Levels : Entries(levels'[l]) =
        IF l = level THEN upperRest
        ELSE IF l = level + 1 THEN lowerRest \cup made
        ELSE Entries(levels[l])
  <2> SUFFICES ASSUME NEW l \in Levels
               PROVE  Entries(levels'[l]) = IF l = level THEN upperRest
                                            ELSE IF l = level + 1 THEN lowerRest \cup made
                                            ELSE Entries(levels[l])
    OBVIOUS
  <2>1. CASE l = level
    BY <2>1 DEF Replaced
  <2>2. CASE l = level + 1
    <3>0. l # level /\ level + 1 # level
      BY <1>1, <2>2
    <3>1. levels'[l] = (levels[level + 1] \ lower) \cup outputs
      BY <2>2, <3>0 DEF Replaced
    <3>2. Entries((levels[level + 1] \ lower) \cup outputs) = lowerRest \cup made
      BY DEF Entries
    <3> QED
      BY <2>2, <3>0, <3>1, <3>2
  <2>3. CASE l # level /\ l # level + 1
    BY <2>3 DEF Replaced
  <2> QED
    BY <2>1, <2>2, <2>3
<1>8. upperRest \subseteq Entries(levels[level]) /\ lowerRest \subseteq Entries(levels[level + 1])
  BY DEF Entries
<1> HIDE DEF E, made, upperRest, lowerRest
<1>9. \A a, b \in Levels : a < b =>
        \A d \in Entries(levels[a]), e \in Entries(levels[b]) : Key(d) = Key(e) => d > e
  BY DEF NeverHop
<1>10. \A e \in E : e \in Stored
  BY <1>1, <1>3, <1>4
<1>11. ASSUME NEW a \in Levels, NEW b \in Levels, a < b, NEW d \in Entries(levels'[a]),
              NEW e \in Entries(levels'[b]), Key(d) = Key(e)
       PROVE  d > e
  <2>0. a \in Nat /\ b \in Nat
    BY <1>1
  <2>1. CASE d \in Entries(levels[a]) /\ e \in Entries(levels[b])
    BY <1>9, <1>11, <2>1
  <2>2. CASE d \notin Entries(levels[a])
    <3>1. a = level + 1 /\ d \in made
      BY <1>7, <1>8, <1>11, <2>2
    <3>2. b # level /\ b # level + 1 /\ level < b /\ level + 1 < b
      BY <1>1, <1>11, <2>0, <3>1
    <3>3. e \in Entries(levels[b]) /\ d \in E
      BY <1>6, <1>7, <1>11, <3>1, <3>2
    <3> QED
      BY <1>1, <1>3, <1>9, <1>11, <3>2, <3>3
  <2>3. CASE d \in Entries(levels[a]) /\ e \notin Entries(levels[b])
    <3>1. b = level + 1 /\ e \in made /\ e \in E
      BY <1>6, <1>7, <1>8, <1>11, <2>3
    <3>2. CASE a = level
      <4>1. d \in upperRest
        BY <1>1, <1>7, <1>11, <3>2
      <4>2. e < d
        BY <1>5, <1>11, <3>1, <4>1
      <4>3. e \in Nat /\ d \in Nat
        BY <1>2, <1>4, <1>10, <2>3, <3>1
      <4> QED
        BY <4>2, <4>3
    <3>3. CASE a # level
      <4>1. a < level /\ a < level + 1
        BY <1>1, <1>11, <2>0, <3>1, <3>3
      <4> QED
        BY <1>1, <1>3, <1>9, <1>11, <2>3, <3>1, <4>1
    <3> QED
      BY <3>2, <3>3
  <2> QED
    BY <2>1, <2>2, <2>3
<1>12. \A d : Key(d)' = Key(d)
  BY DEF Key
<1>13. \A l \in Levels : Entries(levels[l])' = Entries(levels'[l])
  BY DEF Entries
<1>14. NeverHop'
  BY <1>11, <1>12, <1>13 DEF NeverHop
<1>15. /\ Readers' = Readers /\ LastSequence' = LastSequence /\ mem' = mem /\ imm' = imm
  BY DEF Readers, LastSequence
<1>16. /\ \A e \in Stored' : e \in Stored
       /\ \A e \in Stored' : e \in mem \/ e \in imm \/ \E l \in Levels : e \in Entries(levels'[l])
  <2>1. \A e \in Stored' : e \in mem \/ e \in imm \/ \E l \in Levels : e \in Entries(levels'[l])
    BY <1>13, <1>15 DEF Stored, InTables
  <2>2. \A l \in Levels : \A e \in Entries(levels'[l]) : e \in Stored
    BY <1>4, <1>6, <1>7, <1>8, <1>10
  <2> QED
    BY <2>1, <2>2 DEF Stored
<1>17. ASSUME NEW e \in Stored, e \notin Stored'
       PROVE  e \in E /\ e \notin made
  <2>1. e \notin mem /\ e \notin imm /\ \A l \in Levels : e \notin Entries(levels'[l])
    BY <1>13, <1>15, <1>17 DEF Stored, InTables
  <2>2. PICK l \in Levels : e \in Entries(levels[l])
    BY <2>1 DEF Stored, InTables
  <2>3. e \in E
    BY <1>1, <1>4, <1>7, <2>1, <2>2
  <2>4. e \notin made
    BY <1>1, <1>7, <2>1
  <2> QED
    BY <2>3, <2>4
<1>18. ASSUME NEW s \in Readers, NEW n \in 1..LastSequence, LastOf(1..LastSequence, n, s)
       PROVE  n \in Stored' \/ Gone(Stored', n, s)
  <2>1. n <= s /\ \A e \in 1..LastSequence : Key(e) = Key(n) /\ e <= s => e <= n
    BY <1>18 DEF LastOf
  <2>2. CASE Gone(Stored, n, s)
    BY <1>16, <2>2 DEF Gone
  <2>3. CASE n \in Stored /\ n \notin Stored'
    <3>1. n \in E /\ n \notin made
      BY <1>17, <2>3
    <3>2. LastOf(E, n, s)
      BY <1>2, <1>10, <2>1, <3>1 DEF LastOf
    <3>3. Gone(made, n, s) /\ NoDeeper(level, Key(n))
      BY <3>1, <3>2 DEF KeptBy, E, made
    <3>4. ASSUME NEW e \in Stored', Key(e) = Key(n), ~(e > s)
          PROVE  FALSE
      <4>1. e \in Stored /\ e # n /\ e \in 1..LastSequence /\ e \in Nat /\ n \in Nat /\ s \in Nat
        BY <1>2, <1>16, <2>3, ReadersTyped
      <4>2. e < n
        <5>1. e <= s
          BY <3>4, <4>1
        <5>2. e <= n
          BY <2>1, <3>4, <4>1, <5>1
        <5> QED
          BY <4>1, <5>2
      <4>3. n \in InTables
        BY <1>1, <1>3, <1>4, <3>1
      <4>4. e \notin mem /\ e \notin imm
        <5>1. e \in mem \cup imm => e > n
          BY <4>3 DEF MemoryNewest, Newer
        <5> QED
          BY <4>1, <4>2, <5>1
      <4>5. PICK l \in Levels : e \in Entries(levels'[l])
        BY <1>16, <4>4
      <4>6. l \in Nat /\ l <= LastLevel
        BY <1>1
      <4>7. CASE l < level
        <5>1. e \in Entries(levels[l]) /\ l < level + 1
          BY <1>1, <1>7, <4>5, <4>6, <4>7
        <5>2. e > n
          BY <1>1, <1>3, <1>9, <3>1, <3>4, <4>7, <5>1
        <5> QED
          BY <4>1, <4>2, <5>2
      <4>8. CASE l = level
        <5>1. n < e
          BY <1>1, <1>5, <1>7, <3>1, <3>4, <4>5, <4>8
        <5> QED
          BY <4>1, <4>2, <5>1
      <4>9. CASE l = level + 1
        <5>1. e \in lowerRest \/ e \in made
          BY <1>1, <1>7, <4>5, <4>9
        <5>2. ~(e \in lowerRest)
          <6>1. e \in lowerRest => n < e
            BY <1>5, <3>1, <3>4
          <6> QED
            BY <4>1, <4>2, <6>1
        <5>3. ~(e \in made)
          BY <3>3, <3>4 DEF Gone
        <5> QED
          BY <5>1, <5>2, <5>3
      <4>10. CASE l > level + 1
        <5>1. l \in (level + 2)..LastLevel /\ l # level /\ l # level + 1
          BY <1>1, <4>6, <4>10
        <5>2. e \in Entries(levels[l])
          BY <1>7, <4>5, <5>1
        <5> QED
          BY <3>3, <3>4, <5>1, <5>2 DEF NoDeeper
      <4> QED
        BY <1>1, <4>6, <4>7, <4>8, <4>9, <4>10
    <3>5. written[n].deletion
      BY <3>3 DEF Gone
    <3> QED
      BY <3>4, <3>5 DEF Gone
  <2>4. n \in Stored \/ Gone(Stored, n, s)
    BY <1>18 DEF Kept
  <2> QED
    BY <2>2, <2>3, <2>4
<1>19. Kept'
  <2> SUFFICES ASSUME NEW s \in Readers, NEW n \in 1..LastSequence, LastOf(1..LastSequence, n, s)'
               PROVE  (n \in Stored \/ Gone(Stored, n, s))'
    BY <1>15 DEF Kept
  <2>1. LastOf(1..LastSequence, n, s)
    BY <1>12, <1>15 DEF LastOf
  <2>2. n \in Stored' \/ Gone(Stored', n, s)
    BY <1>18, <2>1
  <2>3. Gone(Stored', n, s) => Gone(Stored, n, s)'
    BY <1>12 DEF Gone
  <2> QED
    BY <2>2, <2>3
<1> QED
  BY <1>14, <1>19
-----------------------------------------------------------------------------
(* The invariant of the reads.                                             *)

(* What makes reads right.  Where a key was split, or tables overlap, the  *)
(* order of its entries is gone, and with it what hangs on it.             *)
MergeReads ==
  work.busy =>
    /\ RestNewer(work.level, work.upper, work.lower)
    /\ KeptBy(work.level, Entries(Inputs), Entries(work.outputs))
ReadsSound == broken = {} => NeverHop /\ Kept /\ MergeReads

(* A manual merge of level 0 searches from a key to a key.                 *)
ManualReach ==
  /\ {"begin", "from", "to"} \subseteq DOMAIN manual
  /\ work.busy => work.upper # {}
  /\ broken = {} /\ manual.active => manual.begin \in Nat /\ manual.from \in Nat /\ manual.to \in Nat

Reading == MemoryNewest /\ FlushedInOrder /\ ReadsSound /\ ManualReach

LEMMA ReadingInit == Init => Reading
<1> SUFFICES ASSUME Init PROVE Reading
  OBVIOUS
<1> USE DEF Init
<1>1. mem = {} /\ imm = {} /\ LastSequence = 0 /\ \A l \in Levels : levels[l] = {}
  BY DEF LastSequence
<1>2. 0 \in Levels
  BY TreeAssumption DEF Levels
<1>3. MemoryNewest
  BY <1>1 DEF MemoryNewest, Newer
<1>4. FlushedInOrder
  BY <1>1, <1>2 DEF FlushedInOrder
<1>5. NeverHop
  BY <1>1 DEF NeverHop, Entries
<1>6. Kept
  BY <1>1 DEF Kept
<1>7. ~work.busy /\ ~manual.active
  BY DEF NoWork, NoRange
<1>8. ManualReach
  BY <1>7 DEF ManualReach, NoRange
<1> QED
  BY <1>3, <1>4, <1>5, <1>6, <1>7, <1>8 DEF Reading, ReadsSound, MergeReads

(* What leaves the entries, the tables and the merge alone.                *)
LEMMA ReadingKept ==
  ASSUME IInv, Reading, UNCHANGED <<written, levels, work, broken>>,
         Stored' = Stored, Readers' \subseteq Readers, MemoryNewest', ManualReach'
  PROVE  Reading'
<1>1. /\ \A d : Key(d)' = Key(d)
      /\ LastSequence' = LastSequence
  BY DEF Key, LastSequence
<1>2. FlushedInOrder'
  BY DEF Reading, FlushedInOrder, Newer
<1>3. ASSUME NeverHop
      PROVE  NeverHop'
  BY <1>1, <1>3 DEF NeverHop, Entries
<1>4. \A S, n, s : /\ LastOf(S, n, s)' <=> LastOf(S, n, s)
                   /\ Gone(S, n, s)' <=> Gone(S, n, s)
  BY <1>1 DEF LastOf, Gone
<1>5. ASSUME Kept
      PROVE  Kept'
  <2> SUFFICES ASSUME NEW s \in Readers', NEW n \in 1..LastSequence, LastOf(1..LastSequence, n, s)'
               PROVE  (n \in Stored \/ Gone(Stored, n, s))'
    BY <1>1 DEF Kept
  <2>1. s \in Readers /\ LastOf(1..LastSequence, n, s)
    BY <1>1 DEF LastOf
  <2>2. n \in Stored \/ Gone(Stored, n, s)
    BY <1>5, <2>1 DEF Kept
  <2> QED
    BY <1>1, <2>2 DEF Gone
<1>6. ASSUME MergeReads
      PROVE  MergeReads'
  <2> SUFFICES ASSUME work'.busy PROVE /\ RestNewer(work.level, work.upper, work.lower)'
                                       /\ KeptBy(work.level, Entries(Inputs), Entries(work.outputs))'
    BY DEF MergeReads
  <2>1. RestNewer(work.level, work.upper, work.lower)
        /\ KeptBy(work.level, Entries(Inputs), Entries(work.outputs))
    BY <1>6 DEF MergeReads
  <2>2. RestNewer(work.level, work.upper, work.lower)'
    BY <1>1, <2>1 DEF RestNewer, Entries
  <2>3. Entries(Inputs)' = Entries(Inputs) /\ Entries(work.outputs)' = Entries(work.outputs)
        /\ work'.level = work.level
    BY DEF Inputs, Entries
  <2>4. \A key : NoDeeper(work.level, key)' <=> NoDeeper(work.level, key)
    BY <1>1 DEF NoDeeper, Entries
  <2>5. KeptBy(work.level, Entries(Inputs), Entries(work.outputs))'
    <3> DEFINE taken == Entries(Inputs)
               made == Entries(work.outputs)
    <3> SUFFICES ASSUME NEW s \in Readers', NEW n \in taken', LastOf(taken, n, s)'
                 PROVE  (n \in made \/ (Gone(made, n, s) /\ NoDeeper(work.level, Key(n))))'
      BY DEF KeptBy
    <3>1. s \in Readers /\ n \in taken /\ taken' = taken /\ made' = made
      BY <2>3
    <3>2. LastOf(taken, n, s)
      BY <1>1, <3>1 DEF LastOf
    <3>3. n \in made \/ (Gone(made, n, s) /\ NoDeeper(work.level, Key(n)))
      BY <2>1, <3>1, <3>2 DEF KeptBy
    <3> HIDE DEF taken, made
    <3>4. Gone(made, n, s) => Gone(made, n, s)'
      BY <1>1, <3>1 DEF Gone
    <3>5. NoDeeper(work.level, Key(n)) => NoDeeper(work.level, Key(n))'
      BY <1>1, <2>4
    <3> QED
      BY <3>1, <3>3, <3>4, <3>5
  <2> QED
    BY <2>2, <2>5
<1>7. ReadsSound'
  BY <1>3, <1>5, <1>6 DEF Reading, ReadsSound
<1> QED
  BY <1>2, <1>7 DEF Reading

(* A write is newer than all that is stored.                               *)
LEMMA WriteReads ==
  ASSUME IInv, Reading, NEW key \in Keys, NEW deletion \in BOOLEAN, Write(key, deletion)
  PROVE  Reading'
<1> DEFINE L == LastSequence
<1>1. TreeTyped /\ WorkSound
  BY DEF IInv
<1>2. UNCHANGED <<imm, levels, snapshots, work, manual, broken>>
      /\ mem' = mem \cup {L + 1}
  BY DEF Write
<1>3. /\ L \in Nat /\ L' = L + 1
      /\ \A e \in 1..L : written'[e] = written[e]
  <2>1. written \in Seq([key : Keys, deletion : BOOLEAN])
    BY <1>1 DEF TreeTyped
  <2>2. ASSUME NEW S, NEW w \in Seq(S), NEW x
        PROVE  Len(w) \in Nat /\ Len(Append(w, x)) = Len(w) + 1
               /\ \A e \in 1..Len(w) : Append(w, x)[e] = w[e]
    OBVIOUS
  <2> QED
    BY <2>1, <2>2 DEF Write, LastSequence
<1>4. \A e \in 1..L : Key(e)' = Key(e)
  BY <1>3 DEF Key
<1>5. /\ \A l \in Levels : Entries(levels[l]) \subseteq 1..L
      /\ InTables \subseteq 1..L /\ Stored \subseteq 1..L
      /\ mem \subseteq 1..L /\ imm \subseteq 1..L
  BY <1>1, StoredTyped DEF TreeTyped
<1>6. Readers \subseteq Nat /\ Readers' = snapshots \cup {L + 1} /\ snapshots \subseteq Readers /\ L \in Readers
      /\ \A s \in Readers : s <= L
  BY <1>1, <1>2, <1>3, ReadersTyped DEF Readers
<1> HIDE DEF L
<1>7. \A e \in 1..L : e \in Nat /\ e # L + 1 /\ e < L + 1
  BY <1>3
<1>8. InTables' = InTables /\ Stored' = Stored \cup {L + 1}
  BY <1>2 DEF InTables, Stored, Entries
<1>9. MemoryNewest'
  <2>1. MemoryNewest
    BY DEF Reading
  <2>2. \A d \in {L + 1} : \A e \in 1..L : d > e
    BY <1>3
  <2> QED
    BY <1>2, <1>5, <1>8, <2>1, <2>2 DEF MemoryNewest, Newer
<1>10. FlushedInOrder'
  BY <1>2 DEF Reading, FlushedInOrder, Newer
<1>11. ManualReach'
  BY <1>2 DEF Reading, ManualReach
<1>12. ASSUME NeverHop
       PROVE  NeverHop'
  BY <1>2, <1>4, <1>5, <1>12 DEF NeverHop, Entries
<1>13. 1..(L + 1) = (1..L) \cup {L + 1}
  BY <1>3
<1> DEFINE Sees(T, n, s) == n \in T /\ n <= s /\ \A e \in T : Key(e)' = Key(n)' /\ e <= s => e <= n
           Lost(T, n, s) == written'[n].deletion /\ \A e \in T : Key(e)' = Key(n)' => e > s
(* A new reader sees the new entry, an older one does not.                 *)
<1>14. ASSUME NEW T, T \subseteq 1..L, NEW s \in Readers', NEW n \in 1..L, Sees(T, n, s)
       PROVE  \E r \in Readers : /\ LastOf(T, n, r)
                                 /\ \A e \in 1..L : e > r => e > s
                                 /\ s # r => s = L + 1
  <2>1. n \in T /\ n <= s /\ \A e \in T : Key(e) = Key(n) /\ e <= s => e <= n
    <3> QED
      BY <1>4, <1>14
  <2>2. CASE s \in snapshots
    BY <1>6, <2>1, <2>2 DEF LastOf
  <2>3. CASE s = L + 1
    <3>1. \A e \in 1..L : e <= s /\ e <= L /\ ~(e > L)
      BY <1>3, <2>3
    <3>2. LastOf(T, n, L)
      BY <1>14, <2>1, <3>1 DEF LastOf
    <3> QED
      BY <1>6, <2>3, <3>1, <3>2
  <2> QED
    BY <1>6, <2>2, <2>3
<1>15. ASSUME Kept
       PROVE  Kept'
  <2> SUFFICES ASSUME NEW s \in Readers', NEW n \in 1..(L + 1), Sees(1..(L + 1), n, s)
               PROVE  n \in Stored' \/ Lost(Stored', n, s)
    <3>1. LastSequence' = L + 1
      BY <1>3 DEF L
    <3> QED
      BY <3>1 DEF Kept, LastOf, Gone
  <2>1. CASE n = L + 1
    BY <1>8, <2>1
  <2>2. CASE n \in 1..L
    <3>1. Sees(1..L, n, s)
      BY <1>13, <2>2
    <3>2. PICK r \in Readers : /\ LastOf(1..L, n, r)
                               /\ \A e \in 1..L : e > r => e > s
                               /\ s # r => s = L + 1
      BY <1>14, <2>2, <3>1
    <3>3. n \in Stored \/ Gone(Stored, n, r)
      BY <1>15, <2>2, <3>2 DEF Kept, L
    <3>4. CASE Gone(Stored, n, r)
      <4>1. written'[n].deletion
        BY <1>3, <2>2, <3>4 DEF Gone
      <4>2. ASSUME NEW e \in Stored, Key(e)' = Key(n)'
            PROVE  e > s
        <5>1. e \in 1..L /\ Key(e) = Key(n)
          BY <1>4, <1>5, <2>2, <4>2
        <5> QED
          BY <3>2, <3>4, <4>2, <5>1 DEF Gone
      <4>3. ASSUME NEW e, e = L + 1, Key(e)' = Key(n)'
            PROVE  e > s
        <5>1. e \in 1..(L + 1) /\ n <= L /\ n \in Nat /\ e \in Nat /\ s \in Nat
          BY <1>3, <1>6, <2>2, <3>2, <4>3
        <5>2. e <= s => e <= n
          BY <4>3, <5>1
        <5> QED
          BY <1>3, <4>3, <5>1, <5>2
      <4> QED
        BY <1>8, <4>1, <4>2, <4>3
    <3> QED
      BY <1>8, <3>3, <3>4
  <2> QED
    BY <1>13, <2>1, <2>2
<1>16. ASSUME MergeReads
       PROVE  MergeReads'
  <2> SUFFICES ASSUME work'.busy
               PROVE  /\ RestNewer(work.level, work.upper, work.lower)'
                      /\ KeptBy(work.level, Entries(Inputs), Entries(work.outputs))'
    BY DEF MergeReads
  <2> DEFINE taken == Entries(Inputs)
             made == Entries(work.outputs)
  <2>0. work.busy
    BY <1>2
  <2>1. /\ work.level \in Levels /\ work.level + 1 \in Levels
        /\ Inputs \subseteq Tables /\ work.outputs \subseteq Tables
    BY <1>1, <2>0, InputsTyped
  <2>2. taken \subseteq 1..L /\ made \subseteq 1..L
    BY <2>1 DEF Entries, Tables, L
  <2>3. RestNewer(work.level, work.upper, work.lower) /\ KeptBy(work.level, taken, made)
    BY <1>16, <2>0 DEF MergeReads
  <2>4. taken' = taken /\ made' = made /\ work' = work
    BY <1>2 DEF Inputs, Entries
  <2>5. RestNewer(work.level, work.upper, work.lower)'
    <3>1. /\ Entries(levels[work.level] \ work.upper) \subseteq 1..L
          /\ Entries(levels[work.level + 1] \ work.lower) \subseteq 1..L
          /\ Entries(work.upper \cup work.lower) \subseteq 1..L
      BY <1>5, <2>1, <2>2 DEF Entries, Inputs
    <3>2. Entries(work.upper \cup work.lower)' = Entries(work.upper \cup work.lower)
          /\ Entries(levels[work.level] \ work.upper)' = Entries(levels[work.level] \ work.upper)
          /\ Entries(levels[work.level + 1] \ work.lower)' = Entries(levels[work.level + 1] \ work.lower)
      BY <1>2 DEF Entries
    <3> QED
      BY <1>4, <2>3, <3>1, <3>2 DEF RestNewer
  <2>6. ASSUME NEW n \in 1..L, NoDeeper(work.level, Key(n))
        PROVE  NoDeeper(work.level, Key(n))'
    <3> SUFFICES ASSUME NEW l \in (work.level + 2)..LastLevel, NEW e \in Entries(levels[l])
                 PROVE  Key(e)' # Key(n)'
      BY <1>2 DEF NoDeeper, Entries
    <3>1. l \in Levels
      BY <2>1, TreeAssumption DEF Levels
    <3>2. e \in 1..L
      BY <1>5, <3>1
    <3> QED
      BY <1>4, <2>6, <3>2 DEF NoDeeper
  <2> HIDE DEF taken, made
  <2>7. ASSUME NEW s \in Readers', NEW n \in taken, Sees(taken, n, s)
        PROVE  n \in made \/ (Lost(made, n, s) /\ NoDeeper(work.level, Key(n))')
    <3>0. n \in 1..L
      BY <2>2
    <3>1. PICK r \in Readers : LastOf(taken, n, r) /\ \A e \in 1..L : e > r => e > s
      BY <1>14, <2>2, <2>7, <3>0
    <3>2. n \in made \/ (Gone(made, n, r) /\ NoDeeper(work.level, Key(n)))
      BY <2>3, <3>1 DEF KeptBy
    <3>3. Gone(made, n, r) => Lost(made, n, s)
      <4>1. \A e \in made : e \in 1..L /\ Key(e)' = Key(e)
        BY <1>4, <2>2
      <4>2. Key(n)' = Key(n) /\ written'[n] = written[n]
        BY <1>3, <1>4, <3>0
      <4> QED
        BY <2>4, <3>1, <4>1, <4>2 DEF Gone
    <3> QED
      BY <2>6, <3>0, <3>2, <3>3
  <2>8. KeptBy(work.level, taken, made)'
    BY <2>4, <2>7 DEF KeptBy, LastOf, Gone
  <2> QED
    BY <2>5, <2>8 DEF taken, made
<1>17. ReadsSound'
  BY <1>2, <1>12, <1>15, <1>16 DEF Reading, ReadsSound
<1> QED
  BY <1>9, <1>10, <1>11, <1>17 DEF Reading

(* The flush of a memtable in the middle of a merge goes above all that    *)
(* has one of its keys, so no deeper than the merge has looked.            *)
LEMMA FlushReads ==
  ASSUME IInv, Reading, CompactMemTable
  PROVE  Reading'
<1> DEFINE M == PickLevelForMemTableOutput(From({imm}), To({imm}))
           a == Key(Smallest(imm))
           b == Key(Largest(imm))
<1>1. TreeTyped /\ WorkSound
  BY DEF IInv
<1>2. imm \in Tables
  BY <1>1 DEF CompactMemTable, TreeTyped, Tables
<1>3. /\ M \in Levels
      /\ M > 0 => \A k \in 0..M : \A u \in levels[k] : ~Overlaps(u, a, b)
  BY <1>1, <1>2, LevelIs
<1>4. levels' = [levels EXCEPT ![M] = @ \cup {imm}]
      /\ UNCHANGED <<written, mem, snapshots, work, manual, broken>> /\ imm' = {}
  BY DEF CompactMemTable
<1>5. \A e \in imm : Key(e) \in Nat /\ a <= Key(e) /\ Key(e) <= b
  BY <1>1, <1>2, SpanIs
<1>6. a \in Nat /\ b \in Nat
  BY <1>1, <1>2, SpanIs
<1> HIDE DEF M
<1>7. \A l \in Levels : levels'[l] = IF l = M THEN levels[l] \cup {imm} ELSE levels[l]
  BY <1>1, <1>4 DEF TreeTyped
<1>8. \A l \in Levels : Entries(levels[l])' = IF l = M THEN Entries(levels[l]) \cup imm
                                              ELSE Entries(levels[l])
  BY <1>7 DEF Entries
<1>9. /\ Levels = 0..LastLevel /\ LastLevel \in Nat /\ 0 \in Levels /\ M \in Nat /\ M <= LastLevel
  BY <1>3, TreeAssumption DEF Levels
(* Where it goes, and above, no table has a key of it.                     *)
<1>10. ASSUME M > 0, NEW k \in 0..M, NEW d \in Entries(levels[k]), NEW e \in imm
       PROVE  Key(d) # Key(e)
  <2>1. PICK u \in levels[k] : d \in u
    BY DEF Entries
  <2>2. k \in Levels /\ u \in Tables
    <3>1. k \in Levels
      BY <1>9
    <3> QED
      BY <1>1, <2>1, <3>1, FiniteLevels
  <2>3. ~Overlaps(u, a, b)
    BY <1>3, <1>10, <2>1
  <2>4. Key(Smallest(u)) \in Nat /\ Key(Largest(u)) \in Nat /\ Key(d) \in Nat
        /\ Key(Smallest(u)) <= Key(d) /\ Key(d) <= Key(Largest(u))
    BY <1>1, <2>1, <2>2, SpanIs
  <2> HIDE DEF a, b
  <2> QED
    BY <1>5, <1>6, <2>3, <2>4 DEF Overlaps
<1> HIDE DEF a, b
<1>11. \A d : Key(d)' = Key(d)
  BY <1>4 DEF Key
<1>12. InTables' = InTables \cup imm /\ Stored' = Stored
  <2>1. InTables' = InTables \cup imm
    BY <1>3, <1>8 DEF InTables
  <2> QED
    BY <1>4, <2>1 DEF Stored
<1>13. MemoryNewest /\ FlushedInOrder
  BY DEF Reading
<1>14. MemoryNewest'
  <2>1. Newer(mem, InTables \cup imm) /\ Newer(mem, {}) /\ Newer({}, InTables \cup imm)
    BY <1>13 DEF MemoryNewest, Newer
  <2> QED
    BY <1>4, <1>12, <2>1 DEF MemoryNewest, Newer
<1>15. \A l \in Levels : \A d \in imm : \A e \in Entries(levels[l]) : d > e
  BY <1>13 DEF MemoryNewest, Newer, InTables
<1>16. FlushedInOrder'
  <2> SUFFICES ASSUME NEW t \in levels'[0], NEW u \in levels'[0], t # u
               PROVE  Newer(t, u) \/ Newer(u, t)
    BY DEF FlushedInOrder, Newer
  <2>1. \A v \in levels[0] : Newer(imm, v)
    BY <1>9, <1>15 DEF Newer, Entries
  <2>2. levels'[0] \subseteq levels[0] \cup {imm}
    BY <1>7, <1>9
  <2> QED
    BY <1>13, <2>1, <2>2 DEF FlushedInOrder
<1>17. ASSUME NeverHop
       PROVE  NeverHop'
  <2> SUFFICES ASSUME NEW l \in Levels, NEW m \in Levels, l < m,
                      NEW d \in Entries(levels[l])', NEW e \in Entries(levels[m])', Key(d) = Key(e)
               PROVE  d > e
    BY <1>11 DEF NeverHop
  <2>1. CASE d \in Entries(levels[l]) /\ e \in Entries(levels[m])
    BY <1>17, <2>1 DEF NeverHop
  <2>2. CASE d \notin Entries(levels[l])
    <3>1. l = M /\ d \in imm
      BY <1>8, <2>2
    <3>2. m \in Nat
      BY <1>9
    <3>3. m # M
      BY <1>9, <3>1, <3>2
    <3>4. e \in Entries(levels[m])
      BY <1>8, <3>3
    <3> QED
      BY <1>15, <3>1, <3>4
  <2>3. CASE e \notin Entries(levels[m]) /\ d \in Entries(levels[l])
    <3>1. m = M /\ e \in imm
      BY <1>8, <2>3
    <3>2. M > 0 /\ l \in 0..M
      BY <1>9, <3>1
    <3> QED
      BY <1>10, <2>3, <3>1, <3>2
  <2> QED
    BY <2>1, <2>2, <2>3
<1>18. Readers' = Readers /\ LastSequence' = LastSequence
  BY <1>4 DEF Readers, LastSequence
<1>19. ASSUME Kept
       PROVE  Kept'
  <2> SUFFICES ASSUME NEW s \in Readers, NEW n \in 1..LastSequence, LastOf(1..LastSequence, n, s)
               PROVE  n \in Stored \/ (Gone(Stored, n, s))'
    BY <1>11, <1>12, <1>18 DEF Kept, LastOf
  <2>1. n \in Stored \/ Gone(Stored, n, s)
    BY <1>19 DEF Kept
  <2> QED
    BY <1>4, <1>11, <1>12, <2>1 DEF Gone
<1>20. ASSUME MergeReads
       PROVE  MergeReads'
  <2> DEFINE L == work.level
             taken == Entries(Inputs)
             made == Entries(work.outputs)
  <2> SUFFICES ASSUME work'.busy
               PROVE  /\ RestNewer(L, work.upper, work.lower)'
                      /\ KeptBy(L, taken, made)'
    BY DEF MergeReads
  <2>0. work.busy /\ work' = work
    BY <1>4
  <2>1. /\ L \in Levels /\ L + 1 \in Levels
        /\ work.upper \subseteq levels[L] /\ work.lower \subseteq levels[L + 1]
    BY <1>1, <2>0, InputsTyped DEF WorkSound
  <2>2. RestNewer(L, work.upper, work.lower) /\ KeptBy(L, taken, made)
    BY <1>20, <2>0 DEF MergeReads
  <2>3. \A d \in Entries(work.upper \cup work.lower) :
          d \in Entries(levels[L]) \/ d \in Entries(levels[L + 1])
    BY <2>1 DEF Entries
  <2>4. /\ taken = Entries(work.upper \cup work.lower)
        /\ taken' = taken /\ made' = made /\ Entries(work.upper \cup work.lower)' = taken
    BY <1>4 DEF Inputs, Entries
  <2>5. /\ Entries(levels[L] \ work.upper)' \subseteq Entries(levels[L] \ work.upper) \cup imm
        /\ Entries(levels[L + 1] \ work.lower)' \subseteq Entries(levels[L + 1] \ work.lower) \cup imm
    <3>1. levels'[L] \subseteq levels[L] \cup {imm} /\ levels'[L + 1] \subseteq levels[L + 1] \cup {imm}
      BY <1>7, <2>1
    <3> QED
      BY <2>0, <3>1 DEF Entries
  <2>6. \A d \in taken : \A e \in imm : d < e
    <3> SUFFICES ASSUME NEW d \in taken, NEW e \in imm PROVE d < e
      OBVIOUS
    <3>1. e > d
      BY <1>15, <2>1, <2>3, <2>4
    <3>2. d \in Nat /\ e \in Nat
      <4>1. d \in 1..LastSequence /\ e \in 1..LastSequence
        BY <1>1, <1>2, <2>1, <2>3, <2>4, StoredTyped DEF Tables
      <4> QED
        BY <1>1, <4>1, KeyTyped
    <3> QED
      BY <3>1, <3>2
  <2>7. RestNewer(L, work.upper, work.lower)'
    <3>1. \A d \in taken : \A e \in Entries(levels[L] \ work.upper)' \cup Entries(levels[L + 1] \ work.lower)' :
            Key(d) = Key(e) => d < e
      BY <2>2, <2>4, <2>5, <2>6 DEF RestNewer
    <3> HIDE DEF taken, made
    <3> QED
      BY <1>11, <2>4, <3>1 DEF RestNewer
  <2>8. ASSUME NEW n \in taken, NoDeeper(L, Key(n))
        PROVE  NoDeeper(L, Key(n))'
    <3> SUFFICES ASSUME NEW l \in (L + 2)..LastLevel, NEW e \in Entries(levels[l])'
                 PROVE  Key(e) # Key(n)
      BY <1>11, <2>0 DEF NoDeeper
    <3>1. l \in Levels /\ L \in Nat /\ L + 2 <= l /\ l \in Nat
      BY <1>9, <2>1
    <3>2. CASE e \in Entries(levels[l])
      BY <2>8, <3>2 DEF NoDeeper
    <3>3. CASE e \notin Entries(levels[l])
      <4>1. l = M /\ e \in imm
        BY <1>8, <3>1, <3>3
      <4>2. M > 0 /\ L \in 0..M /\ L + 1 \in 0..M
        BY <1>9, <3>1, <4>1
      <4> QED
        BY <1>10, <2>3, <2>4, <4>1, <4>2
    <3> QED
      BY <3>2, <3>3
  <2> HIDE DEF taken, made
  <2>9. ASSUME NEW s \in Readers, NEW n \in taken, LastOf(taken, n, s)
        PROVE  n \in made \/ (Gone(made, n, s)' /\ NoDeeper(L, Key(n))')
    <3>1. n \in made \/ (Gone(made, n, s) /\ NoDeeper(L, Key(n)))
      BY <2>2, <2>9 DEF KeptBy
    <3>2. Gone(made, n, s) => Gone(made, n, s)'
      BY <1>4, <1>11, <2>4 DEF Gone
    <3> QED
      BY <2>8, <3>1, <3>2
  <2>10. KeptBy(L, taken, made)'
    BY <1>11, <1>18, <2>0, <2>4, <2>9 DEF KeptBy, LastOf
  <2> QED
    BY <2>7, <2>10
<1>21. ReadsSound'
  BY <1>4, <1>17, <1>19, <1>20 DEF Reading, ReadsSound
<1>22. ManualReach'
  BY <1>4 DEF Reading, ManualReach
<1> QED
  BY <1>14, <1>16, <1>21, <1>22 DEF Reading

(* The tables that PickCompaction starts from.                             *)
LEMMA PickedUpper ==
  ASSUME TreeTyped, NEW level \in 0..(LastLevel - 1), NEW t \in Picked(level)
  PROVE  LET upper == IF level > 0 THEN {t}
                      ELSE OverlappingInputs(0, Key(Smallest(t)), Key(Largest(t)))
         IN upper \subseteq levels[level] /\ upper # {} /\ (level = 0 => Closed(upper))
<1>1. level \in Levels /\ t \in levels[level] /\ t \in Tables
  BY PickedIs
<1>2. CASE level > 0
  BY <1>1, <1>2
<1>3. CASE ~(level > 0)
  <2> DEFINE found == OverlappingInputs(0, Key(Smallest(t)), Key(Largest(t)))
  <2>1. level = 0 /\ 0 \in Levels
    BY <1>1, <1>3
  <2>2. Key(Smallest(t)) \in Nat /\ Key(Largest(t)) \in Nat /\ Key(Smallest(t)) <= Key(Largest(t))
    BY <1>1, SpanIs
  <2>3. found \subseteq levels[0] /\ t \in found
    <3>1. Overlaps(t, Key(Smallest(t)), Key(Largest(t)))
      BY <2>2 DEF Overlaps
    <3> QED
      BY <1>1, <2>1, <2>2, <3>1, SearchIs
  <2>4. Closed(found)
    <3>1. found # {}
      BY <2>3
    <3> QED
      BY <2>2, <3>1, SearchCloses DEF Closed
  <2> HIDE DEF found
  <2> QED
    BY <1>3, <2>1, <2>3, <2>4 DEF found
<1> QED
  BY <1>2, <1>3

(* The tables that a manual compaction starts from.                        *)
LEMMA ManualUpper ==
  ASSUME IInv, Reading, manual.active, broken = {}
  PROVE  /\ manual.level \in 0..(LastLevel - 1)
         /\ ManualInputs \subseteq levels[manual.level]
         /\ ManualInputs # {} /\ manual.level = 0 => Closed(ManualInputs)
<1>1. manual.level \in 0..(LastLevel - 1) /\ manual.level \in Levels
  <2>1. manual.level \in Nat /\ manual.top \in Nat /\ manual.level < manual.top
        /\ manual.top <= LastLevel /\ LastLevel \in Nat
    BY TreeAssumption DEF IInv, ManualSound
  <2> QED
    BY <2>1 DEF Levels
<1> DEFINE found == OverlappingInputs(manual.level, manual.from, manual.to)
<1>2. found \subseteq levels[manual.level]
  BY <1>1, SearchWithin DEF IInv
<1>3. ManualInputs \subseteq found /\ (manual.level = 0 => ManualInputs = found)
  BY DEF ManualInputs
<1>4. ASSUME manual.level = 0, ManualInputs # {}
      PROVE  Closed(ManualInputs)
  <2>1. manual.from \in Nat /\ manual.to \in Nat
    BY DEF Reading, ManualReach
  <2>2. OverlappingInputs(0, manual.from, manual.to) # {}
    BY <1>3, <1>4
  <2>3. Closed(OverlappingInputs(0, manual.from, manual.to))
    BY <2>1, <2>2, SearchCloses DEF Closed, IInv
  <2> QED
    BY <1>3, <1>4, <2>3
<1> HIDE DEF found
<1> QED
  BY <1>1, <1>2, <1>3, <1>4

(* A merge starts.                                                         *)
LEMMA StartReads ==
  ASSUME IInv, Reading, NEW level \in 0..(LastLevel - 1),
         NEW upper, upper \subseteq levels[level], upper # {},
         broken = {} /\ level = 0 => Closed(upper),
         NEW isManual \in BOOLEAN, StartMerge(level, upper, isManual),
         UNCHANGED <<written, mem, imm, levels, snapshots, manual>>
  PROVE  Reading'
<1> DEFINE inputs == OtherInputs(level, upper)
           U == inputs.upper
           W == inputs.lower
           made == MergedTables(level, inputs)
<1>1. TreeTyped
  BY DEF IInv
<1>2. work' = [busy |-> TRUE, level |-> level, upper |-> U, lower |-> W,
               outputs |-> made, manual |-> isManual]
      /\ broken' = Broken("split", Splits(level, inputs))
  BY DEF StartMerge
<1>3. U \subseteq levels[level] /\ U # {} /\ W = Within(level + 1, From(U), To(U))
  BY <1>1, InputsAre
<1>4. U \cup W \subseteq Tables
  <2>1. level \in Levels /\ level + 1 \in Levels
    BY TreeAssumption DEF Levels
  <2>2. levels[level] \subseteq Tables /\ levels[level + 1] \subseteq Tables
    BY <1>1, <2>1, FiniteLevels
  <2> QED
    BY <1>3, <2>2 DEF Within
<1>5. KeptBy(level, Entries(U \cup W), Entries(made))
  BY <1>1, <1>4, KeptByMerge
<1>6. ASSUME broken' = {}
      PROVE  broken = {} /\ ~Splits(level, inputs)
  BY <1>2, <1>6 DEF Broken
<1>7. ASSUME broken' = {}
      PROVE  RestNewer(level, U, W)
  <2>1. AllApart
    BY <1>6, <1>7 DEF IInv, LevelsApart, AllApart
  <2>2. NeverHop
    BY <1>6, <1>7 DEF Reading, ReadsSound
  <2>3. level = 0 => Closed(upper)
    BY <1>6, <1>7
  <2> QED
    BY <1>1, <1>6, <1>7, <2>1, <2>2, <2>3, RestNewerIs
<1> HIDE DEF U, W, made, inputs
<1>8. work'.busy /\ work'.level = level /\ work'.upper = U /\ work'.lower = W /\ work'.outputs = made
      /\ Inputs' = U \cup W
  BY <1>2 DEF Inputs
<1>9. /\ \A d : Key(d)' = Key(d)
      /\ LastSequence' = LastSequence /\ Readers' = Readers
      /\ InTables' = InTables /\ Stored' = Stored
      /\ \A l \in Levels : Entries(levels[l])' = Entries(levels[l])
  BY DEF Key, LastSequence, Readers, Stored, InTables, Entries
<1>10. MemoryNewest' /\ FlushedInOrder'
  BY <1>9 DEF Reading, MemoryNewest, FlushedInOrder, Newer
<1>11. NeverHop => NeverHop'
  BY <1>9 DEF NeverHop
<1>12. Kept => Kept'
  BY <1>9 DEF Kept, LastOf, Gone
<1>13. broken' = {} => RestNewer(work.level, work.upper, work.lower)'
  <2>1. RestNewer(level, U, W) => RestNewer(level, work.upper, work.lower)'
    BY <1>8, <1>9 DEF RestNewer, Entries
  <2> QED
    BY <1>7, <1>8, <2>1 DEF RestNewer
<1>14. KeptBy(work.level, Entries(Inputs), Entries(work.outputs))'
  <2>1. Entries(Inputs)' = Entries(U \cup W) /\ Entries(work.outputs)' = Entries(made)
    BY <1>8 DEF Entries
  <2>2. PICK A, B : A = Entries(U \cup W) /\ B = Entries(made)
    OBVIOUS
  <2>3. KeptBy(level, A, B)
    BY <1>5, <2>2
  <2>4. KeptBy(level, A, B)'
    BY <1>9, <2>3 DEF KeptBy, LastOf, Gone, NoDeeper, Entries
  <2> QED
    BY <1>8, <2>1, <2>2, <2>4 DEF KeptBy, NoDeeper
<1>15. ReadsSound'
  BY <1>6, <1>11, <1>12, <1>13, <1>14 DEF Reading, ReadsSound, MergeReads
<1>16. ManualReach'
  BY <1>3, <1>6, <1>8 DEF Reading, ManualReach
<1> QED
  BY <1>10, <1>15, <1>16 DEF Reading

(* The actions that start a merge, or end one.                             *)
LEMMA PickReads ==
  ASSUME IInv, Reading, PickCompaction
  PROVE  Reading'
<1>1. PICK level \in 0..(LastLevel - 1) : \E t \in Picked(level) :
        StartMerge(level, IF level > 0 THEN {t}
                          ELSE OverlappingInputs(0, Key(Smallest(t)), Key(Largest(t))), FALSE)
  BY DEF PickCompaction
<1>2. PICK t \in Picked(level) :
        StartMerge(level, IF level > 0 THEN {t}
                          ELSE OverlappingInputs(0, Key(Smallest(t)), Key(Largest(t))), FALSE)
  BY <1>1
<1> DEFINE upper == IF level > 0 THEN {t}
                    ELSE OverlappingInputs(0, Key(Smallest(t)), Key(Largest(t)))
<1>3. upper \subseteq levels[level] /\ upper # {} /\ (level = 0 => Closed(upper))
  BY PickedUpper DEF IInv
<1>4. StartMerge(level, upper, FALSE) /\ UNCHANGED <<written, mem, imm, levels, snapshots, manual>>
  BY <1>2 DEF PickCompaction
<1> HIDE DEF upper
<1> QED
  BY <1>3, <1>4, StartReads

LEMMA StartManualReads ==
  ASSUME IInv, Reading, StartManual
  PROVE  Reading'
<1>1. manual.active /\ ManualInputs # {} /\ StartMerge(manual.level, ManualInputs, TRUE)
      /\ UNCHANGED <<written, mem, imm, levels, snapshots, manual>>
  BY DEF StartManual
<1>2. /\ manual.level \in 0..(LastLevel - 1)
      /\ ManualInputs \subseteq levels[manual.level]
      /\ broken = {} /\ manual.level = 0 => Closed(ManualInputs)
  <2>1. manual.level \in 0..(LastLevel - 1) /\ manual.level \in Levels
    <3>1. manual.level \in Nat /\ manual.top \in Nat /\ manual.level < manual.top
          /\ manual.top <= LastLevel /\ LastLevel \in Nat
      BY <1>1, TreeAssumption DEF IInv, ManualSound
    <3> QED
      BY <3>1 DEF Levels
  <2>2. ManualInputs \subseteq levels[manual.level]
    <3>1. OverlappingInputs(manual.level, manual.from, manual.to) \subseteq levels[manual.level]
      BY <2>1, SearchWithin DEF IInv
    <3> QED
      BY <3>1 DEF ManualInputs
  <2> QED
    BY <1>1, <2>1, <2>2, ManualUpper
<1> QED
  BY <1>1, <1>2, StartReads

LEMMA TrivialMoveReads ==
  ASSUME IInv, Reading, TrivialMove
  PROVE  Reading'
<1>1. PICK level \in 0..(LastLevel - 1) : \E t \in Picked(level) :
        /\ level = 0 => OverlappingInputs(0, Key(Smallest(t)), Key(Largest(t))) = {t}
        /\ IsTrivialMove(level, OtherInputs(level, {t}))
        /\ levels' = [levels EXCEPT ![level] = @ \ {t}, ![level + 1] = @ \cup {t}]
        /\ broken' = Broken("split", Splits(level, OtherInputs(level, {t})))
  BY DEF TrivialMove
<1>2. PICK t \in Picked(level) :
        /\ level = 0 => OverlappingInputs(0, Key(Smallest(t)), Key(Largest(t))) = {t}
        /\ IsTrivialMove(level, OtherInputs(level, {t}))
        /\ levels' = [levels EXCEPT ![level] = @ \ {t}, ![level + 1] = @ \cup {t}]
        /\ broken' = Broken("split", Splits(level, OtherInputs(level, {t})))
  BY <1>1
<1>3. TreeTyped /\ level \in Levels /\ level + 1 \in Levels /\ level # level + 1
      /\ t \in levels[level] /\ t \in Tables
  BY PickedIs DEF IInv
<1>4. ~work.busy /\ UNCHANGED <<written, mem, imm, snapshots, work, manual>>
  BY DEF TrivialMove
<1>5. OtherInputs(level, {t}).lower = {} /\ OtherInputs(level, {t}).upper = {t}
  BY <1>2 DEF IsTrivialMove, OtherInputs
<1>6. Replaced(level, {t}, {}, {t})
  BY <1>2, <1>3 DEF TreeTyped, Replaced
<1>7. level = 0 => Closed({t})
  <2>1. Key(Smallest(t)) \in Nat /\ Key(Largest(t)) \in Nat
    BY <1>3, SpanIs
  <2>2. ASSUME level = 0
        PROVE  Closed({t})
    <3>1. OverlappingInputs(0, Key(Smallest(t)), Key(Largest(t))) = {t}
      BY <1>2, <2>2
    <3>2. Closed(OverlappingInputs(0, Key(Smallest(t)), Key(Largest(t))))
      BY <1>3, <2>1, <3>1, SearchCloses DEF Closed
    <3> QED
      BY <3>1, <3>2
  <2> QED
    BY <2>2
<1>8. ASSUME broken' = {}
      PROVE  broken = {} /\ ~Splits(level, OtherInputs(level, {t}))
  BY <1>2, <1>8 DEF Broken
<1>9. ASSUME broken' = {}
      PROVE  NeverHop' /\ Kept'
  <2>1. AllApart /\ NeverHop /\ Kept /\ MemoryNewest
    BY <1>8, <1>9 DEF IInv, LevelsApart, AllApart, Reading, ReadsSound
  <2>2. RestNewer(level, {t}, {})
    <3>1. {t} \subseteq levels[level] /\ {t} # {}
      BY <1>3
    <3>2. RestNewer(level, OtherInputs(level, {t}).upper, OtherInputs(level, {t}).lower)
      BY <1>3, <1>7, <1>8, <1>9, <2>1, <3>1, RestNewerIs
    <3> QED
      BY <1>5, <3>2
  <2>3. {t} \cup {} = {t}
    OBVIOUS
  <2>4. KeptBy(level, Entries({t} \cup {}), Entries({t}))
    BY <2>3 DEF KeptBy, LastOf
  <2>5. {t} \subseteq levels[level] /\ {} \subseteq levels[level + 1]
        /\ Entries({t}) \subseteq Entries({t} \cup {})
    BY <1>3, <2>3
  <2> QED
    BY <1>3, <1>4, <1>6, <2>1, <2>2, <2>4, <2>5, Installs
<1>10. 0 \in Levels /\ levels'[0] \subseteq levels[0] /\ InTables' \subseteq InTables
  <2>1. 0 \in Levels /\ 0 # level + 1
    BY TreeAssumption DEF Levels
  <2>2. levels'[0] \subseteq levels[0]
    BY <1>6, <2>1 DEF Replaced
  <2>3. \A l \in Levels : \A u \in levels'[l] : \E m \in Levels : u \in levels[m]
    BY <1>3, <1>6 DEF Replaced
  <2> QED
    BY <2>1, <2>2, <2>3 DEF InTables, Entries
<1>11. MemoryNewest' /\ FlushedInOrder'
  BY <1>4, <1>10 DEF Reading, MemoryNewest, FlushedInOrder, Newer
<1>12. ManualReach'
  BY <1>4, <1>8 DEF Reading, ManualReach
<1> QED
  BY <1>4, <1>9, <1>11, <1>12 DEF Reading, ReadsSound, MergeReads

(* The tables of a level have different first entries, so the rest of a    *)
(* manual compaction begins with the end of one of its inputs.             *)
LEMMA LastInput ==
  ASSUME IInv, Reading, work.busy, broken = {}
  PROVE  LET last == CHOOSE t \in work.upper : \A u \in work.upper \ {t} :
                       Precedes(Smallest(u), Smallest(t))
         IN Key(Largest(last)) \in Nat
<1> DEFINE U == work.upper
           S == {Smallest(u) : u \in U}
           Final(t) == \A u \in U \ {t} : Precedes(Smallest(u), Smallest(t))
<1>1. TreeTyped /\ WorkSound /\ U # {}
  BY DEF IInv, Reading, ManualReach
<1>2. work.level \in Levels /\ U \subseteq levels[work.level] /\ levels[work.level] \subseteq Tables
      /\ (work.level = 0 \/ work.level \in 1..LastLevel)
  BY <1>1, InputsTyped DEF WorkSound, Levels
<1>3. \A u \in U : u \in Tables /\ Smallest(u) \in u
  BY <1>1, <1>2, SmallestIs
<1>4. ASSUME NEW t \in U, NEW u \in U, t # u
      PROVE  Smallest(t) # Smallest(u)
  <2>1. CASE work.level = 0
    <3>1. Newer(t, u) \/ Newer(u, t)
      BY <1>2, <1>4, <2>1 DEF Reading, FlushedInOrder
    <3>2. Smallest(t) > Smallest(u) \/ Smallest(u) > Smallest(t)
      BY <1>3, <3>1 DEF Newer
    <3>3. Smallest(t) \in Nat /\ Smallest(u) \in Nat
      BY <1>1, <1>3, TableTyped
    <3> QED
      BY <3>2, <3>3
  <2>2. CASE work.level \in 1..LastLevel
    <3>1. Apart(t, u)
      BY <1>2, <1>4, <2>2 DEF IInv, LevelsApart, AllApart
    <3> QED
      BY <1>1, <1>3, <3>1, ApartEntries
  <2> QED
    BY <1>2, <2>1, <2>2
<1>5. S \in Tables
  BY <1>1, <1>3 DEF Tables
<1>6. Largest(S) \in S /\ \A e \in S \ {Largest(S)} : Precedes(e, Largest(S))
  BY <1>1, <1>5, LargestIs
<1>7. PICK t \in U : Smallest(t) = Largest(S)
  BY <1>6
<1>8. Final(t)
  <2> SUFFICES ASSUME NEW u \in U \ {t} PROVE Precedes(Smallest(u), Smallest(t))
    OBVIOUS
  <2>1. Smallest(u) # Smallest(t)
    BY <1>4
  <2> QED
    BY <1>6, <1>7, <2>1
<1> DEFINE last == CHOOSE x \in U : Final(x)
<1>9. last \in U
  <2> HIDE DEF Final, U
  <2> QED
    BY <1>8
<1> HIDE DEF last
<1>10. Key(Largest(last)) \in Nat
  BY <1>1, <1>3, <1>9, SpanIs
<1> QED
  BY <1>10 DEF last

LEMMA InstallReads ==
  ASSUME IInv, Reading, InstallMerge
  PROVE  Reading'
<1> DEFINE L == work.level
           key == LET last == CHOOSE t \in work.upper : \A u \in work.upper \ {t} :
                                Precedes(Smallest(u), Smallest(t))
                  IN Key(Largest(last))
<1>1. TreeTyped /\ WorkSound /\ Reading
  BY DEF IInv
<1>2. /\ work.busy
      /\ levels' = [levels EXCEPT ![L] = @ \ work.upper,
                                  ![L + 1] = (@ \ work.lower) \cup work.outputs]
      /\ broken' = Broken("gap", work.manual /\ Overtaken)
      /\ work' = NoWork
      /\ UNCHANGED <<written, mem, imm, snapshots>>
      /\ manual' = [manual EXCEPT !.from = key] \/ manual' = manual
  BY DEF InstallMerge
<1>3. /\ L \in Levels /\ L + 1 \in Levels /\ L # L + 1 /\ L \in 0..(LastLevel - 1)
      /\ work.upper \subseteq levels[L] /\ work.lower \subseteq levels[L + 1]
      /\ Entries(work.outputs) \subseteq Entries(Inputs)
  BY <1>1, <1>2, InputsTyped DEF WorkSound, Entries
<1>4. Replaced(L, work.upper, work.lower, work.outputs)
  BY <1>1, <1>2, <1>3 DEF TreeTyped, Replaced
<1>5. ASSUME broken' = {}
      PROVE  broken = {}
  BY <1>2, <1>5 DEF Broken
<1>6. ASSUME broken' = {}
      PROVE  NeverHop' /\ Kept'
  <2>1. NeverHop /\ Kept /\ MemoryNewest /\ MergeReads
    BY <1>5, <1>6 DEF Reading, ReadsSound
  <2>2. RestNewer(L, work.upper, work.lower)
        /\ KeptBy(L, Entries(work.upper \cup work.lower), Entries(work.outputs))
    BY <1>2, <2>1 DEF MergeReads, Inputs
  <2>3. Entries(work.outputs) \subseteq Entries(work.upper \cup work.lower)
    BY <1>3 DEF Inputs
  <2> QED
    BY <1>1, <1>2, <1>3, <1>4, <2>1, <2>2, <2>3, Installs
<1>7. 0 \in Levels /\ levels'[0] \subseteq levels[0] /\ InTables' \subseteq InTables
  <2>1. 0 \in Levels /\ 0 # L + 1
    BY <1>3, TreeAssumption DEF Levels
  <2>2. levels'[0] \subseteq levels[0]
    BY <1>4, <2>1 DEF Replaced
  <2>3. Entries(work.outputs) \subseteq InTables
    <3>1. Inputs \subseteq levels[L] \cup levels[L + 1]
      BY <1>3 DEF Inputs
    <3> QED
      BY <1>3, <3>1 DEF Entries, InTables
  <2>4. \A l \in Levels : \A u \in levels'[l] : u \in work.outputs \/ u \in levels[l]
    BY <1>3, <1>4 DEF Replaced
  <2> QED
    BY <2>1, <2>2, <2>3, <2>4 DEF InTables, Entries
<1>8. MemoryNewest' /\ FlushedInOrder'
  BY <1>2, <1>7 DEF Reading, MemoryNewest, FlushedInOrder, Newer
<1>9. ~work'.busy
  BY <1>2 DEF NoWork
<1>10. ManualReach'
  <2>1. {"begin", "from", "to"} \subseteq DOMAIN manual /\ {"active", "level", "top"} \subseteq DOMAIN manual
        /\ (broken = {} /\ manual.active => manual.begin \in Nat /\ manual.from \in Nat /\ manual.to \in Nat)
    BY DEF IInv, ManualSound, Reading, ManualReach
  <2>2. broken = {} => key \in Nat
    BY <1>2, LastInput
  <2> HIDE DEF key
  <2>3. CASE manual' = [manual EXCEPT !.from = key]
    <3>1. DOMAIN manual' = DOMAIN manual /\ manual'.begin = manual.begin /\ manual'.to = manual.to
          /\ manual'.from = key
      BY <2>1, <2>3
    <3>2. manual'.active = manual.active
      BY <2>1, <2>3
    <3> QED
      BY <1>5, <1>9, <2>1, <2>2, <3>1, <3>2 DEF ManualReach
  <2>4. CASE manual' = manual
    BY <1>5, <1>9, <2>1, <2>4 DEF ManualReach
  <2> QED
    BY <1>2, <2>3, <2>4
<1> QED
  BY <1>6, <1>8, <1>9, <1>10 DEF Reading, ReadsSound, MergeReads

(* Every step keeps the invariant, and the invariant makes reads right.    *)
LEMMA ReadingNext == IInv /\ Reading /\ [Next]_vars => Reading'
<1> SUFFICES ASSUME IInv, Reading, [Next]_vars PROVE Reading'
  OBVIOUS
<1>1. CASE GetSnapshot \/ ReleaseSnapshot \/ SwitchMemTable \/ ManualDone \/ UNCHANGED vars
           \/ \E begin \in Begins, end \in Ends : CompactRange(begin, end)
  <2>1. UNCHANGED <<written, levels, work, broken>>
    BY <1>1 DEF GetSnapshot, ReleaseSnapshot, SwitchMemTable, ManualDone, CompactRange, vars
  <2>2. InTables' = InTables /\ LastSequence' = LastSequence
    BY <2>1 DEF InTables, Entries, LastSequence
  <2>3. (mem' = mem /\ imm' = imm) \/ (imm = {} /\ imm' = mem /\ mem' = {})
    BY <1>1 DEF GetSnapshot, ReleaseSnapshot, SwitchMemTable, ManualDone, CompactRange, vars
  <2>4. Stored' = Stored
    BY <2>2, <2>3 DEF Stored
  <2>5. Readers' \subseteq Readers
    <3>1. snapshots' \subseteq snapshots \cup {LastSequence}
      BY <1>1 DEF GetSnapshot, ReleaseSnapshot, SwitchMemTable, ManualDone, CompactRange, vars
    <3> QED
      BY <2>2, <3>1 DEF Readers
  <2>6. MemoryNewest'
    BY <2>2, <2>3 DEF Reading, MemoryNewest, Newer
  <2>7. ManualReach'
    <3>1. /\ {"begin", "from", "to"} \subseteq DOMAIN manual
          /\ {"active", "level", "top"} \subseteq DOMAIN manual
          /\ (work.busy => work.upper # {})
          /\ (broken = {} /\ manual.active => manual.begin \in Nat /\ manual.from \in Nat /\ manual.to \in Nat)
      BY DEF IInv, ManualSound, Reading, ManualReach
    <3>2. CASE manual' = manual
      BY <2>1, <3>1, <3>2 DEF ManualReach
    <3>3. CASE ManualDone
      <4>1. CASE AnotherLevel
        <5>1. manual' = [manual EXCEPT !.level = @ + 1, !.from = manual.begin] /\ manual.active
          BY <3>3, <4>1 DEF ManualDone
        <5>2. DOMAIN manual' = DOMAIN manual /\ manual'.begin = manual.begin /\ manual'.to = manual.to
              /\ manual'.from = manual.begin
          BY <3>1, <5>1
        <5> QED
          BY <2>1, <3>1, <5>1, <5>2 DEF ManualReach
      <4>2. CASE ~AnotherLevel
        <5>1. manual' = NoRange
          BY <3>3, <4>2 DEF ManualDone
        <5> QED
          BY <2>1, <3>1, <5>1 DEF ManualReach, NoRange
      <4> QED
        BY <4>1, <4>2
    <3>4. ASSUME NEW begin \in Begins, NEW end \in Ends, CompactRange(begin, end)
          PROVE  ManualReach'
      <4>1. PICK top : manual' = [active |-> TRUE, level |-> 0, begin |-> begin, from |-> begin,
                                  to |-> end, top |-> top]
        BY <3>4 DEF CompactRange
      <4>2. begin \in Nat /\ end \in Nat
        BY TreeAssumption
      <4> QED
        BY <2>1, <3>1, <4>1, <4>2 DEF ManualReach
    <3>5. manual' = manual \/ ManualDone \/ \E begin \in Begins, end \in Ends : CompactRange(begin, end)
      BY <1>1 DEF GetSnapshot, ReleaseSnapshot, SwitchMemTable, vars
    <3> QED
      BY <3>2, <3>3, <3>4, <3>5
  <2> QED
    BY <2>1, <2>4, <2>5, <2>6, <2>7, ReadingKept
<1>2. \/ GetSnapshot \/ ReleaseSnapshot \/ SwitchMemTable \/ ManualDone \/ UNCHANGED vars
      \/ \E begin \in Begins, end \in Ends : CompactRange(begin, end)
      \/ \E key \in Keys, deletion \in BOOLEAN : Write(key, deletion)
      \/ CompactMemTable \/ PickCompaction \/ TrivialMove \/ StartManual \/ InstallMerge
  BY DEF Next, Background
<1> QED
  BY <1>1, <1>2, WriteReads, FlushReads, PickReads, TrivialMoveReads, StartManualReads, InstallReads

LEMMA ReadsRight ==
  ASSUME IInv, Reading
  PROVE  GetIsNewest
<1> SUFFICES ASSUME broken = {}, NEW key \in Keys, NEW s \in Readers
             PROVE  Get(key, s) = LastWrite(key, s)
  BY DEF GetIsNewest, Readers
<1>1. TreeTyped /\ MemoryNewest /\ FlushedInOrder /\ NeverHop /\ Kept
  BY DEF IInv, Reading, ReadsSound
<1>2. AllApart
  BY DEF IInv, LevelsApart, AllApart
<1>3. s \in Nat /\ LastSequence \in Nat /\ Stored \subseteq 1..LastSequence
      /\ \A e \in 1..LastSequence : e \in Nat
  BY <1>1, ReadersTyped, StoredTyped, KeyTyped
<1> DEFINE m == Newest(Stored, key, s)
           n == Newest(1..LastSequence, key, s)
<1>4. Get(key, s) = Value(m)
  BY <1>1, <1>2, <1>3, GetFinds
<1>5. \/ m = 0 /\ \A e \in Stored : Key(e) = key => e > s
      \/ m # 0 /\ Key(m) = key /\ LastOf(Stored, m, s)
  BY <1>1, <1>3, NewestIs
<1>6. \/ n = 0 /\ \A e \in 1..LastSequence : Key(e) = key => e > s
      \/ n # 0 /\ Key(n) = key /\ LastOf(1..LastSequence, n, s)
  BY <1>1, <1>3, NewestIs
<1> HIDE DEF m, n
<1>7. Value(m) = Value(n)
  <2>1. CASE n = 0 /\ \A e \in 1..LastSequence : Key(e) = key => e > s
    <3>1. ASSUME Key(m) = key, LastOf(Stored, m, s)
          PROVE  FALSE
      <4>1. m \in Nat /\ m <= s /\ m > s
        BY <1>3, <2>1, <3>1 DEF LastOf
      <4> QED
        BY <1>3, <4>1
    <3> QED
      BY <1>5, <2>1, <3>1
  <2>2. CASE n # 0 /\ Key(n) = key /\ LastOf(1..LastSequence, n, s)
    <3>1. n \in 1..LastSequence /\ n <= s /\ n \in Nat
          /\ \A e \in 1..LastSequence : Key(e) = key /\ e <= s => e <= n
      BY <1>3, <2>2 DEF LastOf
    <3>2. CASE n \in Stored
      <4>1. ~(n > s)
        BY <1>3, <3>1
      <4>2. m # 0 /\ Key(m) = key /\ LastOf(Stored, m, s)
        BY <1>5, <2>2, <3>2, <4>1
      <4>3. m \in Stored /\ m <= s /\ n <= m
        BY <2>2, <3>1, <3>2, <4>2 DEF LastOf
      <4>4. m <= n /\ m \in Nat
        BY <1>3, <3>1, <4>2, <4>3
      <4> QED
        BY <3>1, <4>3, <4>4
    <3>3. CASE Gone(Stored, n, s)
      <4>1. Value(n) = 0
        BY <2>2, <3>3 DEF Gone, Value
      <4>2. ~(Key(m) = key /\ LastOf(Stored, m, s))
        <5> SUFFICES ASSUME Key(m) = key, LastOf(Stored, m, s) PROVE FALSE
          OBVIOUS
        <5>1. m \in Nat /\ m <= s /\ m > s
          BY <1>3, <2>2, <3>3 DEF Gone, LastOf
        <5> QED
          BY <1>3, <5>1
      <4>3. m = 0
        BY <1>5, <4>2
      <4> QED
        BY <4>1, <4>3 DEF Value
    <3> QED
      BY <1>1, <2>2, <3>1, <3>2, <3>3 DEF Kept
  <2> QED
    BY <1>6, <2>1, <2>2
<1> QED
  BY <1>4, <1>7 DEF LastWrite, n

-----------------------------------------------------------------------------
(* What an iterator shows.                                               *)

(* A view to walk over: rows in the order of their internal keys.          *)
Rows == [key : Nat \ {0}, sequence : Nat, deletion : BOOLEAN]
RowKey(view, i) == view.list[i].key
Size(view) == Len(view.list)
Ordered(view) ==
  /\ view.list \in Seq(Rows) /\ view.sequence \in Nat
  /\ \A i, j \in 1..Size(view) :
       i < j => \/ RowKey(view, i) < RowKey(view, j)
                \/ RowKey(view, i) = RowKey(view, j) /\ view.list[i].sequence > view.list[j].sequence

(* The rows that a cursor is to show: of every key the newest in view, if  *)
(* it is no deletion.                                                      *)
Live(view) ==
  {p \in 1..Size(view) :
     /\ InView(view, p) /\ ~view.list[p].deletion
     /\ \A j \in 1..Size(view) : j < p /\ RowKey(view, j) = RowKey(view, p) => ~InView(view, j)}

LEMMA ViewIs ==
  ASSUME NEW view, Ordered(view)
  PROVE  /\ Size(view) \in Nat /\ End(view) = Size(view) + 1 /\ DOMAIN view.list = 1..Size(view)
         /\ \A i \in 1..Size(view) : /\ RowKey(view, i) \in Nat /\ RowKey(view, i) > 0
                                     /\ view.list[i].key = RowKey(view, i)
                                     /\ view.list[i].deletion \in BOOLEAN
                                     /\ InView(view, i) \in BOOLEAN
         /\ \A i, j \in 1..Size(view) : i <= j => RowKey(view, i) <= RowKey(view, j)
         /\ \A i, j \in 1..Size(view) :
              i <= j /\ RowKey(view, i) = RowKey(view, j) /\ InView(view, i) => InView(view, j)
<1>1. Size(view) \in Nat /\ End(view) = Size(view) + 1 /\ DOMAIN view.list = 1..Size(view)
  BY DEF Ordered, Size, End
<1>2. ASSUME NEW i \in 1..Size(view)
      PROVE  /\ RowKey(view, i) \in Nat /\ RowKey(view, i) > 0
             /\ view.list[i].key = RowKey(view, i)
             /\ view.list[i].sequence \in Nat
             /\ view.list[i].deletion \in BOOLEAN
             /\ InView(view, i) \in BOOLEAN
  <2>1. view.list[i] \in Rows
    BY DEF Ordered, Size
  <2> QED
    BY <2>1 DEF Rows, RowKey, InView
<1>3. \A i, j \in 1..Size(view) : i <= j => RowKey(view, i) <= RowKey(view, j)
  <2> SUFFICES ASSUME NEW i \in 1..Size(view), NEW j \in 1..Size(view), i <= j
               PROVE  RowKey(view, i) <= RowKey(view, j)
    OBVIOUS
  <2>1. i = j \/ RowKey(view, i) < RowKey(view, j) \/ RowKey(view, i) = RowKey(view, j)
    BY <1>1 DEF Ordered
  <2> QED
    BY <1>2, <2>1
<1>4. ASSUME NEW i \in 1..Size(view), NEW j \in 1..Size(view),
             i <= j, RowKey(view, i) = RowKey(view, j), InView(view, i)
      PROVE  InView(view, j)
  <2>1. i = j \/ view.list[i].sequence > view.list[j].sequence
    BY <1>1, <1>2, <1>4 DEF Ordered
  <2> QED
    BY <1>2, <1>4, <2>1 DEF InView, Ordered
<1> QED
  BY <1>1, <1>2, <1>3, <1>4

-----------------------------------------------------------------------------
(* Forward.                                                                *)
Onward(view, f, i, skip) ==
  IF i \notin DOMAIN view.list THEN i
  ELSE IF ~InView(view, i) THEN f[i + 1][skip]
  ELSE IF view.list[i].deletion THEN f[i + 1][view.list[i].key]
  ELSE IF view.list[i].key <= skip THEN f[i + 1][skip]
  ELSE i

Walks(view, f, from, skipping) ==
  /\ \A i \in 1..End(view), skip \in Nat : f[i][skip] = Onward(view, f, i, skip)
  /\ FindNextUserEntry(view, from, skipping) =
       Cursor(f[from][skipping] # End(view), TRUE, f[from][skipping], 0)

LEMMA OnwardIs ==
  ASSUME NEW view, Ordered(view), NEW from, NEW skipping
  PROVE  \E f : Walks(view, f, from, skipping)
<1> DEFINE N == Size(view)
           E == End(view)
           V == [Nat -> 1..E]
           v == [skip \in Nat |-> E]
           One(x, i, skip) == IF ~InView(view, i) THEN x[skip]
                              ELSE IF view.list[i].deletion THEN x[view.list[i].key]
                              ELSE IF view.list[i].key <= skip THEN x[skip]
                              ELSE i
           G == [n \in 1..N |-> [x \in V |-> [skip \in Nat |-> One(x, E - n, skip)]]]
           Found(f) == f = [i \in Nat |-> [skip \in Nat |-> Onward(view, f, i, skip)]]
<1>1. N \in Nat /\ E = N + 1 /\ DOMAIN view.list = 1..N
  BY ViewIs
<1>2. ASSUME NEW i \in 1..N, NEW x \in V, NEW skip \in Nat
      PROVE  One(x, i, skip) \in 1..E
  <2>1. view.list[i].key \in Nat
    BY ViewIs
  <2>2. i \in 1..E
    BY <1>1
  <2> QED
    BY <2>1, <2>2
<1> HIDE DEF E, N
<1>3. \A n \in 1..N : \A x \in V : G[n][x] \in V
  <2> SUFFICES ASSUME NEW n \in 1..N, NEW x \in V PROVE G[n][x] \in V
    OBVIOUS
  <2>1. E - n \in 1..N
    <3>1. N \in Nat /\ E = N + 1 /\ n \in Nat /\ 1 <= n /\ n <= N
      BY <1>1
    <3> QED
      BY <3>1
  <2>2. \A skip \in Nat : One(x, E - n, skip) \in 1..E
    BY <1>2, <2>1
  <2> HIDE DEF One
  <2>3. G[n][x] = [skip \in Nat |-> One(x, E - n, skip)]
    OBVIOUS
  <2> QED
    BY <2>2, <2>3
<1>4. v \in V
  BY <1>1
<1>5. \E g : g \in Iterations(V, v, N, G)
  <2> HIDE DEF V, v, G
  <2> QED
    BY <1>1, <1>3, <1>4, IterationExists
<1>6. PICK g \in [0..N -> V] : g[0] = v /\ \A n \in 1..N : g[n] = G[n][g[n - 1]]
  BY <1>5 DEF Iterations
<1> DEFINE f == [i \in Nat |-> IF i \in 1..N THEN g[E - i] ELSE [skip \in Nat |-> i]]
<1>7. Found(f)
  <2>1. ASSUME NEW i \in Nat
        PROVE  f[i] = [skip \in Nat |-> Onward(view, f, i, skip)]
    <3>1. CASE i \notin 1..N
      <4>1. f[i] = [skip \in Nat |-> i]
        BY <3>1
      <4>2. \A skip \in Nat : Onward(view, f, i, skip) = i
        BY <1>1, <3>1 DEF Onward
      <4> HIDE DEF f
      <4> QED
        BY <4>1, <4>2
    <3>2. CASE i \in 1..N
      <4>1. E - i \in 1..N /\ (E - i) - 1 \in 0..N /\ E - (E - i) = i
            /\ i + 1 \in Nat /\ E - (i + 1) = (E - i) - 1
        BY <1>1, <3>2
      <4> DEFINE x == g[(E - i) - 1]
      <4>2. x \in V /\ f[i] = g[E - i]
        BY <1>6, <3>2, <4>1
      <4>3. f[i + 1] = x
        <5>1. CASE i + 1 \in 1..N
          BY <4>1, <5>1
        <5>2. CASE i + 1 \notin 1..N
          <6>1. i + 1 = E /\ (E - i) - 1 = 0
            <7>1. N \in Nat /\ E \in Nat /\ E = N + 1 /\ 1 <= i /\ i <= N
              BY <1>1, <3>2
            <7>2. ~(i + 1 <= N)
              BY <5>2, <7>1
            <7>3. i = N
              BY <7>1, <7>2
            <7> QED
              BY <7>1, <7>3
          <6>2. f[i + 1] = [skip \in Nat |-> E]
            BY <4>1, <5>2, <6>1
          <6>3. x = [skip \in Nat |-> E]
            BY <1>6, <6>1
          <6> QED
            BY <6>2, <6>3
        <5> QED
          BY <5>1, <5>2
      <4>4. f[i] = [skip \in Nat |-> One(x, i, skip)]
        <5>1. g[E - i] = G[E - i][x]
          BY <1>6, <4>1
        <5>2. G[E - i] = [y \in V |-> [skip \in Nat |-> One(y, E - (E - i), skip)]]
          BY <4>1
        <5> HIDE DEF G, f, x, One, V
        <5>3. G[E - i][x] = [skip \in Nat |-> One(x, E - (E - i), skip)]
          BY <4>2, <5>2
        <5> QED
          BY <4>1, <4>2, <5>1, <5>3
      <4>5. \A skip : One(x, i, skip) = Onward(view, f, i, skip)
        <5> HIDE DEF f, x
        <5> QED
          BY <1>1, <3>2, <4>3 DEF Onward
      <4> HIDE DEF f, x, One
      <4> QED
        BY <4>4, <4>5
    <3> QED
      BY <3>1, <3>2
  <2>2. f = [i \in Nat |-> f[i]]
    OBVIOUS
  <2> HIDE DEF f
  <2> QED
    BY <2>1, <2>2
<1> DEFINE found == CHOOSE h : Found(h)
<1>8. Found(found)
  <2> HIDE DEF Found, f
  <2> QED
    BY <1>7
<1>9. FindNextUserEntry(view, from, skipping) =
        Cursor(found[from][skipping] # End(view), TRUE, found[from][skipping], 0)
  BY DEF FindNextUserEntry, Onward, E
<1> HIDE DEF found
<1>10. \A i \in 1..E, skip \in Nat : found[i][skip] = Onward(view, found, i, skip)
  <2> SUFFICES ASSUME NEW i \in 1..E PROVE \A skip \in Nat : found[i][skip] = Onward(view, found, i, skip)
    OBVIOUS
  <2>1. i \in Nat
    BY <1>1
  <2>2. found[i] = [skip \in Nat |-> Onward(view, found, i, skip)]
    BY <1>8, <2>1
  <2> QED
    BY <2>2
<1> QED
  BY <1>9, <1>10 DEF E, Walks

(* From row i on, of keys above skip.                                      *)
After(view, i, skip) == {p \in Live(view) : p >= i /\ RowKey(view, p) > skip}
IsNext(view, i, skip, r) ==
  \/ r \in After(view, i, skip) /\ \A p \in After(view, i, skip) : r <= p
  \/ r = End(view) /\ After(view, i, skip) = {}

(* What the cursor has passed it does not come upon again, except under a  *)
(* key that it skips.                                                      *)
Ready(view, i, skip) ==
  /\ \A k \in 1..Size(view) : k >= i /\ InView(view, k) => skip <= RowKey(view, k)
  /\ \A j, k \in 1..Size(view) :
       j < i /\ k >= i /\ InView(view, j) /\ RowKey(view, j) = RowKey(view, k) => RowKey(view, k) <= skip

LEMMA OnwardFinds ==
  ASSUME NEW view, Ordered(view), NEW f,
         \A i \in 1..End(view), skip \in Nat : f[i][skip] = Onward(view, f, i, skip)
  PROVE  \A i \in 1..End(view), skip \in Nat : Ready(view, i, skip) => IsNext(view, i, skip, f[i][skip])
<1> DEFINE N == Size(view)
           E == End(view)
           K(i) == RowKey(view, i)
           In(i) == InView(view, i)
           Holds(i, skip) == Ready(view, i, skip) => IsNext(view, i, skip, f[i][skip])
           T == {n \in Nat : \A i \in 1..E, skip \in Nat : E - i = n => Holds(i, skip)}
<1>1. /\ N \in Nat /\ E = N + 1 /\ DOMAIN view.list = 1..N
      /\ \A i \in 1..N : /\ K(i) \in Nat /\ K(i) > 0 /\ view.list[i].key = K(i)
                         /\ view.list[i].deletion \in BOOLEAN /\ In(i) \in BOOLEAN
      /\ \A i, j \in 1..N : i <= j => K(i) <= K(j)
      /\ \A i, j \in 1..N : i <= j /\ K(i) = K(j) /\ In(i) => In(j)
  BY ViewIs
<1>2. \A p \in Live(view) : /\ p \in 1..N /\ In(p) /\ ~view.list[p].deletion
                            /\ \A j \in 1..N : j < p /\ K(j) = K(p) => ~In(j)
  BY DEF Live
<1>3. \A p \in 1..N : /\ In(p) /\ ~view.list[p].deletion
                      /\ \A j \in 1..N : j < p /\ K(j) = K(p) => ~In(j)
                      => p \in Live(view)
  BY DEF Live
<1>4. \A i, skip : Ready(view, i, skip) <=>
        /\ \A k \in 1..N : k >= i /\ In(k) => skip <= K(k)
        /\ \A j, k \in 1..N : j < i /\ k >= i /\ In(j) /\ K(j) = K(k) => K(k) <= skip
  BY DEF Ready
<1>5. \A i, skip, p : p \in After(view, i, skip) <=> p \in Live(view) /\ p >= i /\ K(p) > skip
  BY DEF After
<1>6. \A i \in 1..E, skip \in Nat : f[i][skip] = Onward(view, f, i, skip)
  OBVIOUS
<1> HIDE DEF N, E, K, In
<1>7. 0 \in T
  <2> SUFFICES ASSUME NEW i \in 1..E, NEW skip \in Nat, E - i = 0 PROVE IsNext(view, i, skip, f[i][skip])
    OBVIOUS
  <2>1. i = E
    BY <1>1
  <2>2. f[i][skip] = E
    BY <1>1, <1>6, <2>1 DEF Onward
  <2>3. After(view, i, skip) = {}
    BY <1>1, <1>2, <1>5, <2>1
  <2> QED
    BY <2>2, <2>3 DEF IsNext, E
<1>8. ASSUME NEW n \in Nat, n \in T PROVE n + 1 \in T
  <2> SUFFICES ASSUME NEW i \in 1..E, NEW skip \in Nat, E - i = n + 1, Ready(view, i, skip)
               PROVE  IsNext(view, i, skip, f[i][skip])
    OBVIOUS
  <2>1. i \in 1..N /\ i + 1 \in 1..E /\ E - (i + 1) = n /\ i # E /\ i \in Nat
    BY <1>1
  <2>2. \A s \in Nat : Ready(view, i + 1, s) => IsNext(view, i + 1, s, f[i + 1][s])
    BY <1>8, <2>1
  <2>3. /\ K(i) \in Nat /\ view.list[i].key = K(i) /\ view.list[i].deletion \in BOOLEAN
        /\ In(i) \in BOOLEAN
    BY <1>1, <2>1
  <2>4. f[i][skip] = IF ~In(i) THEN f[i + 1][skip]
                     ELSE IF view.list[i].deletion THEN f[i + 1][K(i)]
                     ELSE IF K(i) <= skip THEN f[i + 1][skip]
                     ELSE i
    <3>1. i \in 1..E /\ i \in DOMAIN view.list
      BY <1>1, <2>1
    <3>2. f[i][skip] = Onward(view, f, i, skip)
      BY <1>6, <3>1
    <3> QED
      BY <2>3, <3>1, <3>2 DEF Onward, In
  <2>5. /\ \A k \in 1..N : k >= i /\ In(k) => skip <= K(k)
        /\ \A j, k \in 1..N : j < i /\ k >= i /\ In(j) /\ K(j) = K(k) => K(k) <= skip
    BY <1>4
  <2>6. ASSUME NEW s \in Nat, f[i][skip] = f[i + 1][s], Ready(view, i + 1, s),
               \A p \in Live(view) : p >= i /\ K(p) > skip <=> p >= i + 1 /\ K(p) > s
        PROVE  IsNext(view, i, skip, f[i][skip])
    <3>1. After(view, i, skip) = After(view, i + 1, s)
      <4>1. \A p : p \in After(view, i, skip) <=> p \in After(view, i + 1, s)
        BY <1>5, <2>6
      <4> QED
        BY <4>1
    <3> QED
      BY <2>2, <2>6, <3>1 DEF IsNext
  <2>7. CASE ~In(i)
    <3>1. Ready(view, i + 1, skip)
      <4>1. ASSUME NEW k \in 1..N, k >= i + 1, In(k) PROVE skip <= K(k)
        BY <2>1, <2>5, <4>1
      <4>2. ASSUME NEW j \in 1..N, NEW k \in 1..N, j < i + 1, k >= i + 1, In(j), K(j) = K(k)
            PROVE  K(k) <= skip
        <5>1. j < i /\ k >= i
          BY <1>1, <2>1, <2>7, <4>2
        <5> QED
          BY <2>5, <4>2, <5>1
      <4> QED
        BY <1>4, <4>1, <4>2
    <3>2. \A p \in Live(view) : p >= i <=> p >= i + 1
      BY <1>1, <1>2, <2>1, <2>7
    <3> QED
      BY <2>4, <2>6, <2>7, <3>1, <3>2
  <2>8. CASE In(i) /\ view.list[i].deletion
    <3>0. skip <= K(i)
      BY <2>1, <2>5, <2>8
    <3>1. Ready(view, i + 1, K(i))
      <4>1. ASSUME NEW k \in 1..N, k >= i + 1, In(k) PROVE K(i) <= K(k)
        BY <1>1, <2>1, <4>1
      <4>2. ASSUME NEW j \in 1..N, NEW k \in 1..N, j < i + 1, k >= i + 1, In(j), K(j) = K(k)
            PROVE  K(k) <= K(i)
        BY <1>1, <2>1, <4>2
      <4> QED
        BY <1>4, <4>1, <4>2
    <3>2. ASSUME NEW p \in Live(view)
          PROVE  p >= i /\ K(p) > skip <=> p >= i + 1 /\ K(p) > K(i)
      <4>1. p \in 1..N /\ p # i /\ K(p) \in Nat
        BY <1>1, <1>2, <2>8
      <4>2. p > i => K(p) # K(i)
        BY <1>2, <2>1, <2>8
      <4>3. p > i => K(i) <= K(p)
        BY <1>1, <2>1, <4>1
      <4> QED
        BY <2>1, <2>3, <3>0, <4>1, <4>2, <4>3
    <3> QED
      BY <2>3, <2>4, <2>6, <2>8, <3>1, <3>2
  <2>9. CASE In(i) /\ ~view.list[i].deletion /\ K(i) <= skip
    <3>1. Ready(view, i + 1, skip)
      <4>1. ASSUME NEW k \in 1..N, k >= i + 1, In(k) PROVE skip <= K(k)
        BY <2>1, <2>5, <4>1
      <4>2. ASSUME NEW j \in 1..N, NEW k \in 1..N, j < i + 1, k >= i + 1, In(j), K(j) = K(k)
            PROVE  K(k) <= skip
        <5>1. j = i \/ (j < i /\ k >= i)
          BY <1>1, <2>1, <4>2
        <5> QED
          BY <2>5, <2>9, <4>2, <5>1
      <4> QED
        BY <1>4, <4>1, <4>2
    <3>2. \A p \in Live(view) : p >= i /\ K(p) > skip <=> p >= i + 1 /\ K(p) > skip
      <4> SUFFICES ASSUME NEW p \in Live(view), K(p) > skip PROVE p >= i <=> p >= i + 1
        OBVIOUS
      <4>1. p # i
        BY <2>3, <2>9
      <4> QED
        BY <1>1, <1>2, <2>1, <4>1
    <3> QED
      BY <2>4, <2>6, <2>9, <3>1, <3>2
  <2>10. CASE In(i) /\ ~view.list[i].deletion /\ ~(K(i) <= skip)
    <3>1. f[i][skip] = i
      BY <2>4, <2>10
    <3>2. ASSUME NEW j \in 1..N, j < i, K(j) = K(i) PROVE ~In(j)
      BY <2>1, <2>5, <2>10, <3>2
    <3>3. i \in Live(view)
      BY <1>3, <2>1, <2>10, <3>2
    <3>4. i \in After(view, i, skip)
      BY <1>5, <2>1, <2>3, <2>10, <3>3
    <3> QED
      BY <1>5, <3>1, <3>4 DEF IsNext
  <2> QED
    BY <2>3, <2>7, <2>8, <2>9, <2>10
<1>9. Nat \subseteq T
  <2> HIDE DEF T
  <2> QED
    BY <1>7, <1>8, SetInduction
<1> SUFFICES ASSUME NEW i \in 1..E, NEW skip \in Nat PROVE Holds(i, skip)
  BY DEF E
<1>10. E - i \in T
  <2>1. E - i \in Nat
    BY <1>1
  <2> HIDE DEF T
  <2> QED
    BY <1>9, <2>1
<1> QED
  BY <1>10

(* FindNextUserEntry finds the next row to show.                           *)
LEMMA FoundNext ==
  ASSUME NEW view, Ordered(view), NEW from \in 1..End(view), NEW skip \in Nat, Ready(view, from, skip)
  PROVE  \E r : /\ IsNext(view, from, skip, r)
                /\ FindNextUserEntry(view, from, skip) = Cursor(r # End(view), TRUE, r, 0)
<1>1. PICK f : Walks(view, f, from, skip)
  BY OnwardIs
<1>2. IsNext(view, from, skip, f[from][skip])
  BY <1>1, OnwardFinds DEF Walks
<1> QED
  BY <1>1, <1>2 DEF Walks

(* Backward.                                                               *)
Backward(view, f, i, saved) ==
  IF i \notin DOMAIN view.list THEN <<0, saved>>
  ELSE IF ~InView(view, i) THEN f[i - 1][saved]
  ELSE IF saved # 0 /\ view.list[i].key < view.list[saved].key THEN <<i, saved>>
  ELSE f[i - 1][IF view.list[i].deletion THEN 0 ELSE i]

Retreats(view, f, from) ==
  /\ \A i \in 0..Size(view), saved \in Nat : f[i][saved] = Backward(view, f, i, saved)
  /\ FindPrevUserEntry(view, from) =
       Cursor(f[from][0][2] # 0, f[from][0][2] = 0, f[from][0][1], f[from][0][2])

LEMMA BackwardIs ==
  ASSUME NEW view, Ordered(view), NEW from
  PROVE  \E f : Retreats(view, f, from)
<1> DEFINE N == Size(view)
           W == Nat \X Nat
           V == [Nat -> W]
           v == [saved \in Nat |-> <<0, saved>>]
           One(x, i, saved) == IF ~InView(view, i) THEN x[saved]
                               ELSE IF saved # 0 /\ view.list[i].key < view.list[saved].key
                                    THEN <<i, saved>>
                               ELSE x[IF view.list[i].deletion THEN 0 ELSE i]
           G == [n \in 1..N |-> [x \in V |-> [saved \in Nat |-> One(x, n, saved)]]]
           Found(f) == f = [i \in Nat |-> [saved \in Nat |-> Backward(view, f, i, saved)]]
<1>1. N \in Nat /\ DOMAIN view.list = 1..N
  BY ViewIs
<1>2. ASSUME NEW i \in 1..N, NEW x \in V, NEW saved \in Nat
      PROVE  One(x, i, saved) \in W
  <2>1. i \in Nat /\ 0 \in Nat
    BY <1>1
  <2>2. <<i, saved>> \in W
    BY <2>1
  <2>3. x[saved] \in W /\ x[0] \in W /\ x[i] \in W
    BY <2>1
  <2> HIDE DEF V, W
  <2> QED
    BY <2>2, <2>3
<1> HIDE DEF N
<1>3. \A n \in 1..N : \A x \in V : G[n][x] \in V
  <2> SUFFICES ASSUME NEW n \in 1..N, NEW x \in V PROVE G[n][x] \in V
    OBVIOUS
  <2>1. \A saved \in Nat : One(x, n, saved) \in W
    BY <1>2
  <2> HIDE DEF One
  <2>2. G[n][x] = [saved \in Nat |-> One(x, n, saved)]
    OBVIOUS
  <2> QED
    BY <2>1, <2>2
<1>4. v \in V
  <2>1. \A saved \in Nat : <<0, saved>> \in W
    OBVIOUS
  <2> QED
    BY <2>1
<1>5. \E g : g \in Iterations(V, v, N, G)
  <2> HIDE DEF V, v, G
  <2> QED
    BY <1>1, <1>3, <1>4, IterationExists
<1>6. PICK g \in [0..N -> V] : g[0] = v /\ \A n \in 1..N : g[n] = G[n][g[n - 1]]
  BY <1>5 DEF Iterations
<1> DEFINE f == [i \in Nat |-> IF i \in 1..N THEN g[i] ELSE v]
<1>7. Found(f)
  <2>1. ASSUME NEW i \in Nat
        PROVE  f[i] = [saved \in Nat |-> Backward(view, f, i, saved)]
    <3>1. CASE i \notin 1..N
      <4>1. \A saved \in Nat : Backward(view, f, i, saved) = <<0, saved>>
        BY <1>1, <3>1 DEF Backward
      <4>2. f[i] = v
        BY <3>1
      <4> HIDE DEF f
      <4> QED
        BY <4>1, <4>2
    <3>2. CASE i \in 1..N
      <4>1. i - 1 \in 0..N /\ i - 1 \in Nat /\ (i - 1 \notin 1..N => i - 1 = 0)
        BY <1>1, <3>2
      <4> DEFINE x == g[i - 1]
      <4>2. x \in V /\ f[i - 1] = x /\ f[i] = g[i]
        <5>1. x \in V /\ f[i] = g[i]
          BY <1>6, <3>2, <4>1
        <5>2. CASE i - 1 \in 1..N
          BY <4>1, <5>1, <5>2
        <5>3. CASE i - 1 \notin 1..N
          <6>1. f[i - 1] = v /\ x = v
            BY <1>6, <4>1, <5>3
          <6> QED
            BY <5>1, <6>1
        <5> QED
          BY <5>2, <5>3
      <4>3. g[i] = [saved \in Nat |-> One(x, i, saved)]
        <5>1. g[i] = G[i][x]
          BY <1>6, <3>2
        <5>2. G[i] = [y \in V |-> [saved \in Nat |-> One(y, i, saved)]]
          BY <3>2
        <5> HIDE DEF G, f, x, One, V
        <5> QED
          BY <4>2, <5>1, <5>2
      <4>4. \A saved : One(x, i, saved) = Backward(view, f, i, saved)
        <5> HIDE DEF f, x
        <5> QED
          BY <1>1, <3>2, <4>2 DEF Backward
      <4> HIDE DEF f, x, One
      <4> QED
        BY <4>2, <4>3, <4>4
    <3> QED
      BY <3>1, <3>2
  <2>2. f = [i \in Nat |-> f[i]]
    OBVIOUS
  <2> HIDE DEF f
  <2> QED
    BY <2>1, <2>2
<1> DEFINE found == CHOOSE h : Found(h)
<1>8. Found(found)
  <2> HIDE DEF Found, f
  <2> QED
    BY <1>7
<1>9. FindPrevUserEntry(view, from) =
        Cursor(found[from][0][2] # 0, found[from][0][2] = 0, found[from][0][1], found[from][0][2])
  BY DEF FindPrevUserEntry, Backward
<1> HIDE DEF found
<1>10. \A i \in 0..N, saved \in Nat : found[i][saved] = Backward(view, found, i, saved)
  <2> SUFFICES ASSUME NEW i \in 0..N PROVE \A saved \in Nat : found[i][saved] = Backward(view, found, i, saved)
    OBVIOUS
  <2>1. i \in Nat
    BY <1>1
  <2>2. found[i] = [saved \in Nat |-> Backward(view, found, i, saved)]
    BY <1>8, <2>1
  <2> QED
    BY <2>2
<1> QED
  BY <1>9, <1>10 DEF N, Retreats

(* Up to row i, and the row that has been saved.                           *)
UpTo(view, i, saved) == {p \in Live(view) : p <= i \/ p = saved}

(* Where a cursor stands that goes back: before all rows of its key that   *)
(* are in view.                                                            *)
StandsBefore(view, a, s) ==
  /\ a \in 0..Size(view) /\ a < s
  /\ \A j \in 1..Size(view) : a < j /\ j < s => ~InView(view, j)
  /\ a > 0 => RowKey(view, a) < RowKey(view, s)

IsLast(view, i, saved, a, s) ==
  \/ s = 0 /\ UpTo(view, i, saved) = {}
  \/ /\ s \in UpTo(view, i, saved) /\ \A p \in UpTo(view, i, saved) : p <= s
     /\ StandsBefore(view, a, s)

(* A row is saved while nothing before it has been seen in view.           *)
Saved(view, i, saved) ==
  saved # 0 => /\ i < saved /\ InView(view, saved) /\ ~view.list[saved].deletion
               /\ \A j \in 1..Size(view) : i < j /\ j < saved => ~InView(view, j)

LEMMA BackwardFinds ==
  ASSUME NEW view, Ordered(view), NEW f,
         \A i \in 0..Size(view), saved \in Nat : f[i][saved] = Backward(view, f, i, saved)
  PROVE  \A i \in 0..Size(view), saved \in 0..Size(view) :
           Saved(view, i, saved) => IsLast(view, i, saved, f[i][saved][1], f[i][saved][2])
<1> DEFINE N == Size(view)
           K(i) == RowKey(view, i)
           In(i) == InView(view, i)
           Holds(i, saved) == Saved(view, i, saved) => IsLast(view, i, saved, f[i][saved][1], f[i][saved][2])
           T == {n \in Nat : n <= N => \A saved \in 0..N : Holds(n, saved)}
<1>1. /\ N \in Nat
      /\ \A i \in 1..N : /\ K(i) \in Nat /\ K(i) > 0 /\ view.list[i].key = K(i)
                         /\ view.list[i].deletion \in BOOLEAN /\ In(i) \in BOOLEAN
      /\ \A i, j \in 1..N : i <= j => K(i) <= K(j)
      /\ \A i, j \in 1..N : i <= j /\ K(i) = K(j) /\ In(i) => In(j)
  BY ViewIs
<1>2. \A p \in Live(view) : /\ p \in 1..N /\ In(p) /\ ~view.list[p].deletion
                            /\ \A j \in 1..N : j < p /\ K(j) = K(p) => ~In(j)
  BY DEF Live
<1>3. \A p \in 1..N : /\ In(p) /\ ~view.list[p].deletion
                      /\ \A j \in 1..N : j < p /\ K(j) = K(p) => ~In(j)
                      => p \in Live(view)
  BY DEF Live
<1>4. \A i, s : Saved(view, i, s) <=>
        (s # 0 => /\ i < s /\ In(s) /\ ~view.list[s].deletion
                  /\ \A j \in 1..N : i < j /\ j < s => ~In(j))
  BY DEF Saved
<1>5. \A i, s, p : p \in UpTo(view, i, s) <=> p \in Live(view) /\ (p <= i \/ p = s)
  BY DEF UpTo
<1>6. \A a, s : StandsBefore(view, a, s) <=>
        /\ a \in 0..N /\ a < s /\ \A j \in 1..N : a < j /\ j < s => ~In(j)
        /\ a > 0 => K(a) < K(s)
  BY DEF StandsBefore
<1>7. \A i, s, a, r : IsLast(view, i, s, a, r) <=>
        \/ r = 0 /\ UpTo(view, i, s) = {}
        \/ r \in UpTo(view, i, s) /\ (\A p \in UpTo(view, i, s) : p <= r) /\ StandsBefore(view, a, r)
  BY DEF IsLast
<1>8. DOMAIN view.list = 1..N /\ \A i \in 0..N, saved \in Nat : f[i][saved] = Backward(view, f, i, saved)
  BY ViewIs
<1>9. ASSUME NEW saved \in 0..N PROVE f[0][saved] = <<0, saved>>
  <2>1. 0 \in 0..N
    BY <1>1
  <2>2. f[0][saved] = Backward(view, f, 0, saved)
    BY <1>1, <1>8, <2>1
  <2> QED
    BY <1>8, <2>2 DEF Backward
<1>10. ASSUME NEW i \in 1..N, NEW saved \in 0..N
       PROVE  /\ ~In(i) => f[i][saved] = f[i - 1][saved]
              /\ In(i) /\ saved # 0 /\ K(i) < K(saved) => f[i][saved] = <<i, saved>>
              /\ In(i) /\ ~(saved # 0 /\ K(i) < K(saved)) =>
                   f[i][saved] = f[i - 1][IF view.list[i].deletion THEN 0 ELSE i]
  <2>1. i \in 0..N /\ i \in DOMAIN view.list /\ saved \in Nat
    BY <1>1, <1>8
  <2>2. f[i][saved] = Backward(view, f, i, saved)
    BY <1>8, <2>1
  <2>3. view.list[i].key = K(i) /\ view.list[saved].key = K(saved)
    BY DEF RowKey
  <2> QED
    BY <2>1, <2>2, <2>3 DEF Backward
<1> HIDE DEF N, K, In
(* The walk stops at row i with the row that was saved, which is live.     *)
<1>11. ASSUME NEW i \in 0..N, NEW s \in 1..N, Saved(view, i, s), i > 0 => K(i) < K(s)
      PROVE  IsLast(view, i, s, i, s)
  <2>1. i < s /\ In(s) /\ ~view.list[s].deletion /\ \A j \in 1..N : i < j /\ j < s => ~In(j)
    BY <1>1, <1>4, <1>11
  <2>2. ASSUME NEW j \in 1..N, j < s, K(j) = K(s) PROVE ~In(j)
    <3>1. CASE i < j
      BY <2>1, <2>2, <3>1
    <3>2. CASE j <= i
      <4>1. i \in 1..N /\ K(j) <= K(i) /\ K(i) < K(s)
        BY <1>1, <1>11, <3>2
      <4> QED
        BY <1>1, <2>2, <4>1
    <3> QED
      BY <1>1, <3>1, <3>2
  <2>3. s \in Live(view)
    BY <1>3, <2>1, <2>2
  <2>4. \A p \in UpTo(view, i, s) : p <= s
    BY <1>1, <1>2, <1>5, <2>1
  <2>5. StandsBefore(view, i, s)
    BY <1>6, <1>11, <2>1
  <2> QED
    BY <1>5, <1>7, <2>3, <2>4, <2>5
<1>12. 0 \in T
  <2> SUFFICES ASSUME NEW s \in 0..N, Saved(view, 0, s) PROVE IsLast(view, 0, s, f[0][s][1], f[0][s][2])
    OBVIOUS
  <2>1. f[0][s] = <<0, s>>
    BY <1>9
  <2>2. IsLast(view, 0, s, 0, s)
    <3>1. CASE s = 0
      <4>1. UpTo(view, 0, s) = {}
        BY <1>1, <1>2, <1>5, <3>1
      <4> QED
        BY <1>7, <3>1, <4>1
    <3>2. CASE s # 0
      BY <1>1, <1>11, <3>2
    <3> QED
      BY <3>1, <3>2
  <2> QED
    BY <2>1, <2>2
<1>13. ASSUME NEW n \in Nat, n \in T PROVE n + 1 \in T
  <2> DEFINE i == n + 1
  <2> SUFFICES ASSUME i <= N, NEW s \in 0..N, Saved(view, i, s) PROVE IsLast(view, i, s, f[i][s][1], f[i][s][2])
    OBVIOUS
  <2>1. i \in 1..N /\ i \in 0..N /\ i - 1 = n /\ n \in 0..N /\ i # 0 /\ i \in Nat
    BY <1>1
  <2>2. \A r \in 0..N : Saved(view, n, r) => IsLast(view, n, r, f[n][r][1], f[n][r][2])
    BY <1>13, <2>1
  <2> HIDE DEF i
  <2>3. s # 0 => i < s /\ In(s) /\ ~view.list[s].deletion /\ \A j \in 1..N : i < j /\ j < s => ~In(j)
    BY <1>4
  <2>4. ASSUME NEW r \in 0..N, f[i][s] = f[n][r], Saved(view, n, r),
               \A p \in Live(view) : (p <= i \/ p = s) <=> (p <= n \/ p = r)
        PROVE  IsLast(view, i, s, f[i][s][1], f[i][s][2])
    <3>1. UpTo(view, i, s) = UpTo(view, n, r)
      <4>1. \A p : p \in UpTo(view, i, s) <=> p \in UpTo(view, n, r)
        BY <1>5, <2>4
      <4> QED
        BY <4>1
    <3>2. IsLast(view, n, r, f[i][s][1], f[i][s][2])
      BY <2>2, <2>4
    <3> QED
      BY <3>1, <3>2 DEF IsLast
  <2>5. CASE ~In(i)
    <3>1. f[i][s] = f[n][s]
      BY <1>10, <2>1, <2>5
    <3>2. Saved(view, n, s)
      <4> SUFFICES ASSUME s # 0
                   PROVE  /\ n < s /\ In(s) /\ ~view.list[s].deletion
                          /\ \A j \in 1..N : n < j /\ j < s => ~In(j)
        BY <1>4
      <4>1. ASSUME NEW j \in 1..N, n < j, j < s PROVE ~In(j)
        <5>1. j = i \/ i < j
          BY <1>1, <2>1, <4>1
        <5> QED
          BY <2>3, <2>5, <4>1, <5>1
      <4>2. n < s
        BY <1>1, <2>1, <2>3
      <4> QED
        BY <2>3, <4>1, <4>2
    <3>3. \A p \in Live(view) : p <= i <=> p <= n
      BY <1>1, <1>2, <2>1, <2>5
    <3> QED
      BY <2>4, <3>1, <3>2, <3>3
  <2>6. CASE In(i) /\ s # 0 /\ K(i) < K(s)
    <3>1. s \in 1..N
      BY <1>1, <2>6
    <3>2. f[i][s] = <<i, s>>
      BY <1>10, <2>1, <2>6
    <3> QED
      BY <1>11, <2>1, <2>6, <3>1, <3>2
  <2>7. CASE In(i) /\ ~(s # 0 /\ K(i) < K(s))
    <3> DEFINE r == IF view.list[i].deletion THEN 0 ELSE i
    <3>1. f[i][s] = f[n][r]
      BY <1>10, <2>1, <2>7
    <3>2. r \in 0..N /\ Saved(view, n, r)
      <4>1. r \in 0..N
        <5>1. r = 0 \/ r = i
          OBVIOUS
        <5> QED
          BY <1>1, <2>1, <5>1
      <4>2. ASSUME r # 0
            PROVE  n < r /\ In(r) /\ ~view.list[r].deletion /\ \A j \in 1..N : n < j /\ j < r => ~In(j)
        <5>1. r = i /\ ~view.list[i].deletion
          BY <4>2
        <5> QED
          BY <1>1, <2>1, <2>7, <5>1
      <4> QED
        BY <1>4, <4>1, <4>2
    <3>3. s \notin Live(view)
      <4> SUFFICES ASSUME s \in Live(view) PROVE FALSE
        OBVIOUS
      <4>1. s \in 1..N /\ i < s
        BY <1>1, <1>2, <2>3
      <4>2. K(i) = K(s)
        BY <1>1, <2>1, <2>7, <4>1
      <4> QED
        BY <1>2, <2>1, <2>7, <4>1, <4>2
    <3>4. i \in Live(view) => r = i
      BY <1>2
    <3>5. 0 \notin Live(view)
      BY <1>1, <1>2
    <3>6. ASSUME NEW p \in Live(view) PROVE (p <= i \/ p = s) <=> (p <= n \/ p = r)
      <4>1. p # s /\ p \in Nat /\ p # 0
        BY <1>1, <1>2, <3>3, <3>5
      <4>2. p <= i <=> p <= n \/ p = i
        BY <2>1, <4>1
      <4>3. p = r <=> p = i
        BY <3>4, <4>1
      <4> QED
        BY <4>1, <4>2, <4>3
    <3> HIDE DEF r
    <3> QED
      BY <2>4, <3>1, <3>2, <3>6
  <2> QED
    BY <1>1, <2>1, <2>5, <2>6, <2>7
<1>14. Nat \subseteq T
  <2> HIDE DEF T
  <2> QED
    BY <1>12, <1>13, SetInduction
<1> SUFFICES ASSUME NEW i \in 0..N, NEW saved \in 0..N PROVE Holds(i, saved)
  BY DEF N
<1>15. i \in Nat /\ i <= N
  BY <1>1
<1>16. i \in T
  BY <1>14, <1>15
<1> QED
  BY <1>15, <1>16

(* FindPrevUserEntry finds the last row to show up to one.                 *)
LEMMA FoundPrev ==
  ASSUME NEW view, Ordered(view), NEW from \in 0..Size(view)
  PROVE  \E a, s : /\ IsLast(view, from, 0, a, s)
                   /\ FindPrevUserEntry(view, from) = Cursor(s # 0, s = 0, a, s)
<1>1. PICK f : Retreats(view, f, from)
  BY BackwardIs
<1>2. 0 \in 0..Size(view) /\ Saved(view, from, 0)
  BY ViewIs DEF Saved
<1>3. IsLast(view, from, 0, f[from][0][1], f[from][0][2])
  BY <1>1, <1>2, BackwardFinds DEF Retreats
<1> QED
  BY <1>1, <1>3 DEF Retreats

-----------------------------------------------------------------------------
(* Where the cursor stands.                                               *)

LEMMA CursorIs ==
  ASSUME NEW v \in BOOLEAN, NEW f \in BOOLEAN, NEW a, NEW s
  PROVE  LET c == Cursor(v, f, a, s) IN
         (c.valid <=> v) /\ (c.forward <=> f) /\ c.at = a /\ c.saved = s
BY DEF Cursor

(* A cursor that shows row p.                                              *)
Facing(view, c, p) ==
  /\ c.valid /\ p \in Live(view)
  /\ c.forward => c.at = p
  /\ ~c.forward => c.saved = p /\ StandsBefore(view, c.at, p)

(* A cursor at the first, and one at the last, of some rows to show.       *)
Ahead(view, c, T) ==
  \/ T = {} /\ ~c.valid
  \/ \E p \in T : (\A q \in T : p <= q) /\ Facing(view, c, p)
Behind(view, c, T) ==
  \/ T = {} /\ ~c.valid
  \/ \E p \in T : (\A q \in T : q <= p) /\ Facing(view, c, p)

LEMMA LiveIs ==
  ASSUME NEW view, Ordered(view)
  PROVE  /\ Live(view) \subseteq 1..Size(view)
         /\ \A p \in Live(view) : p \in 1..Size(view) /\ p \in Nat /\ p > 0 /\ p # End(view)
                                  /\ InView(view, p) /\ RowKey(view, p) \in Nat /\ RowKey(view, p) > 0
         /\ \A p, q \in Live(view) : p < q <=> RowKey(view, p) < RowKey(view, q)
<1>1. \A p \in Live(view) : p \in 1..Size(view) /\ InView(view, p)
  BY DEF Live
<1>2. ASSUME NEW p \in Live(view)
      PROVE  p \in Nat /\ p > 0 /\ p # End(view) /\ RowKey(view, p) \in Nat /\ RowKey(view, p) > 0
  BY <1>1, ViewIs
<1>3. ASSUME NEW p \in Live(view), NEW q \in Live(view), p < q
      PROVE  RowKey(view, p) < RowKey(view, q)
  <2>1. RowKey(view, p) <= RowKey(view, q)
    BY <1>1, <1>2, <1>3, ViewIs
  <2>2. RowKey(view, p) # RowKey(view, q)
    BY <1>1, <1>3 DEF Live
  <2> QED
    BY <1>2, <2>1, <2>2
<1>4. ASSUME NEW p \in Live(view), NEW q \in Live(view), RowKey(view, p) < RowKey(view, q)
      PROVE  p < q
  BY <1>2, <1>3, <1>4
<1> QED
  BY <1>1, <1>2, <1>3, <1>4

(* FindNextUserEntry and FindPrevUserEntry leave a cursor that shows what  *)
(* they found.                                                             *)
LEMMA NextAhead ==
  ASSUME NEW view, Ordered(view), NEW from \in 1..End(view), NEW skip \in Nat, Ready(view, from, skip)
  PROVE  Ahead(view, FindNextUserEntry(view, from, skip), After(view, from, skip))
<1>1. PICK r : /\ IsNext(view, from, skip, r)
               /\ FindNextUserEntry(view, from, skip) = Cursor(r # End(view), TRUE, r, 0)
  BY FoundNext
<1> DEFINE c == Cursor(r # End(view), TRUE, r, 0)
<1>2. (c.valid <=> r # End(view)) /\ c.forward /\ c.at = r
  <2> DEFINE v == (r # End(view))
             f == TRUE
  <2>1. v \in BOOLEAN /\ f \in BOOLEAN
    OBVIOUS
  <2>2. c = Cursor(v, f, r, 0)
    OBVIOUS
  <2> HIDE DEF c, v, f
  <2>3. (c.valid <=> v) /\ (c.forward <=> f) /\ c.at = r
    BY <2>1, <2>2, CursorIs
  <2> QED
    BY <2>3 DEF v, f
<1> HIDE DEF c
<1>3. CASE r \in After(view, from, skip) /\ \A p \in After(view, from, skip) : r <= p
  <2>1. r \in Live(view)
    BY <1>3 DEF After
  <2>2. r # End(view)
    BY <2>1, LiveIs
  <2>3. Facing(view, c, r)
    BY <1>2, <2>1, <2>2 DEF Facing
  <2> QED
    BY <1>1, <1>3, <2>3 DEF Ahead, c
<1>4. CASE r = End(view) /\ After(view, from, skip) = {}
  BY <1>1, <1>2, <1>4 DEF Ahead, c
<1> QED
  BY <1>1, <1>3, <1>4 DEF IsNext

LEMMA PrevBehind ==
  ASSUME NEW view, Ordered(view), NEW from \in 0..Size(view)
  PROVE  Behind(view, FindPrevUserEntry(view, from), UpTo(view, from, 0))
<1>1. PICK a, s : /\ IsLast(view, from, 0, a, s)
                  /\ FindPrevUserEntry(view, from) = Cursor(s # 0, s = 0, a, s)
  BY FoundPrev
<1> DEFINE c == Cursor(s # 0, s = 0, a, s)
<1>2. (c.valid <=> s # 0) /\ (c.forward <=> s = 0) /\ c.at = a /\ c.saved = s
  <2> DEFINE v == (s # 0)
             f == (s = 0)
  <2>1. v \in BOOLEAN /\ f \in BOOLEAN
    OBVIOUS
  <2>2. c = Cursor(v, f, a, s)
    OBVIOUS
  <2> HIDE DEF c, v, f
  <2>3. (c.valid <=> v) /\ (c.forward <=> f) /\ c.at = a /\ c.saved = s
    BY <2>1, <2>2, CursorIs
  <2> QED
    BY <2>3 DEF v, f
<1> HIDE DEF c
<1>3. CASE s \in UpTo(view, from, 0) /\ (\A p \in UpTo(view, from, 0) : p <= s) /\ StandsBefore(view, a, s)
  <2>1. s \in Live(view)
    BY <1>3 DEF UpTo
  <2>2. s # 0
    BY <2>1, LiveIs
  <2>3. Facing(view, c, s)
    BY <1>2, <1>3, <2>1, <2>2 DEF Facing
  <2> QED
    BY <1>1, <1>3, <2>3 DEF Behind, c
<1>4. CASE s = 0 /\ UpTo(view, from, 0) = {}
  BY <1>1, <1>2, <1>4 DEF Behind, c
<1> QED
  BY <1>1, <1>3, <1>4 DEF IsLast

LEMMA FirstIs ==
  ASSUME NEW view, Ordered(view)
  PROVE  Ahead(view, SeekToFirst(view), Live(view))
<1>1. 1 \in 1..End(view) /\ 0 \in Nat
  BY ViewIs
<1>2. Ready(view, 1, 0)
  <2>1. ASSUME NEW k \in 1..Size(view) PROVE 0 <= RowKey(view, k) /\ ~(k < 1)
    BY ViewIs
  <2> QED
    BY <2>1 DEF Ready
<1>3. After(view, 1, 0) = Live(view)
  BY LiveIs DEF After
<1> QED
  BY <1>1, <1>2, <1>3, NextAhead DEF SeekToFirst

LEMMA LastIs ==
  ASSUME NEW view, Ordered(view)
  PROVE  Behind(view, SeekToLast(view), Live(view))
<1>1. Len(view.list) = Size(view) /\ Size(view) \in 0..Size(view)
  BY ViewIs DEF Size
<1>2. UpTo(view, Size(view), 0) = Live(view)
  BY <1>1, LiveIs DEF UpTo
<1> QED
  BY <1>1, <1>2, PrevBehind DEF SeekToLast

LEMMA SeekIs ==
  ASSUME NEW view, Ordered(view), NEW target \in Nat
  PROVE  Ahead(view, Seek(view, target), {p \in Live(view) : RowKey(view, p) >= target})
<1> DEFINE T == {p \in Live(view) : RowKey(view, p) >= target}
           S == {i \in DOMAIN view.list :
                   \/ view.list[i].key > target
                   \/ view.list[i].key = target /\ view.list[i].sequence <= view.sequence}
           first == CHOOSE i \in S : \A j \in S : i <= j
           none == Cursor(FALSE, TRUE, End(view), 0)
<1>1. Seek(view, target) = IF S = {} THEN none ELSE FindNextUserEntry(view, first, 0)
  BY DEF Seek
<1>2. DOMAIN view.list = 1..Size(view)
  BY DEF Ordered, Size
<1>3. \A i : i \in S <=> /\ i \in 1..Size(view)
                         /\ RowKey(view, i) > target \/ (RowKey(view, i) = target /\ InView(view, i))
  BY <1>2 DEF RowKey, InView
<1> HIDE DEF S
<1>4. T \subseteq S
  BY <1>3, LiveIs
<1>5. CASE S = {}
  <2>1. ~none.valid
    BY CursorIs
  <2> QED
    BY <1>1, <1>4, <1>5, <2>1 DEF Ahead
<1>6. CASE S # {}
  <2>1. S \subseteq Nat
    BY <1>3, ViewIs
  <2>2. first \in S /\ \A j \in S : first <= j
    BY <1>6, <2>1, LeastOf
  <2> HIDE DEF first
  <2>3. first \in 1..Size(view) /\ first \in 1..End(view) /\ first \in Nat /\ RowKey(view, first) >= target
        /\ RowKey(view, first) \in Nat
    BY <1>3, <2>2, ViewIs
  <2>4. Ready(view, first, 0)
    <3>1. ASSUME NEW k \in 1..Size(view) PROVE 0 <= RowKey(view, k)
      BY ViewIs
    <3>2. ASSUME NEW j \in 1..Size(view), NEW k \in 1..Size(view),
                 j < first, k >= first, InView(view, j), RowKey(view, j) = RowKey(view, k)
          PROVE  FALSE
      <4>1. j \notin S /\ j \in Nat
        BY <2>1, <2>2, <2>3, <3>2
      <4>2. RowKey(view, j) < target
        BY <1>3, <3>2, <4>1, ViewIs
      <4>3. RowKey(view, first) <= RowKey(view, k)
        BY <2>3, <3>2, ViewIs
      <4> QED
        BY <2>3, <3>2, <4>2, <4>3, ViewIs
    <3> QED
      BY <3>1, <3>2 DEF Ready
  <2>5. After(view, first, 0) = T
    <3>1. ASSUME NEW p \in Live(view)
          PROVE  p >= first /\ RowKey(view, p) > 0 <=> RowKey(view, p) >= target
      <4>1. ASSUME RowKey(view, p) >= target PROVE p >= first
        BY <1>4, <2>2, <4>1
      <4>2. ASSUME p >= first PROVE RowKey(view, p) >= target
        <5>1. RowKey(view, first) <= RowKey(view, p)
          BY <2>3, <4>2, LiveIs, ViewIs
        <5> QED
          BY <2>3, <5>1, LiveIs
      <4> QED
        BY <4>1, <4>2, LiveIs
    <3> QED
      BY <3>1 DEF After
  <2> QED
    BY <1>1, <1>6, <2>3, <2>4, <2>5, NextAhead
<1> QED
  BY <1>5, <1>6

LEMMA MoveNextIs ==
  ASSUME NEW view, Ordered(view), NEW c, NEW p, Facing(view, c, p)
  PROVE  Ahead(view, MoveNext(view, c), {q \in Live(view) : q > p})
<1> DEFINE K(i) == RowKey(view, i)
           N == Size(view)
           T == {q \in Live(view) : q > p}
<1>1. p \in Live(view) /\ p \in 1..N /\ p \in Nat /\ K(p) \in Nat /\ N \in Nat /\ End(view) = N + 1
      /\ view.list[p].key = K(p) /\ InView(view, p)
  BY LiveIs, ViewIs DEF Facing
<1>2. \A i, j \in 1..N : i <= j => K(i) <= K(j)
  BY ViewIs
<1>3. \A i \in 1..N : K(i) \in Nat
  BY ViewIs
<1>4. \A q \in Live(view) : q \in 1..N /\ (q > p <=> K(q) > K(p))
  <2> SUFFICES ASSUME NEW q \in Live(view) PROVE q \in 1..N /\ (q > p <=> K(q) > K(p))
    OBVIOUS
  <2>1. q \in 1..N /\ q \in Nat /\ (p < q <=> K(p) < K(q)) /\ K(q) \in Nat
    BY <1>1, LiveIs
  <2> QED
    BY <1>1, <2>1
<1> HIDE DEF K, N
<1>5. \A i : Ready(view, i, K(p)) <=>
        /\ \A k \in 1..N : k >= i /\ InView(view, k) => K(p) <= K(k)
        /\ \A j, k \in 1..N : j < i /\ k >= i /\ InView(view, j) /\ K(j) = K(k) => K(k) <= K(p)
  BY DEF Ready, K, N
<1>6. \A i : After(view, i, K(p)) = {q \in Live(view) : q >= i /\ K(q) > K(p)}
  BY DEF After, K
<1>7. CASE c.forward
  <2>1. MoveNext(view, c) = FindNextUserEntry(view, p, K(p))
    BY <1>1, <1>7 DEF MoveNext, Facing
  <2>2. Ready(view, p, K(p))
    <3>1. ASSUME NEW j \in 1..N, NEW k \in 1..N, j < p, K(j) = K(k) PROVE K(k) <= K(p)
      BY <1>1, <1>2, <3>1
    <3> QED
      BY <1>1, <1>2, <1>5, <3>1
  <2>3. After(view, p, K(p)) = T
    <3>1. \A q \in Live(view) : q >= p /\ K(q) > K(p) <=> q > p
      BY <1>1, <1>4
    <3> QED
      BY <1>6, <3>1
  <2>4. p \in 1..End(view)
    BY <1>1
  <2> QED
    BY <1>1, <2>1, <2>2, <2>3, <2>4, NextAhead
<1>8. CASE ~c.forward
  <2>1. c.saved = p /\ c.at \in 0..N /\ c.at < p /\ c.at \in Nat
        /\ (\A j \in 1..N : c.at < j /\ j < p => ~InView(view, j))
        /\ (c.at > 0 => K(c.at) < K(p))
    BY <1>1, <1>8 DEF Facing, StandsBefore, K, N
  <2>2. c.at + 1 \in 1..End(view) /\ c.at + 1 # End(view) /\ c.at + 1 <= p
    BY <1>1, <2>1
  <2>3. MoveNext(view, c) = FindNextUserEntry(view, c.at + 1, K(p))
    BY <1>1, <1>8, <2>1, <2>2 DEF MoveNext
  <2>4. Ready(view, c.at + 1, K(p))
    <3>1. ASSUME NEW k \in 1..N, k >= c.at + 1, InView(view, k) PROVE K(p) <= K(k)
      <4>1. ~(k < p)
        BY <2>1, <3>1
      <4> QED
        BY <1>1, <1>2, <4>1
    <3>2. ASSUME NEW j \in 1..N, NEW k \in 1..N, j < c.at + 1, K(j) = K(k) PROVE K(k) <= K(p)
      <4>1. c.at \in 1..N /\ j <= c.at
        BY <1>1, <2>1, <3>2
      <4>2. K(j) <= K(c.at)
        BY <1>2, <4>1
      <4> QED
        BY <1>1, <1>3, <2>1, <3>2, <4>1, <4>2
    <3> QED
      BY <1>5, <3>1, <3>2
  <2>5. After(view, c.at + 1, K(p)) = T
    <3>1. \A q \in Live(view) : q >= c.at + 1 /\ K(q) > K(p) <=> q > p
      <4> SUFFICES ASSUME NEW q \in Live(view) PROVE q > p => q >= c.at + 1
        BY <1>4
      <4>1. q \in Nat /\ c.at < p
        BY <2>1, LiveIs
      <4> QED
        BY <1>1, <2>1, <4>1
    <3> QED
      BY <1>6, <3>1
  <2> QED
    BY <1>1, <2>2, <2>3, <2>4, <2>5, NextAhead
<1> QED
  BY <1>7, <1>8

(* The search for the row before the entries of a key.                     *)
Stops(view, p, b) ==
  /\ b \in 0..Size(view)
  /\ b > 0 => RowKey(view, b) < RowKey(view, p)
  /\ \A j \in 1..Size(view) : j <= p /\ RowKey(view, j) < RowKey(view, p) => j <= b

LEMMA BackIs ==
  ASSUME NEW view, Ordered(view), NEW c, NEW p \in 1..Size(view), c.forward, c.at = p
  PROVE  \E b : /\ Stops(view, p, b)
                /\ MovePrev(view, c) = IF b = 0 THEN Cursor(FALSE, TRUE, 0, 0)
                                       ELSE FindPrevUserEntry(view, b)
<1> DEFINE N == Size(view)
           K(i) == RowKey(view, i)
           V == 0..N
           One(x, i) == IF K(i) < K(p) THEN i ELSE x
           G == [n \in 1..N |-> [x \in V |-> One(x, n)]]
           Step(f, i) == IF i \notin DOMAIN view.list THEN 0
                         ELSE IF view.list[i].key < view.list[p].key THEN i ELSE f[i - 1]
           Found(f) == f = [i \in Nat |-> Step(f, i)]
           found == CHOOSE f : Found(f)
<1>1. N \in Nat /\ p \in 0..N /\ p \in Nat /\ 0 \in V /\ DOMAIN view.list = 1..N
  BY ViewIs
<1>2. \A i : view.list[i].key = K(i)
  BY DEF RowKey
<1>3. MovePrev(view, c) = IF found[p] = 0 THEN Cursor(FALSE, TRUE, 0, 0)
                          ELSE FindPrevUserEntry(view, found[p])
  BY DEF MovePrev
<1> HIDE DEF N, K
<1>4. \A n \in 1..N : \A x \in V : G[n][x] \in V
  <2> SUFFICES ASSUME NEW n \in 1..N, NEW x \in V PROVE G[n][x] \in V
    OBVIOUS
  <2>1. G[n][x] = One(x, n)
    OBVIOUS
  <2> QED
    BY <1>1, <2>1
<1>5. \E g : g \in Iterations(V, 0, N, G)
  <2> HIDE DEF V, G
  <2> QED
    BY <1>1, <1>4, IterationExists
<1>6. PICK g \in [0..N -> V] : g[0] = 0 /\ \A n \in 1..N : g[n] = G[n][g[n - 1]]
  BY <1>5 DEF Iterations
<1> DEFINE f == [i \in Nat |-> IF i \in 1..N THEN g[i] ELSE 0]
<1>7. Found(f)
  <2>1. ASSUME NEW i \in Nat PROVE f[i] = Step(f, i)
    <3>1. CASE i \notin 1..N
      BY <1>1, <3>1
    <3>2. CASE i \in 1..N
      <4>1. i - 1 \in 0..N /\ i - 1 \in Nat /\ (i - 1 \notin 1..N => i - 1 = 0)
        BY <1>1, <3>2
      <4>2. g[i] = G[i][g[i - 1]] /\ g[i - 1] \in V
        BY <1>6, <3>2, <4>1
      <4>3. g[i] = One(g[i - 1], i)
        BY <3>2, <4>2
      <4>4. f[i - 1] = g[i - 1] /\ f[i] = g[i]
        BY <1>6, <3>2, <4>1
      <4> HIDE DEF f
      <4> QED
        BY <1>1, <1>2, <3>2, <4>3, <4>4
    <3> QED
      BY <3>1, <3>2
  <2>2. f = [i \in Nat |-> f[i]]
    OBVIOUS
  <2> HIDE DEF Step, f
  <2> QED
    BY <2>1, <2>2
<1>8. Found(found)
  <2> HIDE DEF Found, f
  <2> QED
    BY <1>7
<1> HIDE DEF found, f
<1>9. \A i \in 0..N : found[i] = IF i = 0 THEN 0 ELSE IF K(i) < K(p) THEN i ELSE found[i - 1]
  <2> SUFFICES ASSUME NEW i \in 0..N
               PROVE  found[i] = IF i = 0 THEN 0 ELSE IF K(i) < K(p) THEN i ELSE found[i - 1]
    OBVIOUS
  <2>1. i \in Nat /\ (i \in DOMAIN view.list <=> i # 0)
    BY <1>1
  <2>2. found[i] = Step(found, i)
    BY <1>8, <2>1
  <2> QED
    BY <1>2, <2>1, <2>2
<1> DEFINE Good(i) == /\ found[i] \in 0..N
                      /\ found[i] > 0 => K(found[i]) < K(p)
                      /\ \A j \in 1..N : j <= i /\ K(j) < K(p) => j <= found[i]
           T == {n \in Nat : n <= N => Good(n)}
<1>10. 0 \in T
  <2>1. found[0] = 0
    BY <1>1, <1>9
  <2>2. Good(0)
    BY <1>1, <2>1
  <2> QED
    BY <2>2
<1>11. ASSUME NEW n \in Nat, n \in T PROVE n + 1 \in T
  <2> SUFFICES ASSUME n + 1 <= N PROVE Good(n + 1)
    OBVIOUS
  <2>1. n + 1 \in 0..N /\ n + 1 # 0 /\ (n + 1) - 1 = n /\ n <= N
    BY <1>1
  <2>2. Good(n)
    <3> HIDE DEF Good
    <3> QED
      BY <1>11, <2>1
  <2>3. found[n + 1] = IF K(n + 1) < K(p) THEN n + 1 ELSE found[n]
    BY <1>9, <2>1
  <2>4. CASE K(n + 1) < K(p)
    BY <1>1, <2>1, <2>2, <2>3, <2>4
  <2>5. CASE ~(K(n + 1) < K(p))
    <3>1. ASSUME NEW j \in 1..N, j <= n + 1, K(j) < K(p) PROVE j <= n
      <4>1. j # n + 1
        BY <2>5, <3>1
      <4> QED
        BY <1>1, <3>1, <4>1
    <3> QED
      BY <2>1, <2>2, <2>3, <2>5, <3>1
  <2> QED
    BY <2>4, <2>5
<1>12. Nat \subseteq T
  <2> HIDE DEF T
  <2> QED
    BY <1>10, <1>11, SetInduction
<1>13. p <= N
  BY DEF N
<1>14. Good(p)
  BY <1>1, <1>12, <1>13
<1>15. Stops(view, p, found[p])
  BY <1>14 DEF Stops, N, K
<1> QED
  BY <1>3, <1>15

LEMMA MovePrevIs ==
  ASSUME NEW view, Ordered(view), NEW c, NEW p, Facing(view, c, p)
  PROVE  Behind(view, MovePrev(view, c), {q \in Live(view) : q < p})
<1> DEFINE T == {q \in Live(view) : q < p}
<1>1. p \in Live(view) /\ p \in 1..Size(view) /\ p \in Nat /\ Size(view) \in Nat
  BY LiveIs, ViewIs DEF Facing
<1>2. \A q \in Live(view) : q \in 1..Size(view) /\ q \in Nat /\ q > 0 /\ q # 0 /\ InView(view, q)
  BY LiveIs
<1>3. \A q \in Live(view) : q < p <=> RowKey(view, q) < RowKey(view, p)
  BY <1>1, LiveIs
<1>4. ASSUME NEW b \in 0..Size(view), \A q \in Live(view) : q < p <=> q <= b
      PROVE  UpTo(view, b, 0) = T
  BY <1>2, <1>4 DEF UpTo
<1>5. CASE c.forward
  <2>1. PICK b : /\ Stops(view, p, b)
                 /\ MovePrev(view, c) = IF b = 0 THEN Cursor(FALSE, TRUE, 0, 0)
                                        ELSE FindPrevUserEntry(view, b)
    BY <1>1, <1>5, BackIs DEF Facing
  <2>2. b \in 0..Size(view) /\ b \in Nat
    BY <2>1 DEF Stops
  <2>3. ASSUME NEW q \in Live(view) PROVE q < p <=> q <= b
    <3>1. ASSUME q < p PROVE q <= b
      BY <1>1, <1>2, <1>3, <2>1, <3>1 DEF Stops
    <3>2. ASSUME q <= b PROVE q < p
      <4>1. b \in 1..Size(view) /\ RowKey(view, b) < RowKey(view, p)
        BY <1>2, <2>1, <2>2, <3>2 DEF Stops
      <4>2. RowKey(view, q) <= RowKey(view, b)
        BY <1>2, <3>2, <4>1, ViewIs
      <4>3. RowKey(view, q) \in Nat /\ RowKey(view, b) \in Nat /\ RowKey(view, p) \in Nat
        BY <1>1, <1>2, <4>1, ViewIs
      <4>4. RowKey(view, q) < RowKey(view, p)
        BY <4>1, <4>2, <4>3
      <4> QED
        BY <1>3, <4>4
    <3> QED
      BY <3>1, <3>2
  <2>4. UpTo(view, b, 0) = T
    BY <1>4, <2>2, <2>3
  <2>5. CASE b = 0
    <3>1. T = {}
      BY <1>2, <2>3, <2>5
    <3>2. ~Cursor(FALSE, TRUE, 0, 0).valid
      BY CursorIs
    <3> QED
      BY <2>1, <2>5, <3>1, <3>2 DEF Behind
  <2>6. CASE b # 0
    BY <2>1, <2>2, <2>4, <2>6, PrevBehind
  <2> QED
    BY <2>5, <2>6
<1>6. CASE ~c.forward
  <2>1. StandsBefore(view, c.at, p)
    BY <1>6 DEF Facing
  <2>2. c.at \in 0..Size(view) /\ c.at < p /\ c.at \in Nat
    BY <2>1 DEF StandsBefore
  <2>3. ASSUME NEW q \in Live(view) PROVE q < p <=> q <= c.at
    BY <1>1, <1>2, <2>1, <2>2 DEF StandsBefore
  <2>4. UpTo(view, c.at, 0) = T
    BY <1>4, <2>2, <2>3
  <2>5. MovePrev(view, c) = FindPrevUserEntry(view, c.at)
    BY <1>6 DEF MovePrev
  <2> QED
    BY <2>2, <2>4, <2>5, PrevBehind
<1> QED
  BY <1>5, <1>6

-----------------------------------------------------------------------------
(* What a cursor over the database shows.                                *)

(* The rows of a view are the entries that are stored.                     *)
RowsStored(view) ==
  /\ \A i \in 1..Size(view) :
       LET e == view.list[i].sequence IN
       /\ e \in Stored /\ RowKey(view, i) = Key(e) /\ view.list[i].deletion = written[e].deletion
  /\ \A e \in Stored : \E i \in 1..Size(view) : view.list[i].sequence = e

LEMMA IteratorIs ==
  ASSUME TreeTyped, NEW s \in Nat
  PROVE  LET view == Iterator(InternalEntries, s) IN
         Ordered(view) /\ RowsStored(view) /\ view.sequence = s
<1> DEFINE present == InOrder(Stored, Precedes)
           list == [i \in DOMAIN present |->
                      [key |-> Key(present[i]), sequence |-> present[i],
                       deletion |-> written[present[i]].deletion]]
           view == Iterator(InternalEntries, s)
<1>1. InternalEntries = list
  BY DEF InternalEntries, Stored, InTables
<1>2. view.list = list /\ view.sequence = s
  BY <1>1 DEF Iterator
<1>3. Stored \subseteq 1..LastSequence
  BY StoredTyped
<1>4. PICK n \in Nat : /\ DOMAIN present = 1..n
                       /\ \A i \in 1..n : present[i] \in Stored
                       /\ \A i, j \in 1..n : i < j => Precedes(present[i], present[j])
                       /\ \A e \in Stored : \E i \in 1..n : present[i] = e
  BY <1>3, InOrderIs
<1> HIDE DEF present, view
<1>5. ASSUME NEW i \in 1..n
      PROVE  /\ list[i] = [key |-> Key(present[i]), sequence |-> present[i],
                           deletion |-> written[present[i]].deletion]
             /\ list[i] \in Rows
             /\ list[i].key = Key(present[i]) /\ list[i].sequence = present[i]
             /\ list[i].deletion = written[present[i]].deletion
             /\ present[i] \in Stored
  <2>1. list[i] = [key |-> Key(present[i]), sequence |-> present[i],
                   deletion |-> written[present[i]].deletion]
    BY <1>4
  <2>2. present[i] \in Stored /\ present[i] \in 1..LastSequence
    BY <1>3, <1>4
  <2>3. /\ present[i] \in Nat /\ Key(present[i]) \in Nat \ {0}
        /\ written[present[i]].deletion \in BOOLEAN
    <3>1. written \in Seq([key : Keys, deletion : BOOLEAN]) /\ LastSequence = Len(written)
      BY DEF TreeTyped, LastSequence
    <3>2. ASSUME NEW S, NEW w \in Seq(S)
          PROVE  \A e \in 1..Len(w) : w[e] \in S
      OBVIOUS
    <3>3. written[present[i]] \in [key : Keys, deletion : BOOLEAN]
      BY <2>2, <3>1, <3>2
    <3> QED
      BY <2>2, <3>3, KeyTyped
  <2> HIDE DEF list
  <2> QED
    BY <2>1, <2>2, <2>3 DEF Rows
<1>6. list = [i \in 1..n |-> list[i]]
  BY <1>4
<1> HIDE DEF list
<1>7. list \in Seq(Rows) /\ Len(list) = n
  <2>1. list \in [1..n -> Rows]
    BY <1>5, <1>6
  <2> QED
    BY <2>1
<1>8. Size(view) = n
  BY <1>2, <1>7 DEF Size
<1>9. \A i \in 1..n : RowKey(view, i) = Key(present[i])
  BY <1>2, <1>5 DEF RowKey
<1>10. Ordered(view)
  <2>1. ASSUME NEW i \in 1..n, NEW j \in 1..n, i < j
        PROVE  \/ RowKey(view, i) < RowKey(view, j)
               \/ RowKey(view, i) = RowKey(view, j) /\ view.list[i].sequence > view.list[j].sequence
    <3>1. Precedes(present[i], present[j])
      BY <1>4, <2>1
    <3>2. view.list[i].sequence = present[i] /\ view.list[j].sequence = present[j]
      BY <1>2, <1>5
    <3> QED
      BY <1>9, <3>1, <3>2 DEF Precedes
  <2> QED
    <3>1. view.list \in Seq(Rows) /\ view.sequence \in Nat
      BY <1>2, <1>7
    <3>2. \A i, j \in 1..Size(view) :
             i < j => \/ RowKey(view, i) < RowKey(view, j)
                      \/ RowKey(view, i) = RowKey(view, j) /\ view.list[i].sequence > view.list[j].sequence
      BY <1>8, <2>1
    <3> QED
      BY <3>1, <3>2 DEF Ordered
<1>11. RowsStored(view)
  <2>1. ASSUME NEW i \in 1..n
        PROVE  /\ view.list[i].sequence \in Stored /\ RowKey(view, i) = Key(view.list[i].sequence)
               /\ view.list[i].deletion = written[view.list[i].sequence].deletion
    <3>1. /\ view.list[i].sequence = present[i] /\ present[i] \in Stored
          /\ view.list[i].deletion = written[present[i]].deletion
      BY <1>2, <1>5
    <3>2. RowKey(view, i) = Key(present[i])
      BY <1>9
    <3> QED
      BY <3>1, <3>2
  <2>2. ASSUME NEW e \in Stored PROVE \E i \in 1..n : view.list[i].sequence = e
    <3>1. PICK i \in 1..n : present[i] = e
      BY <1>4
    <3>2. view.list[i].sequence = present[i]
      BY <1>2, <1>5
    <3> QED
      BY <3>1, <3>2
  <2>3. \A i \in 1..Size(view) :
          /\ view.list[i].sequence \in Stored /\ RowKey(view, i) = Key(view.list[i].sequence)
          /\ view.list[i].deletion = written[view.list[i].sequence].deletion
    BY <1>8, <2>1
  <2>4. \A e \in Stored : \E i \in 1..Size(view) : view.list[i].sequence = e
    BY <1>8, <2>2
  <2> QED
    BY <2>3, <2>4 DEF RowsStored
<1> QED
  BY <1>2, <1>10, <1>11 DEF view

(* The rows to show are the last writes that have values.                  *)
LEMMA LiveAreLast ==
  ASSUME TreeTyped, Kept, NEW s \in Readers, NEW view, Ordered(view), RowsStored(view), view.sequence = s
  PROVE  {view.list[p].sequence : p \in Live(view)} = {LastWrite(key, s) : key \in Keys} \ {0}
<1> DEFINE Of(p) == view.list[p].sequence
           L == {LastWrite(key, s) : key \in Keys} \ {0}
<1>1. s \in Nat /\ LastSequence \in Nat /\ Stored \subseteq 1..LastSequence
      /\ \A e \in 1..LastSequence : e \in Nat /\ Key(e) \in Keys
  BY ReadersTyped, StoredTyped, KeyTyped
<1>2. Size(view) \in Nat
  BY ViewIs
<1>3. ASSUME NEW i \in 1..Size(view)
      PROVE  /\ Of(i) \in Stored /\ Of(i) \in Nat /\ RowKey(view, i) = Key(Of(i))
             /\ view.list[i].deletion = written[Of(i)].deletion
             /\ InView(view, i) <=> Of(i) <= s
  BY <1>1 DEF RowsStored, InView
<1>4. ASSUME NEW key
      PROVE  \/ Newest(1..LastSequence, key, s) = 0
             \/ /\ Newest(1..LastSequence, key, s) # 0 /\ Key(Newest(1..LastSequence, key, s)) = key
                /\ LastOf(1..LastSequence, Newest(1..LastSequence, key, s), s)
  BY <1>1, NewestIs
<1>5. \A i, j \in 1..Size(view) : i < j /\ RowKey(view, i) = RowKey(view, j) => Of(i) > Of(j)
  <2> SUFFICES ASSUME NEW i \in 1..Size(view), NEW j \in 1..Size(view), i < j, RowKey(view, i) = RowKey(view, j)
               PROVE  Of(i) > Of(j)
    OBVIOUS
  <2>1. RowKey(view, i) \in Nat
    BY ViewIs
  <2> QED
    BY <2>1 DEF Ordered
<1>6. ASSUME NEW p \in Live(view) PROVE Of(p) \in L
  <2> DEFINE e == Of(p)
             key == Key(e)
             n == Newest(1..LastSequence, key, s)
  <2>1. /\ p \in 1..Size(view) /\ InView(view, p) /\ ~view.list[p].deletion
        /\ \A j \in 1..Size(view) : j < p /\ RowKey(view, j) = RowKey(view, p) => ~InView(view, j)
    BY DEF Live
  <2>2. e \in Stored /\ e \in 1..LastSequence /\ e <= s /\ ~written[e].deletion /\ key \in Keys
    BY <1>1, <1>3, <2>1
  <2>3. n # 0 /\ Key(n) = key /\ LastOf(1..LastSequence, n, s)
    <3>1. \/ n = 0 /\ \A d \in 1..LastSequence : Key(d) = key => d > s
          \/ n # 0 /\ Key(n) = key /\ LastOf(1..LastSequence, n, s)
      BY <1>1, NewestIs
    <3>2. ~(e > s)
      BY <1>1, <2>2
    <3> QED
      BY <2>2, <3>1, <3>2
  <2>4. n \in 1..LastSequence /\ n <= s /\ e <= n
    BY <2>2, <2>3 DEF LastOf
  <2>5. n \in Stored
    <3>1. ~Gone(Stored, n, s)
      <4>1. ~(e > s)
        BY <1>1, <2>2
      <4> QED
        BY <2>2, <2>3, <4>1 DEF Gone
    <3> QED
      BY <2>3, <2>4, <3>1 DEF Kept
  <2>6. PICK q \in 1..Size(view) : Of(q) = n
    BY <2>5 DEF RowsStored
  <2> HIDE DEF n
  <2>7. q = p
    <3>1. RowKey(view, q) = RowKey(view, p) /\ InView(view, q)
      BY <1>3, <2>1, <2>3, <2>4, <2>6
    <3>2. ~(q < p)
      BY <2>1, <3>1
    <3>3. ~(p < q)
      <4>1. p < q => e > n
        BY <1>5, <2>1, <2>6, <3>1
      <4> QED
        BY <1>1, <2>2, <2>4, <4>1
    <3> QED
      BY <1>2, <2>1, <3>2, <3>3
  <2>8. n = e
    BY <2>6, <2>7
  <2>9. LastWrite(key, s) = e
    BY <2>2, <2>3, <2>8 DEF LastWrite, Value, n
  <2> QED
    BY <2>2, <2>3, <2>8, <2>9
<1>7. ASSUME NEW v \in L PROVE \E p \in Live(view) : v = Of(p)
  <2>1. PICK key \in Keys : v = LastWrite(key, s) /\ v # 0
    OBVIOUS
  <2> DEFINE n == Newest(1..LastSequence, key, s)
  <2>2. n # 0 /\ v = n /\ ~written[n].deletion
    BY <2>1 DEF LastWrite, Value
  <2>3. Key(n) = key /\ LastOf(1..LastSequence, n, s)
    BY <1>4, <2>2
  <2>4. n \in 1..LastSequence /\ n <= s /\ \A e \in 1..LastSequence : Key(e) = Key(n) /\ e <= s => e <= n
    BY <2>3 DEF LastOf
  <2>5. n \in Stored
    BY <2>2, <2>3, <2>4 DEF Kept, Gone
  <2>6. PICK p \in 1..Size(view) : Of(p) = n
    BY <2>5 DEF RowsStored
  <2> HIDE DEF n
  <2>7. ASSUME NEW j \in 1..Size(view), j < p, RowKey(view, j) = RowKey(view, p), InView(view, j) PROVE FALSE
    <3>1. Of(j) > n /\ Of(j) <= s /\ Of(j) \in 1..LastSequence /\ Key(Of(j)) = Key(n) /\ Of(j) \in Nat
      BY <1>1, <1>3, <1>5, <2>6, <2>7
    <3>2. Of(j) <= n
      BY <2>4, <3>1
    <3> QED
      BY <1>1, <2>4, <3>1, <3>2
  <2>8. p \in Live(view)
    BY <1>3, <2>2, <2>4, <2>6, <2>7 DEF Live
  <2> QED
    BY <2>2, <2>6, <2>8
<1> QED
  BY <1>6, <1>7

(* The rows to show, in order: row pos[i] holds the i-th value.            *)
Places(view, values, n, pos) ==
  /\ n \in Nat /\ DOMAIN values = 1..n /\ values = [i \in 1..n |-> values[i]]
  /\ \A i \in 1..n : pos[i] \in Live(view) /\ view.list[pos[i]].sequence = values[i]
  /\ \A i, j \in 1..n : i < j => pos[i] < pos[j]
  /\ \A p \in Live(view) : \E i \in 1..n : pos[i] = p

LEMMA PlacesExist ==
  ASSUME TreeTyped, Kept, NEW s \in Readers, NEW view, Ordered(view), RowsStored(view), view.sequence = s
  PROVE  \E n, pos :
           Places(view, Values(s), n, pos)
<1> DEFINE L == {LastWrite(key, s) : key \in Keys} \ {0}
           values == InOrder(L, Precedes)
           Of(p) == view.list[p].sequence
<1>1. {Of(p) : p \in Live(view)} = L
  BY LiveAreLast
<1>2. \A p \in Live(view) : p \in 1..Size(view) /\ p \in Nat /\ Of(p) \in Stored /\ RowKey(view, p) = Key(Of(p))
                            /\ RowKey(view, p) \in Nat
  BY LiveIs DEF RowsStored
<1>3. Stored \subseteq 1..LastSequence /\ \A e \in Stored : e \in Nat
  BY StoredTyped, KeyTyped
<1>4. L \subseteq 1..LastSequence
  BY <1>1, <1>2, <1>3
<1>5. PICK n \in Nat : /\ DOMAIN values = 1..n
                       /\ \A i \in 1..n : values[i] \in L
                       /\ \A i, j \in 1..n : i < j => Precedes(values[i], values[j])
                       /\ \A e \in L : \E i \in 1..n : values[i] = e
  <2> HIDE DEF L
  <2> QED
    BY <1>4, InOrderIs
<1>6. values = [i \in 1..n |-> values[i]]
  <2> HIDE DEF L
  <2>1. values = [i \in DOMAIN values |-> values[i]]
    BY DEF InOrder
  <2> QED
    BY <1>5, <2>1
<1> DEFINE pos == [i \in 1..n |-> CHOOSE p \in Live(view) : Of(p) = values[i]]
<1> HIDE DEF values, L
<1>7. ASSUME NEW p \in Live(view), NEW q \in Live(view), Key(Of(p)) = Key(Of(q)) PROVE p = q
  <2>1. ~(p < q) /\ ~(q < p)
    BY <1>2, <1>7, LiveIs
  <2> QED
    BY <1>2, <2>1
<1>8. ASSUME NEW i \in 1..n PROVE pos[i] \in Live(view) /\ Of(pos[i]) = values[i]
  <2>1. \E p \in Live(view) : Of(p) = values[i]
    BY <1>1, <1>5
  <2> QED
    BY <2>1
<1> HIDE DEF pos
<1>9. ASSUME NEW i \in 1..n, NEW j \in 1..n, i < j PROVE pos[i] < pos[j]
  <2>1. Precedes(Of(pos[i]), Of(pos[j]))
    BY <1>5, <1>8, <1>9
  <2>2. pos[i] \in Live(view) /\ pos[j] \in Live(view)
    BY <1>8
  <2>3. Key(Of(pos[i])) # Key(Of(pos[j]))
    <3> SUFFICES ASSUME Key(Of(pos[i])) = Key(Of(pos[j])) PROVE FALSE
      OBVIOUS
    <3>1. Of(pos[i]) = Of(pos[j]) /\ Of(pos[i]) \in Stored
      BY <1>2, <1>7, <2>2
    <3>2. ~Precedes(Of(pos[i]), Of(pos[i]))
      BY <1>3, <3>1, OrderIs
    <3> QED
      BY <2>1, <3>1, <3>2
  <2>4. RowKey(view, pos[i]) < RowKey(view, pos[j])
    BY <1>2, <2>1, <2>2, <2>3 DEF Precedes
  <2> QED
    BY <2>2, <2>4, LiveIs
<1>10. ASSUME NEW p \in Live(view) PROVE \E i \in 1..n : pos[i] = p
  <2>1. PICK i \in 1..n : values[i] = Of(p)
    BY <1>1, <1>5
  <2>2. pos[i] = p
    BY <1>7, <1>8, <2>1
  <2> QED
    BY <2>2
<1>11. Places(view, values, n, pos)
  BY <1>5, <1>6, <1>8, <1>9, <1>10 DEF Places
<1> QED
  BY <1>11 DEF values, L, Values

(* The cursor shows the i-th row, or is not valid if there is none.        *)
Sees(view, c, n, pos, i) == IF i \in 1..n THEN Facing(view, c, pos[i]) ELSE ~c.valid

LEMMA SeesIs ==
  ASSUME NEW view, Ordered(view), NEW values, NEW n, NEW pos, Places(view, values, n, pos), NEW c
  PROVE  /\ Ahead(view, c, Live(view)) => Sees(view, c, n, pos, 1)
         /\ Behind(view, c, Live(view)) => Sees(view, c, n, pos, n)
         /\ \A i \in 1..n :
              /\ Ahead(view, c, {p \in Live(view) : RowKey(view, p) >= RowKey(view, pos[i])}) => Sees(view, c, n, pos, i)
              /\ Ahead(view, c, {p \in Live(view) : p > pos[i]}) => Sees(view, c, n, pos, i + 1)
              /\ Behind(view, c, {p \in Live(view) : p < pos[i]}) => Sees(view, c, n, pos, i - 1)
         /\ \A k \in Nat, i \in 1..(n + 1) :
              /\ \A j \in 1..n : RowKey(view, pos[j]) < k <=> j < i
              /\ Ahead(view, c, {p \in Live(view) : RowKey(view, p) >= k})
              => Sees(view, c, n, pos, i)
<1>1. /\ n \in Nat
      /\ \A i \in 1..n : pos[i] \in Live(view)
      /\ \A i, j \in 1..n : i < j => pos[i] < pos[j]
      /\ \A p \in Live(view) : \E i \in 1..n : pos[i] = p
  BY DEF Places
<1>2. \A p \in Live(view) : p \in Nat
  BY LiveIs
<1>3. \A i, j \in 1..n : pos[i] <= pos[j] <=> i <= j
  <2> SUFFICES ASSUME NEW i \in 1..n, NEW j \in 1..n PROVE pos[i] <= pos[j] <=> i <= j
    OBVIOUS
  <2>1. pos[i] \in Nat /\ pos[j] \in Nat /\ i \in Nat /\ j \in Nat
    BY <1>1, <1>2
  <2>2. (i < j => pos[i] < pos[j]) /\ (j < i => pos[j] < pos[i]) /\ (i = j => pos[i] = pos[j])
    BY <1>1
  <2> QED
    BY <2>1, <2>2
(* The rows from the i-th, or up to the i-th.                              *)
<1>4. ASSUME NEW T, NEW i \in Int, \A j \in 1..n : pos[j] \in T <=> i <= j, T \subseteq Live(view), i >= 1,
             Ahead(view, c, T)
      PROVE  Sees(view, c, n, pos, i)
  <2>1. CASE i \in 1..n
    <3>1. pos[i] \in T
      BY <1>4, <2>1
    <3>2. PICK p \in T : (\A q \in T : p <= q) /\ Facing(view, c, p)
      BY <1>4, <3>1 DEF Ahead
    <3>3. PICK j \in 1..n : pos[j] = p
      BY <1>1, <1>4, <3>2
    <3>4. pos[j] <= pos[i] /\ i <= j
      BY <1>4, <3>1, <3>2, <3>3
    <3>5. j <= i
      BY <1>3, <2>1, <3>4
    <3>6. i = j
      BY <1>1, <3>4, <3>5
    <3> QED
      BY <2>1, <3>2, <3>3, <3>6 DEF Sees
  <2>2. CASE i \notin 1..n
    <3>1. \A j \in 1..n : ~(i <= j)
      BY <1>1, <1>4, <2>2
    <3>2. T = {}
      BY <1>1, <1>4, <3>1
    <3> QED
      BY <1>4, <2>2, <3>2 DEF Ahead, Sees
  <2> QED
    BY <2>1, <2>2
<1>5. ASSUME NEW T, NEW i \in Int, \A j \in 1..n : pos[j] \in T <=> j <= i, T \subseteq Live(view), i <= n,
             Behind(view, c, T)
      PROVE  Sees(view, c, n, pos, i)
  <2>1. CASE i \in 1..n
    <3>1. pos[i] \in T
      BY <1>5, <2>1
    <3>2. PICK p \in T : (\A q \in T : q <= p) /\ Facing(view, c, p)
      BY <1>5, <3>1 DEF Behind
    <3>3. PICK j \in 1..n : pos[j] = p
      BY <1>1, <1>5, <3>2
    <3>4. pos[i] <= pos[j] /\ j <= i
      BY <1>5, <3>1, <3>2, <3>3
    <3>5. i <= j
      BY <1>3, <2>1, <3>4
    <3>6. i = j
      BY <1>1, <3>4, <3>5
    <3> QED
      BY <2>1, <3>2, <3>3, <3>6 DEF Sees
  <2>2. CASE i \notin 1..n
    <3>1. \A j \in 1..n : ~(j <= i)
      BY <1>1, <1>5, <2>2
    <3>2. T = {}
      BY <1>1, <1>5, <3>1
    <3> QED
      BY <1>5, <2>2, <3>2 DEF Behind, Sees
  <2> QED
    BY <2>1, <2>2
<1>6. ASSUME Ahead(view, c, Live(view)) PROVE Sees(view, c, n, pos, 1)
  <2>1. \A j \in 1..n : pos[j] \in Live(view) <=> 1 <= j
    BY <1>1
  <2> QED
    BY <1>4, <1>6, <2>1
<1>7. ASSUME Behind(view, c, Live(view)) PROVE Sees(view, c, n, pos, n)
  <2>1. \A j \in 1..n : pos[j] \in Live(view) <=> j <= n
    BY <1>1
  <2> QED
    BY <1>1, <1>5, <1>7, <2>1
<1>8. ASSUME NEW i \in 1..n
      PROVE  /\ Ahead(view, c, {p \in Live(view) : RowKey(view, p) >= RowKey(view, pos[i])}) => Sees(view, c, n, pos, i)
             /\ Ahead(view, c, {p \in Live(view) : p > pos[i]}) => Sees(view, c, n, pos, i + 1)
             /\ Behind(view, c, {p \in Live(view) : p < pos[i]}) => Sees(view, c, n, pos, i - 1)
  <2> DEFINE NotBelow == {p \in Live(view) : RowKey(view, p) >= RowKey(view, pos[i])}
             Past == {p \in Live(view) : p > pos[i]}
             Below == {p \in Live(view) : p < pos[i]}
  <2>1. i \in Int /\ i >= 1 /\ i + 1 \in Int /\ i + 1 >= 1 /\ i - 1 \in Int /\ i - 1 <= n
    BY <1>1
  <2>2. ASSUME NEW j \in 1..n
        PROVE  /\ RowKey(view, pos[j]) >= RowKey(view, pos[i]) <=> i <= j
               /\ pos[j] > pos[i] <=> i + 1 <= j
               /\ pos[j] < pos[i] <=> j <= i - 1
    <3>1. pos[i] \in Live(view) /\ pos[j] \in Live(view) /\ pos[i] \in Nat /\ pos[j] \in Nat
          /\ RowKey(view, pos[i]) \in Nat /\ RowKey(view, pos[j]) \in Nat
      BY <1>1, LiveIs
    <3>2. /\ pos[i] <= pos[j] <=> i <= j
          /\ pos[j] <= pos[i] <=> j <= i
          /\ pos[j] < pos[i] <=> RowKey(view, pos[j]) < RowKey(view, pos[i])
      BY <1>3, <3>1, LiveIs
    <3> QED
      BY <3>1, <3>2
  <2>3. \A j \in 1..n : pos[j] \in NotBelow <=> i <= j
    BY <1>1, <2>2
  <2>4. \A j \in 1..n : pos[j] \in Past <=> i + 1 <= j
    BY <1>1, <2>2
  <2>5. \A j \in 1..n : pos[j] \in Below <=> j <= i - 1
    BY <1>1, <2>2
  <2>6. NotBelow \subseteq Live(view) /\ Past \subseteq Live(view) /\ Below \subseteq Live(view)
    OBVIOUS
  <2> HIDE DEF NotBelow, Past, Below
  <2>7. Ahead(view, c, NotBelow) => Sees(view, c, n, pos, i)
    BY <1>4, <2>1, <2>3, <2>6
  <2>8. Ahead(view, c, Past) => Sees(view, c, n, pos, i + 1)
    BY <1>4, <2>1, <2>4, <2>6
  <2>9. Behind(view, c, Below) => Sees(view, c, n, pos, i - 1)
    BY <1>5, <2>1, <2>5, <2>6
  <2> QED
    BY <2>7, <2>8, <2>9 DEF NotBelow, Past, Below
<1>9. ASSUME NEW k \in Nat, NEW i \in 1..(n + 1), \A j \in 1..n : RowKey(view, pos[j]) < k <=> j < i,
             Ahead(view, c, {p \in Live(view) : RowKey(view, p) >= k})
      PROVE  Sees(view, c, n, pos, i)
  <2> DEFINE NotBelow == {p \in Live(view) : RowKey(view, p) >= k}
  <2>1. i \in Int /\ i >= 1
    BY <1>1
  <2>2. ASSUME NEW j \in 1..n PROVE pos[j] \in NotBelow <=> i <= j
    <3>1. pos[j] \in Live(view) /\ RowKey(view, pos[j]) \in Nat
      BY <1>1, LiveIs
    <3> QED
      BY <1>9, <2>1, <3>1
  <2>3. NotBelow \subseteq Live(view) /\ Ahead(view, c, NotBelow)
    BY <1>9
  <2> HIDE DEF NotBelow
  <2> QED
    BY <1>4, <2>1, <2>2, <2>3
<1> QED
  BY <1>6, <1>7, <1>8, <1>9

(* The invariants give the property.                                       *)
LEMMA ScansRight ==
  ASSUME IInv, Reading
  PROVE  ScanIsNewest
<1> SUFFICES ASSUME broken = {}, NEW s \in Readers
             PROVE  LET view == Iterator(InternalEntries, s)
                        values == Values(s)
                    IN /\ Shows(view, values, SeekToFirst(view), 1)
                       /\ Shows(view, values, SeekToLast(view), Len(values))
                       /\ \A k \in Keys, i \in 1..(Len(values) + 1) :
                            (\A j \in DOMAIN values : Key(values[j]) < k <=> j < i)
                            => Shows(view, values, Seek(view, k), i)
                       /\ \A i \in DOMAIN values :
                            LET at == Seek(view, Key(values[i]))
                                back == MovePrev(view, at)
                            IN /\ Shows(view, values, at, i)
                               /\ Shows(view, values, MoveNext(view, at), i + 1)
                               /\ Shows(view, values, back, i - 1)
                               /\ back.valid => /\ Shows(view, values, MovePrev(view, back), i - 2)
                                                /\ Shows(view, values, MoveNext(view, back), i)
  BY DEF ScanIsNewest, Readers
<1> DEFINE w == Iterator(InternalEntries, s)
           vs == Values(s)
<1>1. TreeTyped /\ Kept /\ s \in Nat
  BY ReadersTyped DEF IInv, Reading, ReadsSound
<1>2. Ordered(w) /\ RowsStored(w) /\ w.sequence = s
  BY <1>1, IteratorIs
<1>3. PICK n, pos : Places(w, vs, n, pos)
  BY <1>1, <1>2, PlacesExist
<1> HIDE DEF w, vs
<1> DEFINE Look(c, i) == Sees(w, c, n, pos, i)
           Holds(c, i) == Shows(w, vs, c, i)
<1>4. /\ n \in Nat /\ DOMAIN vs = 1..n /\ vs = [i \in 1..n |-> vs[i]]
      /\ \A i \in 1..n : pos[i] \in Live(w) /\ w.list[pos[i]].sequence = vs[i]
  BY <1>3 DEF Places
<1>5. Len(vs) = n
  <2> DEFINE R == {vs[i] : i \in 1..n}
  <2>1. vs \in [1..n -> R]
    BY <1>4
  <2> QED
    BY <1>4, <2>1
<1>6. ASSUME NEW c, NEW i, Look(c, i) PROVE Holds(c, i)
  <2>1. CASE i \in 1..n
    <3>1. Facing(w, c, pos[i])
      BY <1>6, <2>1 DEF Sees
    <3>2. c.valid /\ Shown(c) = pos[i]
      BY <3>1 DEF Facing, Shown
    <3> QED
      BY <1>4, <2>1, <3>2 DEF Shows
  <2>2. CASE i \notin 1..n
    BY <1>4, <1>6, <2>2 DEF Sees, Shows
  <2> QED
    BY <2>1, <2>2
<1>7. Look(SeekToFirst(w), 1)
  BY <1>2, <1>3, FirstIs, SeesIs
<1>8. Look(SeekToLast(w), n)
  BY <1>2, <1>3, LastIs, SeesIs
<1>9. ASSUME NEW c, NEW i \in 1..n, Look(c, i)
       PROVE  Look(MoveNext(w, c), i + 1) /\ Look(MovePrev(w, c), i - 1)
  <2>1. Facing(w, c, pos[i])
    BY <1>9 DEF Sees
  <2>2. Ahead(w, MoveNext(w, c), {p \in Live(w) : p > pos[i]})
    BY <1>2, <2>1, MoveNextIs
  <2>3. Behind(w, MovePrev(w, c), {p \in Live(w) : p < pos[i]})
    BY <1>2, <2>1, MovePrevIs
  <2> QED
    BY <1>2, <1>3, <2>2, <2>3, SeesIs
<1>10. ASSUME NEW i \in 1..n
       PROVE  LET a == Seek(w, Key(vs[i]))
                  b == MovePrev(w, a)
              IN /\ Look(a, i) /\ Look(MoveNext(w, a), i + 1) /\ Look(b, i - 1)
                 /\ b.valid => Look(MovePrev(w, b), i - 2) /\ Look(MoveNext(w, b), i)
  <2> DEFINE a == Seek(w, Key(vs[i]))
             b == MovePrev(w, a)
  <2>1. RowKey(w, pos[i]) = Key(vs[i]) /\ Key(vs[i]) \in Nat
    <3>1. pos[i] \in 1..Size(w) /\ RowKey(w, pos[i]) \in Nat
      BY <1>2, <1>4, LiveIs
    <3> QED
      BY <1>2, <1>4, <3>1 DEF RowsStored
  <2>2. Ahead(w, a, {p \in Live(w) : RowKey(w, p) >= RowKey(w, pos[i])})
    BY <1>2, <2>1, SeekIs
  <2> HIDE DEF a
  <2>3. Look(a, i)
    BY <1>2, <1>3, <2>2, SeesIs
  <2>4. Look(MoveNext(w, a), i + 1) /\ Look(b, i - 1)
    BY <1>9, <2>3
  <2> HIDE DEF b
  <2>5. ASSUME b.valid PROVE Look(MovePrev(w, b), i - 2) /\ Look(MoveNext(w, b), i)
    <3>1. i - 1 \in 1..n /\ (i - 1) - 1 = i - 2 /\ (i - 1) + 1 = i
      BY <1>4, <2>4, <2>5 DEF Sees
    <3>2. Look(MovePrev(w, b), (i - 1) - 1) /\ Look(MoveNext(w, b), (i - 1) + 1)
      BY <1>9, <2>4, <3>1
    <3> QED
      BY <3>1, <3>2
  <2> QED
    BY <2>3, <2>4, <2>5 DEF a, b
<1>11. ASSUME NEW k \in Keys, NEW i \in 1..(n + 1), \A j \in 1..n : Key(vs[j]) < k <=> j < i
       PROVE  Look(Seek(w, k), i)
  <2>1. k \in Nat
    BY TreeAssumption
  <2>2. ASSUME NEW j \in 1..n PROVE RowKey(w, pos[j]) = Key(vs[j])
    <3>1. pos[j] \in 1..Size(w)
      BY <1>2, <1>4, LiveIs
    <3> QED
      BY <1>2, <1>4, <3>1 DEF RowsStored
  <2>3. Ahead(w, Seek(w, k), {p \in Live(w) : RowKey(w, p) >= k})
    BY <1>2, <2>1, SeekIs
  <2>4. \A j \in 1..n : RowKey(w, pos[j]) < k <=> j < i
    BY <1>11, <2>2
  <2> QED
    BY <1>2, <1>3, <2>1, <2>3, <2>4, SeesIs
<1> HIDE DEF Look
<1>12. Holds(SeekToFirst(w), 1) /\ Holds(SeekToLast(w), Len(vs))
  BY <1>5, <1>6, <1>7, <1>8
<1>13. ASSUME NEW i \in DOMAIN vs
       PROVE  LET a == Seek(w, Key(vs[i]))
                  b == MovePrev(w, a)
              IN /\ Holds(a, i) /\ Holds(MoveNext(w, a), i + 1) /\ Holds(b, i - 1)
                 /\ b.valid => Holds(MovePrev(w, b), i - 2) /\ Holds(MoveNext(w, b), i)
  <2> HIDE DEF Holds
  <2> QED
    BY <1>4, <1>6, <1>10
<1>14. ASSUME NEW k \in Keys, NEW i \in 1..(Len(vs) + 1), \A j \in DOMAIN vs : Key(vs[j]) < k <=> j < i
       PROVE  Holds(Seek(w, k), i)
  <2> HIDE DEF Holds
  <2> QED
    BY <1>4, <1>5, <1>6, <1>11, <1>14
<1> QED
  BY <1>12, <1>13, <1>14 DEF w, vs

-----------------------------------------------------------------------------
(* The theorems.                                                           *)

(* The invariant holds of whatever the writers, the readers that take and  *)
(* release snapshots, the flushes, the merges and CompactRange do.         *)
THEOREM Invariance == Spec => []IInv
BY InvInit, InvNext, PTL DEF Spec

(* Memtables, tables, levels and the work under way keep their types: a    *)
(* merge goes on with tables its version still has, and CompactRange stays *)
(* above the last level (BackgroundCompaction, TEST_CompactRange).         *)
THEOREM TypeCorrect == Spec => []TypeOK
<1>1. IInv => TypeOK
  <2> SUFFICES ASSUME IInv PROVE TypeOK
    OBVIOUS
  <2>1. work.busy => /\ work.level < LastLevel
                     /\ work.upper \subseteq levels[work.level]
                     /\ work.lower \subseteq levels[work.level + 1]
    BY TreeAssumption DEF IInv, WorkSound
  <2>2. manual.active => manual.level < manual.top /\ manual.top <= LastLevel
    BY DEF IInv, ManualSound
  <2> QED
    BY <2>1, <2>2 DEF IInv, TreeTyped, Tables, TypeOK
<1> QED
  BY <1>1, Invariance, PTL

(* Below level 0 no two tables of a level overlap (MaybeAddFile asserts    *)
(* it, FindFile relies on it), as long as no manual compaction has been    *)
(* overtaken by the flush of a memtable.                                   *)
THEOREM TablesApart == Spec => []LevelsDisjoint
<1>1. IInv => LevelsDisjoint
  <2> SUFFICES ASSUME IInv, "gap" \notin broken, NEW l \in 1..LastLevel,
                      NEW t \in levels[l], NEW u \in levels[l], t # u
               PROVE  Precedes(Largest(t), Smallest(u)) \/ Precedes(Largest(u), Smallest(t))
    BY DEF LevelsDisjoint, Disjoint
  <2>1. Apart(t, u)
    BY DEF IInv, LevelsApart, AllApart
  <2>2. l \in Levels
    BY TreeAssumption DEF Levels
  <2>3. TreeTyped /\ t \in Tables /\ u \in Tables
    BY <2>2, FiniteLevels DEF IInv
  <2> QED
    BY <2>1, <2>3, BeforeIs DEF Apart
<1> QED
  BY <1>1, Invariance, PTL

(* At every snapshot and now, Get returns the last write of the key        *)
(* (Version::Get stops at the first entry it finds), whatever flushes,     *)
(* merges and moves have done to its entries, as long as no merge has      *)
(* split a key and no flush has overtaken a manual compaction.             *)
THEOREM ReadsAreNewest == Spec => []GetIsNewest
<1>1. Init => IInv /\ Reading
  BY InvInit, ReadingInit
<1>2. IInv /\ Reading /\ [Next]_vars => (IInv /\ Reading)'
  BY InvNext, ReadingNext
<1>3. IInv /\ Reading => GetIsNewest
  BY ReadsRight
<1> QED
  BY <1>1, <1>2, <1>3, PTL DEF Spec

(* An iterator at any snapshot or now shows the last writes that have      *)
(* values, in the order of their keys, from either end, from any key on,   *)
(* and when it turns round, with the same exception.                       *)
THEOREM ScansAreNewest == Spec => []ScanIsNewest
<1>1. Init => IInv /\ Reading
  BY InvInit, ReadingInit
<1>2. IInv /\ Reading /\ [Next]_vars => (IInv /\ Reading)'
  BY InvNext, ReadingNext
<1>3. IInv /\ Reading => ScanIsNewest
  BY ScansRight
<1> QED
  BY <1>1, <1>2, <1>3, PTL DEF Spec
=============================================================================
