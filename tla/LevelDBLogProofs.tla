-------------------------- MODULE LevelDBLogProofs --------------------------
(***************************************************************************)
(* What the writer and the reader of a log compute, for any sizes of       *)
(* blocks and headers and any units. AddRecord, PhysicalRecords and the    *)
(* folds are recursive functions, so the first lemmas show that each has   *)
(* the values of its equation, and later ones reason along their           *)
(* arguments. The main results are that the reader is sound: in a log      *)
(* whose every fragment continues a record (Genuine), cut anywhere by a    *)
(* crash, it returns nothing but whole records of that log (ReadGenuine),  *)
(* what AddRecord appends keeps the log so (GenuineRecord), and what was   *)
(* read of a log is read of it when it is longer too (ReadLonger); and     *)
(* that nothing is lost: what AddRecord appends at the end of a log that   *)
(* can be read up to there is read (RecordRead).                           *)
(***************************************************************************)
EXTENDS LevelDBLog, DataLemmas, SequenceTheorems

(* A recursive function is a CHOOSE: that some function satisfies its      *)
(* equation is shown first, by taking ever more of its values from it.     *)

(* Three sequences are concatenated in either order; named, so that it is  *)
(* an instance of a lemma and not taken apart.                             *)
Associate(a, b, c) == (a \o b) \o c = a \o (b \o c)

(* Concatenation is associative.                                           *)
LEMMA AllAssociate == \A S : \A a, b, c \in Seq(S) : Associate(a, b, c)
BY ConcatAssociative DEF Associate

(* The concatenation of sequences, through the values on its way.          *)
Flattens(s, f) ==
  /\ \A i \in 1..Len(s) : f[i] = IF i = 1 THEN s[i] ELSE f[i - 1] \o s[i]
  /\ Len(s) # 0 => FlattenSeq(s) = f[Len(s)]

(* The recursion of FlattenSeq has the values of a function.               *)
LEMMA FlattenIs ==
  ASSUME NEW S, NEW s \in Seq(Seq(S))
  PROVE  \E f \in [1..Len(s) -> Seq(S)] : Flattens(s, f)
<1> DEFINE n == Len(s)
           Step(f, i) == IF i = 1 THEN s[i] ELSE f[i - 1] \o s[i]
           Flat(f) == f = [i \in 1..n |-> Step(f, i)]
<1>1. n \in Nat /\ \A i \in 1..n : s[i] \in Seq(S)
  OBVIOUS
<1>3. ASSUME NEW f, NEW i \in 1..n, \A j \in 1..n : j < i => f[j] \in Seq(S)
      PROVE  Step(f, i) \in Seq(S)
  <2>1. i # 1 => i - 1 \in 1..n /\ i - 1 < i
    BY <1>1
  <2> QED
    BY <1>1, <1>3, <2>1
<1>4. ASSUME NEW f, NEW g, NEW i \in 1..n, \A j \in 1..n : j < i => f[j] = g[j]
      PROVE  Step(f, i) = Step(g, i)
  <2>1. i # 1 => i - 1 \in 1..n /\ i - 1 < i
    BY <1>1
  <2> QED
    BY <1>4, <2>1
<1>5. n # 0 => FlattenSeq(s) = (CHOOSE f : Flat(f))[n]
  BY DEF FlattenSeq
<1>12. \A f, i : Step(f, i) = IF i = 1 THEN s[i] ELSE f[i - 1] \o s[i]
  OBVIOUS
<1> HIDE DEF Step
<1>6. \E f \in [1..n -> Seq(S)] : Flat(f)
  <2> DEFINE Upto(k) == \E f \in [1..n -> Seq(S)] : \A i \in 1..n : i <= k => f[i] = Step(f, i)
             T == {k \in Nat : Upto(k)}
  <2>1. 0 \in T
    <3>1. [i \in 1..n |-> <<>>] \in [1..n -> Seq(S)]
      OBVIOUS
    <3>2. Upto(0)
      BY <3>1, <1>1
    <3> QED
      BY <3>2
  <2>2. ASSUME NEW k \in T
        PROVE  k + 1 \in T
    <3>1. k \in Nat /\ Upto(k)
      OBVIOUS
    <3>2. PICK f \in [1..n -> Seq(S)] : \A i \in 1..n : i <= k => f[i] = Step(f, i)
      BY <3>1
    <3> DEFINE g == [i \in 1..n |-> IF i <= k + 1 THEN Step(f, i) ELSE <<>>]
    <3>3. g \in [1..n -> Seq(S)]
      <4> SUFFICES ASSUME NEW i \in 1..n, i <= k + 1 PROVE Step(f, i) \in Seq(S)
        OBVIOUS
      <4>1. \A j \in 1..n : j < i => f[j] \in Seq(S)
        OBVIOUS
      <4> QED
        BY <4>1, <1>3
    <3>4. \A i \in 1..n : i <= k + 1 => g[i] = Step(g, i)
      <4> SUFFICES ASSUME NEW i \in 1..n, i <= k + 1
                   PROVE  Step(f, i) = Step(g, i)
        OBVIOUS
      <4>1. \A j \in 1..n : j < i => f[j] = g[j]
        BY <1>1, <3>1, <3>2
      <4> HIDE DEF g
      <4> QED
        BY <4>1, <1>4
    <3> HIDE DEF g
    <3>5. Upto(k + 1)
      BY <3>3, <3>4
    <3> HIDE DEF Upto
    <3> QED
      BY <3>1, <3>5
  <2>3. n \in T
    <3> HIDE DEF T
    <3> QED
      BY <2>1, <2>2, <1>1, SetInduction
  <2>4. PICK f \in [1..n -> Seq(S)] : \A i \in 1..n : f[i] = Step(f, i)
    BY <2>3, <1>1
  <2>5. f = [i \in 1..n |-> Step(f, i)]
    BY <2>4
  <2> QED
    BY <2>5
<1> DEFINE flatten == CHOOSE f : Flat(f)
<1>7. Flat(flatten)
  <2> HIDE DEF Flat
  <2> QED
    BY <1>6
<1> HIDE DEF flatten
<1>8. \A i \in 1..n : flatten[i] = Step(flatten, i)
  BY <1>7
<1> DEFINE T == {k \in Nat : \A i \in 1..n : i <= k => flatten[i] \in Seq(S)}
<1>9. 0 \in T
  OBVIOUS
<1>10. ASSUME NEW k \in T
       PROVE  k + 1 \in T
  <2>1. k \in Nat
    OBVIOUS
  <2>2. ASSUME NEW i \in 1..n, i <= k + 1
        PROVE  flatten[i] \in Seq(S)
    <3>1. \A j \in 1..n : j < i => j <= k
      BY <1>1, <2>1, <2>2
    <3>2. \A j \in 1..n : j <= k => flatten[j] \in Seq(S)
      OBVIOUS
    <3> HIDE DEF T
    <3> QED
      BY <1>3, <1>8, <3>1, <3>2
  <2> QED
    BY <2>1, <2>2
<1>11. n \in T
  <2> HIDE DEF T
  <2> QED
    BY <1>1, <1>9, <1>10, SetInduction
<1>13. \A i \in 1..n : flatten[i] \in Seq(S)
  BY <1>11
<1>14. flatten = [i \in 1..n |-> flatten[i]]
  BY <1>7
<1>15. flatten \in [1..n -> Seq(S)]
  BY <1>13, <1>14
<1>16. Flattens(s, flatten)
  <2>1. n # 0 => FlattenSeq(s) = flatten[n]
    BY <1>5 DEF flatten
  <2> QED
    BY <1>8, <1>12, <2>1 DEF Flattens
<1> QED
  BY <1>15, <1>16

(* Sequences of S concatenated are a sequence of S.                        *)
LEMMA FlattenTyped ==
  ASSUME NEW S, NEW s \in Seq(Seq(S))
  PROVE  FlattenSeq(s) \in Seq(S)
<1>1. PICK f \in [1..Len(s) -> Seq(S)] : Flattens(s, f)
  BY FlattenIs
<1>2. CASE Len(s) = 0
  BY <1>2 DEF FlattenSeq
<1>3. CASE Len(s) # 0
  <2>1. Len(s) \in 1..Len(s)
    BY <1>3
  <2> QED
    BY <1>1, <1>3, <2>1 DEF Flattens
<1> QED
  BY <1>2, <1>3

(* Nothing concatenated is nothing.                                        *)
LEMMA FlattenEmpty == FlattenSeq(<<>>) = <<>>
BY DEF FlattenSeq

(* A sequence appended to many comes behind them all.                      *)
LEMMA FlattenSnoc ==
  ASSUME NEW S, NEW s \in Seq(Seq(S)), NEW x \in Seq(S)
  PROVE  FlattenSeq(Append(s, x)) = FlattenSeq(s) \o x
<1> DEFINE t == Append(s, x)
           n == Len(s)
<1>1. /\ t \in Seq(Seq(S)) /\ n \in Nat /\ Len(t) = n + 1 /\ t[n + 1] = x
      /\ \A i \in 1..n : t[i] = s[i]
  OBVIOUS
<1>2. PICK f \in [1..Len(s) -> Seq(S)] : Flattens(s, f)
  BY FlattenIs
<1> HIDE DEF t
<1>3. PICK g \in [1..Len(t) -> Seq(S)] : Flattens(t, g)
  BY <1>1, FlattenIs
<1> DEFINE T == {k \in Nat : \A i \in 1..n : i <= k => f[i] = g[i]}
<1>4. 0 \in T
  OBVIOUS
<1>5. ASSUME NEW k \in T
      PROVE  k + 1 \in T
  <2>1. k \in Nat /\ \A i \in 1..n : i <= k => f[i] = g[i]
    OBVIOUS
  <2>2. ASSUME NEW i \in 1..n, i = k + 1
        PROVE  f[i] = g[i]
    <3>1. f[i] = (IF i = 1 THEN s[i] ELSE f[i - 1] \o s[i])
      BY <1>2 DEF Flattens
    <3>4. i \in 1..Len(t)
      BY <1>1
    <3>2. g[i] = (IF i = 1 THEN t[i] ELSE g[i - 1] \o t[i])
      BY <1>3, <3>4 DEF Flattens
    <3>3. i # 1 => i - 1 \in 1..n /\ i - 1 <= k
      <4>1. n \in Nat /\ k \in Nat
        BY <1>1, <2>1
      <4> QED
        BY <2>2, <4>1
    <3>5. i # 1 => f[i - 1] = g[i - 1]
      BY <2>1, <3>3
    <3>6. s[i] = t[i]
      BY <1>1
    <3> QED
      BY <3>1, <3>2, <3>5, <3>6
  <2>3. \A i \in 1..n : i <= k + 1 => i <= k \/ i = k + 1
    BY <1>1, <2>1
  <2> QED
    BY <2>1, <2>2, <2>3
<1>6. n \in T
  <2> HIDE DEF T
  <2> QED
    BY <1>1, <1>4, <1>5, SetInduction
<1>7. FlattenSeq(t) = g[n + 1]
  BY <1>1, <1>3 DEF Flattens
<1>8. g[n + 1] = IF n + 1 = 1 THEN x ELSE g[n] \o x
  <2>1. n + 1 \in 1..Len(t) /\ (n + 1) - 1 = n
    BY <1>1
  <2> QED
    BY <1>1, <1>3, <2>1 DEF Flattens
<1>9. CASE n = 0
  <2>1. FlattenSeq(s) = <<>>
    BY <1>9 DEF FlattenSeq
  <2> QED
    BY <1>7, <1>8, <1>9, <2>1 DEF t
<1>10. CASE n # 0
  <2>1. n \in 1..n /\ n <= n /\ n + 1 # 1
    BY <1>1, <1>10
  <2>2. f[n] = g[n]
    BY <1>6, <2>1
  <2>3. FlattenSeq(s) = f[n]
    BY <1>2, <1>10 DEF Flattens
  <2> QED
    BY <1>7, <1>8, <2>1, <2>2, <2>3 DEF t
<1> QED
  BY <1>9, <1>10

(* A sequence put before many comes before them all.                       *)
LEMMA FlattenCons ==
  ASSUME NEW S, NEW s \in Seq(Seq(S)), NEW x \in Seq(S)
  PROVE  FlattenSeq(<<x>> \o s) = x \o FlattenSeq(s)
<1> DEFINE P(r) == FlattenSeq(<<x>> \o r) = x \o FlattenSeq(r)
           T == {k \in Nat : \A r \in Seq(Seq(S)) : Len(r) = k => P(r)}
<1>1. 0 \in T
  <2>1. ASSUME NEW r \in Seq(Seq(S)), Len(r) = 0
        PROVE  P(r)
    <3>1. r = <<>> /\ <<x>> \o r = Append(<<>>, x) /\ <<>> \in Seq(Seq(S))
      BY <2>1
    <3>2. FlattenSeq(Append(<<>>, x)) = FlattenSeq(<<>>) \o x
      BY <3>1, FlattenSnoc
    <3>3. x \o <<>> = x /\ <<>> \o x = x
      BY ConcatEmptySeq
    <3>4. FlattenSeq(<<x>> \o r) = x
      BY <3>1, <3>2, <3>3, FlattenEmpty
    <3>5. FlattenSeq(r) = <<>>
      BY <3>1, FlattenEmpty
    <3> QED
      BY <3>3, <3>4, <3>5
  <2> HIDE DEF P
  <2> QED
    BY <2>1
<1>2. ASSUME NEW k \in T
      PROVE  k + 1 \in T
  <2>1. k \in Nat /\ \A r \in Seq(Seq(S)) : Len(r) = k => P(r)
    OBVIOUS
  <2>2. ASSUME NEW r \in Seq(Seq(S)), Len(r) = k + 1
        PROVE  P(r)
    <3>1. PICK q \in Seq(Seq(S)), y \in Seq(S) : r = Append(q, y)
      <4>1. r # <<>>
        BY <2>1, <2>2
      <4> QED
        BY <4>1, SequenceEmptyOrAppend
    <3>2. Len(q) = k
      BY <2>1, <2>2, <3>1
    <3>3. FlattenSeq(<<x>> \o q) = x \o FlattenSeq(q)
      BY <2>1, <3>2
    <3>4. <<x>> \o q \in Seq(Seq(S)) /\ <<x>> \o r = Append(<<x>> \o q, y)
      BY <3>1
    <3>5. FlattenSeq(<<x>> \o r) = (x \o FlattenSeq(q)) \o y
      <4>1. ASSUME NEW z \in Seq(Seq(S))
            PROVE  FlattenSeq(Append(z, y)) = FlattenSeq(z) \o y
        BY FlattenSnoc
      <4>2. FlattenSeq(Append(<<x>> \o q, y)) = FlattenSeq(<<x>> \o q) \o y
        BY <3>4, <4>1, Zenon
      <4> QED
        BY <3>3, <3>4, <4>2
    <3>6. FlattenSeq(r) = FlattenSeq(q) \o y
      BY <3>1, FlattenSnoc
    <3>7. FlattenSeq(q) \in Seq(S)
      BY FlattenTyped
    <3>8. (x \o FlattenSeq(q)) \o y = x \o (FlattenSeq(q) \o y)
      <4>1. Associate(x, FlattenSeq(q), y)
        BY <3>7, AllAssociate, Zenon
      <4> QED
        BY <4>1 DEF Associate
    <3> QED
      BY <3>5, <3>6, <3>8
  <2> HIDE DEF P
  <2> QED
    BY <2>1, <2>2
<1>3. Len(s) \in T
  <2> HIDE DEF T
  <2> QED
    BY <1>1, <1>2, SetInduction, LenProperties
<1> QED
  BY <1>3

(* What was concatenated first is at the front.                            *)
LEMMA FlattenPrefix ==
  ASSUME NEW S, NEW s \in Seq(Seq(S)), NEW i \in 0..Len(s)
  PROVE  \E v \in Seq(S) : FlattenSeq(s) = FlattenSeq(SubSeq(s, 1, i)) \o v
<1> DEFINE n == Len(s)
           Flat(k) == FlattenSeq(SubSeq(s, 1, k))
           More(k) == i + k <= n => \E v \in Seq(S) : Flat(i + k) = Flat(i) \o v
           T == {k \in Nat : More(k)}
<1>1. n \in Nat /\ i \in Nat /\ i <= n /\ \A k \in 0..n : SubSeq(s, 1, k) \in Seq(Seq(S))
  OBVIOUS
<1>2. \A k \in 0..n : Flat(k) \in Seq(S)
  BY <1>1, FlattenTyped
<1>3. ASSUME NEW k \in 0..(n - 1)
      PROVE  s[k + 1] \in Seq(S) /\ Flat(k + 1) = Flat(k) \o s[k + 1]
  <2>1. k + 1 \in 1..n
    BY <1>1
  <2>2. SubSeq(s, 1, k + 1) = Append(SubSeq(s, 1, k), s[k + 1])
    BY <1>1, <2>1
  <2>3. s[k + 1] \in Seq(S) /\ SubSeq(s, 1, k) \in Seq(Seq(S))
    BY <1>1, <2>1
  <2> QED
    BY <2>2, <2>3, FlattenSnoc
<1>4. Flat(n) = FlattenSeq(s)
  BY SubSeqFull
<1>5. Flat(i) = FlattenSeq(SubSeq(s, 1, i))
  OBVIOUS
<1> HIDE DEF Flat, n
<1>6. More(0)
  <2>1. i + 0 = i /\ Flat(i) \in Seq(S) /\ <<>> \in Seq(S)
    BY <1>1, <1>2
  <2>2. Flat(i) = Flat(i) \o <<>>
    BY <2>1, ConcatEmptySeq
  <2> QED
    BY <2>1, <2>2
<1>7. ASSUME NEW k \in Nat, More(k)
      PROVE  More(k + 1)
  <2> SUFFICES ASSUME i + (k + 1) <= n
               PROVE  \E v \in Seq(S) : Flat(i + (k + 1)) = Flat(i) \o v
    OBVIOUS
  <2>7. i + k <= n
    BY <1>1
  <2>8. \E v \in Seq(S) : Flat(i + k) = Flat(i) \o v
    BY <1>7, <2>7, Zenon
  <2>1. PICK v \in Seq(S) : Flat(i + k) = Flat(i) \o v
    BY <2>8, Zenon
  <2>2. i + k \in 0..(n - 1) /\ i + (k + 1) = (i + k) + 1
    BY <1>1
  <2>3. s[(i + k) + 1] \in Seq(S) /\ Flat((i + k) + 1) = Flat(i + k) \o s[(i + k) + 1]
    BY <1>3, <2>2
  <2>4. Flat(i) \in Seq(S)
    BY <1>1, <1>2
  <2>5. (Flat(i) \o v) \o s[(i + k) + 1] = Flat(i) \o (v \o s[(i + k) + 1])
    <3>1. Associate(Flat(i), v, s[(i + k) + 1])
      BY <2>3, <2>4, AllAssociate, Zenon
    <3> HIDE DEF Flat
    <3> QED
      BY <3>1 DEF Associate
  <2>6. v \o s[(i + k) + 1] \in Seq(S)
    BY <2>3
  <2> QED
    BY <2>1, <2>2, <2>3, <2>5, <2>6
<1> HIDE DEF More
<1>8. Nat \subseteq T
  <2>1. 0 \in T
    BY <1>6
  <2>2. \A k \in Nat : k \in T => k + 1 \in T
    BY <1>7
  <2> HIDE DEF T
  <2> QED
    BY <2>1, <2>2, SetInduction
<1>9. More(n - i)
  BY <1>1, <1>8
<1>10. i + (n - i) = n
  BY <1>1
<1>11. \E v \in Seq(S) : Flat(n) = Flat(i) \o v
  <2>1. i + (n - i) <= n
    BY <1>1
  <2>2. \E v \in Seq(S) : Flat(i + (n - i)) = Flat(i) \o v
    BY <1>9, <2>1, Zenon DEF More
  <2> QED
    BY <1>10, <2>2, Zenon
<1> QED
  BY <1>4, <1>5, <1>11, Zenon

(* What a header says, over the data of E.                                 *)
Headers(E) == [type : {"zero", "full", "first", "middle", "last", "bad"}, data : Seq(E)]

(* The greatest of bounded naturals, as the code model takes it.           *)
LEMMA MaxOf ==
  ASSUME NEW T, T \subseteq Nat, T # {}, NEW b \in Nat, \A x \in T : x <= b
  PROVE  Max(T) \in T /\ \A x \in T : x <= Max(T)
<1>1. PICK m \in T : \A x \in T : x <= m
  BY GreatestOf
<1>2. \A x \in T : m >= x
  BY <1>1
<1>3. Max(T) \in T /\ \A x \in T : Max(T) >= x
  BY <1>2 DEF Max
<1> QED
  BY <1>3

(* The least of some naturals.                                             *)
LEMMA MinOf ==
  ASSUME NEW T, T \subseteq Nat, T # {}
  PROVE  Min(T) \in T /\ \A x \in T : Min(T) <= x
<1>1. \E m \in T : \A x \in T : m <= x
  BY LeastOf
<1> QED
  BY <1>1 DEF Min

(* What ReadRecords collects from a file's physical records.               *)
Collected(E) == [whole : Seq(Seq(E)), inside : BOOLEAN, scratch : Seq(E)]
None == [whole |-> <<>>, inside |-> FALSE, scratch |-> <<>>]
Take(acc, unit) ==
  CASE unit.type = "full" ->
         [acc EXCEPT !.whole = Append(@, unit.data), !.inside = FALSE]
    [] unit.type = "first" -> [acc EXCEPT !.inside = TRUE, !.scratch = unit.data]
    [] unit.type = "middle" /\ acc.inside -> [acc EXCEPT !.scratch = @ \o unit.data]
    [] unit.type = "last" /\ acc.inside ->
         [acc EXCEPT !.whole = Append(@, acc.scratch \o unit.data), !.inside = FALSE]
    [] unit.type = "bad" -> [acc EXCEPT !.inside = FALSE]
    [] OTHER -> acc

(* The step of the reader keeps the type of what it collects.              *)
LEMMA TakeTyped ==
  ASSUME NEW E, NEW acc \in Collected(E), NEW unit \in Headers(E)
  PROVE  Take(acc, unit) \in Collected(E)
<1>1. unit.data \in Seq(E) /\ acc.scratch \o unit.data \in Seq(E)
  BY DEF Headers, Collected
<1>2. Append(acc.whole, unit.data) \in Seq(Seq(E))
      /\ Append(acc.whole, acc.scratch \o unit.data) \in Seq(Seq(E))
  BY <1>1 DEF Collected
<1> QED
  BY <1>1, <1>2 DEF Take, Collected

(* A fold of Take over the sequence s, from the left, as FoldLeft does it  *)
(* and through the values on its way.                                      *)
Fold(base, s) ==
  (CHOOSE iter : iter =
     [S \in SUBSET DOMAIN s |->
        IF S = {} THEN base ELSE Take(iter[S \ {Max(S)}], s[Max(S)])])[DOMAIN s]
Collects(base, s, f) ==
  /\ f[0] = base /\ \A i \in 1..Len(s) : f[i] = Take(f[i - 1], s[i])
  /\ Fold(base, s) = f[Len(s)]

(* The recursion of the fold has the values of a function.                 *)
LEMMA FoldIs ==
  ASSUME NEW E, NEW s \in Seq(Headers(E)), NEW base \in Collected(E)
  PROVE  \E f \in [0..Len(s) -> Collected(E)] : Collects(base, s, f)
<1> DEFINE n == Len(s)
           Dom == SUBSET DOMAIN s
           C == Collected(E)
           Step(f, S) == IF S = {} THEN base ELSE Take(f[S \ {Max(S)}], s[Max(S)])
           Folds(f) == f = [S \in Dom |-> Step(f, S)]
           Within(k, S) == S \subseteq 1..k
<1>1. n \in Nat /\ DOMAIN s = 1..n /\ \A i \in 1..n : s[i] \in Headers(E)
  OBVIOUS
<1>2. base \in C
  OBVIOUS
<1>3. ASSUME NEW k \in Nat, NEW S \in Dom, Within(k + 1, S), S # {}
      PROVE  Max(S) \in DOMAIN s /\ S \ {Max(S)} \in Dom /\ Within(k, S \ {Max(S)})
  <2>1. S \subseteq Nat /\ n \in Nat /\ \A x \in S : x <= n
    BY <1>1
  <2>2. Max(S) \in S /\ \A x \in S : x <= Max(S)
    BY <1>3, <2>1, MaxOf
  <2>3. \A x \in S \ {Max(S)} : x \in 1..k
    BY <1>3, <2>1, <2>2
  <2> QED
    BY <1>3, <2>2, <2>3
<1>4. ASSUME NEW f, NEW k \in Nat, \A R \in Dom : Within(k, R) => f[R] \in C,
             NEW S \in Dom, Within(k + 1, S)
      PROVE  Step(f, S) \in C
  <2>1. CASE S = {}
    BY <1>2, <2>1
  <2>2. CASE S # {}
    <3>1. f[S \ {Max(S)}] \in C /\ s[Max(S)] \in Headers(E)
      BY <1>1, <1>3, <1>4, <2>2
    <3>2. Take(f[S \ {Max(S)}], s[Max(S)]) \in C
      BY <3>1, TakeTyped
    <3> QED
      BY <2>2, <3>2
  <2> QED
    BY <2>1, <2>2
<1>5. ASSUME NEW f, NEW g, NEW k \in Nat, \A R \in Dom : Within(k, R) => f[R] = g[R],
             NEW S \in Dom, Within(k + 1, S)
      PROVE  Step(f, S) = Step(g, S)
  <2>1. S # {} => f[S \ {Max(S)}] = g[S \ {Max(S)}]
    BY <1>3, <1>5
  <2> QED
    BY <2>1
<1>6. \A k \in Nat, S \in Dom : Within(k, S) => Within(k + 1, S)
  OBVIOUS
<1>7. \A S \in Dom : Within(n, S) /\ (Within(0, S) => S = {})
  BY <1>1
<1>15. \A f : Step(f, {}) = base
  OBVIOUS
<1>16. ASSUME NEW f, NEW i \in 1..n
       PROVE  1..i \in Dom /\ 1..(i - 1) \in Dom /\ Step(f, 1..i) = Take(f[1..(i - 1)], s[i])
  <2>5. 1..i \subseteq 1..n /\ 1..(i - 1) \subseteq 1..n /\ i \in 1..i
    BY <1>1
  <2>6. 1..i \in Dom /\ 1..(i - 1) \in Dom
    BY <1>1, <2>5
  <2>1. 1..i # {} /\ 1..i \subseteq Nat /\ \A x \in 1..i : x <= n
    BY <1>1, <2>5
  <2>2. Max(1..i) \in 1..i /\ \A x \in 1..i : x <= Max(1..i)
    BY <1>1, <2>1, MaxOf
  <2>3. Max(1..i) = i
    BY <2>2
  <2>4. (1..i) \ {i} = 1..(i - 1)
    OBVIOUS
  <2> QED
    BY <1>1, <2>1, <2>3, <2>4, <2>6
<1> DEFINE fold == CHOOSE f : Folds(f)
<1>8. \A f : \A S \in Dom : S = {} => Step(f, S) = base
  OBVIOUS
<1> HIDE DEF Step, Within, Dom, C
<1>9. \E f : Folds(f)
  <2> DEFINE Upto(k) == \E f \in [Dom -> C] : \A S \in Dom : Within(k, S) => f[S] = Step(f, S)
             T == {k \in Nat : Upto(k)}
  <2>1. 0 \in T
    <3>1. [S \in Dom |-> base] \in [Dom -> C]
      BY <1>2
    <3>2. Upto(0)
      BY <1>7, <1>8, <3>1
    <3> QED
      BY <3>2
  <2>2. ASSUME NEW k \in T
        PROVE  k + 1 \in T
    <3>1. k \in Nat /\ Upto(k)
      OBVIOUS
    <3>2. PICK f \in [Dom -> C] : \A S \in Dom : Within(k, S) => f[S] = Step(f, S)
      BY <3>1
    <3> DEFINE g == [S \in Dom |-> IF Within(k + 1, S) THEN Step(f, S) ELSE base]
    <3>3. g \in [Dom -> C]
      BY <1>2, <1>4, <3>1
    <3>4. \A S \in Dom : Within(k + 1, S) => g[S] = Step(g, S)
      <4> SUFFICES ASSUME NEW S \in Dom, Within(k + 1, S)
                   PROVE  Step(f, S) = Step(g, S)
        OBVIOUS
      <4>1. \A R \in Dom : Within(k, R) => f[R] = g[R]
        BY <1>6, <3>1, <3>2
      <4> HIDE DEF g
      <4> QED
        BY <1>5, <3>1, <4>1
    <3> HIDE DEF g
    <3>5. Upto(k + 1)
      BY <3>3, <3>4
    <3> HIDE DEF Upto
    <3> QED
      BY <3>1, <3>5
  <2>3. n \in T
    <3> HIDE DEF T
    <3> QED
      BY <1>1, <2>1, <2>2, SetInduction
  <2>4. PICK f \in [Dom -> C] : \A S \in Dom : f[S] = Step(f, S)
    BY <1>7, <2>3
  <2>5. f = [S \in Dom |-> Step(f, S)]
    BY <2>4
  <2> QED
    BY <2>5
<1>10. Folds(fold)
  <2> HIDE DEF Folds
  <2> QED
    BY <1>9
<1>17. Fold(base, s) = fold[DOMAIN s]
  BY DEF Fold, fold, Step, Dom
<1> HIDE DEF fold
<1> DEFINE T == {k \in Nat : \A S \in Dom : Within(k, S) => fold[S] \in C}
<1>11. 0 \in T
  BY <1>2, <1>7, <1>8, <1>10
<1>12. ASSUME NEW k \in T
       PROVE  k + 1 \in T
  <2>1. k \in Nat /\ \A S \in Dom : Within(k, S) => fold[S] \in C
    OBVIOUS
  <2>2. \A S \in Dom : fold[S] = Step(fold, S)
    BY <1>10
  <2>3. \A S \in Dom : Within(k + 1, S) => fold[S] \in C
    BY <1>4, <2>1, <2>2
  <2> QED
    BY <2>1, <2>3
<1>13. n \in T
  <2> HIDE DEF T
  <2> QED
    BY <1>1, <1>11, <1>12, SetInduction
<1>14. \A S \in Dom : fold[S] \in C /\ fold[S] = Step(fold, S)
  BY <1>7, <1>10, <1>13
<1> DEFINE f == [i \in 0..n |-> fold[1..i]]
<1>18. \A i \in 0..n : 1..i \in Dom
  <2>1. \A i \in 0..n : 1..i \subseteq 1..n
    BY <1>1
  <2> QED
    BY <1>1, <2>1 DEF Dom
<1>19. f \in [0..n -> C]
  BY <1>14, <1>18
<1>20. f[0] = base
  <2>1. 1..0 = {} /\ 0 \in 0..n
    BY <1>1
  <2> QED
    BY <1>14, <1>15, <1>18, <2>1
<1>21. ASSUME NEW i \in 1..n
       PROVE  f[i] = Take(f[i - 1], s[i])
  <2>1. i \in 0..n /\ i - 1 \in 0..n
    BY <1>1
  <2>2. fold[1..i] = Step(fold, 1..i)
    BY <1>14, <1>18, <2>1
  <2> QED
    BY <1>16, <2>1, <2>2
<1>22. Fold(base, s) = f[n]
  <2>1. n \in 0..n
    BY <1>1
  <2> QED
    BY <1>1, <1>17, <2>1
<1> HIDE DEF f
<1> QED
  BY <1>19, <1>20, <1>21, <1>22 DEF C, Collects

(* The fold keeps the type of what it collects.                            *)
LEMMA FoldTyped ==
  ASSUME NEW E, NEW s \in Seq(Headers(E)), NEW base \in Collected(E)
  PROVE  Fold(base, s) \in Collected(E)
<1>1. PICK f \in [0..Len(s) -> Collected(E)] : Collects(base, s, f)
  BY FoldIs
<1>2. Len(s) \in 0..Len(s)
  OBVIOUS
<1> QED
  BY <1>1, <1>2 DEF Collects

(* What the reader starts with has its type.                               *)
LEMMA NoneTyped == ASSUME NEW E PROVE None \in Collected(E)
BY DEF None, Collected

(* Folding nothing leaves the start alone.                                 *)
LEMMA FoldEmpty ==
  ASSUME NEW E, NEW base \in Collected(E)
  PROVE  Fold(base, <<>>) = base
<1>1. <<>> \in Seq(Headers(E)) /\ Len(<<>>) = 0
  OBVIOUS
<1>2. PICK f : Collects(base, <<>>, f)
  BY <1>1, FoldIs
<1> QED
  BY <1>1, <1>2 DEF Collects

(* The last fragment is taken last.                                        *)
LEMMA FoldSnoc ==
  ASSUME NEW E, NEW s \in Seq(Headers(E)), NEW base \in Collected(E), NEW x \in Headers(E)
  PROVE  Fold(base, Append(s, x)) = Take(Fold(base, s), x)
<1> DEFINE t == Append(s, x)
           n == Len(s)
<1>1. /\ t \in Seq(Headers(E)) /\ n \in Nat /\ Len(t) = n + 1 /\ t[n + 1] = x
      /\ \A i \in 1..n : t[i] = s[i]
  OBVIOUS
<1>2. PICK f : Collects(base, s, f)
  BY FoldIs
<1> HIDE DEF t
<1>3. PICK g : Collects(base, t, g)
  BY <1>1, FoldIs
<1> DEFINE T == {k \in Nat : k <= n => f[k] = g[k]}
<1>4. 0 \in T
  BY <1>2, <1>3 DEF Collects
<1>5. ASSUME NEW k \in T
      PROVE  k + 1 \in T
  <2>1. k \in Nat
    OBVIOUS
  <2>2. ASSUME k + 1 <= n
        PROVE  f[k + 1] = g[k + 1]
    <3>1. k <= n /\ k + 1 \in 1..n /\ k + 1 \in 1..(n + 1) /\ (k + 1) - 1 = k
      BY <1>1, <2>1, <2>2
    <3>2. f[k + 1] = Take(f[k], s[k + 1])
      BY <1>2, <3>1 DEF Collects
    <3>3. g[k + 1] = Take(g[k], t[k + 1])
      BY <1>1, <1>3, <3>1 DEF Collects
    <3> QED
      BY <1>1, <3>1, <3>2, <3>3
  <2> QED
    BY <2>1, <2>2
<1>6. n \in T
  <2> HIDE DEF T
  <2> QED
    BY <1>1, <1>4, <1>5, SetInduction
<1>7. f[n] = g[n] /\ (n + 1) - 1 = n /\ n + 1 \in 1..(n + 1)
  BY <1>1, <1>6
<1>8. g[n + 1] = Take(g[n], x)
  BY <1>1, <1>3, <1>7 DEF Collects
<1> QED
  BY <1>1, <1>2, <1>3, <1>7, <1>8 DEF Collects, t

(* The first fragment is taken first.                                      *)
LEMMA FoldCons ==
  ASSUME NEW E, NEW s \in Seq(Headers(E)), NEW base \in Collected(E), NEW x \in Headers(E)
  PROVE  Fold(base, <<x>> \o s) = Fold(Take(base, x), s)
<1> DEFINE H == Headers(E)
           P(r) == Fold(base, <<x>> \o r) = Fold(Take(base, x), r)
           T == {k \in Nat : \A r \in Seq(H) : Len(r) = k => P(r)}
<1>1. Take(base, x) \in Collected(E) /\ <<>> \in Seq(H) /\ x \in H
  BY TakeTyped
<1>2. ASSUME NEW r \in Seq(H), Len(r) = 0
      PROVE  P(r)
  <2>1. r = <<>> /\ <<x>> \o r = Append(<<>>, x)
    BY <1>2
  <2>2. Fold(base, Append(<<>>, x)) = Take(Fold(base, <<>>), x)
    BY <1>1, FoldSnoc
  <2>3. Fold(base, <<>>) = base /\ Fold(Take(base, x), <<>>) = Take(base, x)
    BY <1>1, FoldEmpty
  <2> QED
    BY <2>1, <2>2, <2>3
<1>3. ASSUME NEW k \in Nat, \A r \in Seq(H) : Len(r) = k => P(r), NEW r \in Seq(H), Len(r) = k + 1
      PROVE  P(r)
  <2>1. PICK q \in Seq(H), y \in H : r = Append(q, y)
    <3>1. r # <<>>
      BY <1>3
    <3> QED
      BY <3>1, SequenceEmptyOrAppend
  <2>2. Len(q) = k
    BY <1>3, <2>1
  <2>3. Fold(base, <<x>> \o q) = Fold(Take(base, x), q)
    BY <1>3, <2>2
  <2>4. <<x>> \o q \in Seq(H) /\ <<x>> \o r = Append(<<x>> \o q, y)
    BY <2>1
  <2>5. Fold(base, <<x>> \o r) = Take(Fold(base, <<x>> \o q), y)
    BY <2>4, FoldSnoc
  <2>6. Fold(Take(base, x), r) = Take(Fold(Take(base, x), q), y)
    BY <1>1, <2>1, FoldSnoc
  <2> QED
    BY <2>3, <2>5, <2>6
<1> HIDE DEF P
<1>4. 0 \in T
  BY <1>2
<1>5. ASSUME NEW k \in T
      PROVE  k + 1 \in T
  BY <1>3
<1>6. Len(s) \in T
  <2> HIDE DEF T
  <2> QED
    BY <1>4, <1>5, SetInduction, LenProperties
<1>7. P(s)
  BY <1>6
<1> QED
  BY <1>7 DEF P

(* What PhysicalRecords finds from a place in the file on.                 *)
BlockEnd(file, at) == Least(Len(file), at - (at % BlockSize) + BlockSize)
FragmentEnd(file, at) == at + HeaderSize + Len(file[at + 1].data)
Intact(file, at) ==
  /\ "type" \in DOMAIN file[at + 1]
  /\ file[at + 1].type # "zero" /\ FragmentEnd(file, at) <= BlockEnd(file, at)
  /\ SubSeq(file, at + 1, FragmentEnd(file, at))
       = PhysicalRecord(file[at + 1].type, file[at + 1].data)
Bad == Header("bad", <<>>)
ParseStep(file, f, at) ==
  IF at = Len(file) THEN <<>>
  ELSE IF BlockEnd(file, at) - at < HeaderSize THEN f[BlockEnd(file, at)]
  ELSE IF Intact(file, at) THEN <<file[at + 1]>> \o f[FragmentEnd(file, at)]
                           ELSE <<Bad>> \o f[BlockEnd(file, at)]
ParseOf(file) == CHOOSE f : f = [at \in 0..Len(file) |-> ParseStep(file, f, at)]

(* A block ends after each place in the file.                              *)
LEMMA BlockEnds ==
  ASSUME NEW file, Len(file) \in Nat, NEW at \in 0..Len(file), at < Len(file)
  PROVE  BlockEnd(file, at) \in 0..Len(file) /\ at < BlockEnd(file, at)
<1>1. BlockSize \in Nat \ {0}
  BY LogAssumption
<1>2. at % BlockSize \in 0..(BlockSize - 1)
  BY <1>1
<1> QED
  BY <1>1, <1>2 DEF Least, BlockEnd

(* An intact fragment ends in its block, behind its header.                *)
LEMMA FragmentEnds ==
  ASSUME NEW E, \A e \in E : "type" \notin DOMAIN e, NEW file \in Seq(E \cup Headers(E)),
         NEW at \in 0..Len(file), at < Len(file), Intact(file, at)
  PROVE  /\ file[at + 1] \in Headers(E)
         /\ FragmentEnd(file, at) \in 0..Len(file) /\ at + HeaderSize <= FragmentEnd(file, at)
         /\ at < FragmentEnd(file, at) /\ FragmentEnd(file, at) <= BlockEnd(file, at)
<1> DEFINE n == Len(file)
<1>1. n \in Nat /\ HeaderSize \in Nat \ {0}
  BY LogAssumption
<1>2. file[at + 1] \in E \cup Headers(E)
  BY <1>1
<1>3. file[at + 1] \in Headers(E)
  BY <1>2 DEF Intact
<1>4. Len(file[at + 1].data) \in Nat
  BY <1>3 DEF Headers
<1>5. FragmentEnd(file, at) <= BlockEnd(file, at) /\ BlockEnd(file, at) \in 0..n
  BY <1>1, BlockEnds DEF Intact
<1>6. FragmentEnd(file, at) \in Nat /\ at < FragmentEnd(file, at)
      /\ at + HeaderSize <= FragmentEnd(file, at)
  <2>1. \A k \in Nat : at + HeaderSize + k \in Nat /\ at < at + HeaderSize + k
                       /\ at + HeaderSize <= at + HeaderSize + k
    BY <1>1
  <2> QED
    BY <1>4, <2>1 DEF FragmentEnd
<1> QED
  BY <1>1, <1>3, <1>5, <1>6

(* The recursion of PhysicalRecords has the values of a function.          *)
LEMMA ParseIs ==
  ASSUME NEW E, \A e \in E : "type" \notin DOMAIN e, NEW file \in Seq(E \cup Headers(E))
  PROVE  /\ PhysicalRecords(file) = ParseOf(file)[0]
         /\ \A at \in 0..Len(file) :
              /\ ParseOf(file)[at] = ParseStep(file, ParseOf(file), at)
              /\ ParseOf(file)[at] \in Seq(Headers(E))
<1> DEFINE n == Len(file)
           F == Seq(Headers(E))
           Step(f, at) == ParseStep(file, f, at)
           Parse(f) == f = [at \in 0..n |-> Step(f, at)]
<1>1. n \in Nat /\ BlockSize \in Nat \ {0} /\ HeaderSize \in Nat \ {0}
  BY LogAssumption
<1>2. ASSUME NEW at \in 0..n, at < n
      PROVE  BlockEnd(file, at) \in 0..n /\ at < BlockEnd(file, at)
  BY <1>1, <1>2, BlockEnds
<1>3. ASSUME NEW at \in 0..n, at < n, Intact(file, at)
      PROVE  /\ file[at + 1] \in Headers(E)
             /\ FragmentEnd(file, at) \in 0..n /\ at < FragmentEnd(file, at)
  BY <1>3, FragmentEnds
<1>4. Bad \in Headers(E)
  BY DEF Bad, Header, Headers
<1>5. ASSUME NEW f, NEW at \in 0..n, \A j \in 0..n : at < j => f[j] \in F
      PROVE  Step(f, at) \in F
  <2>1. CASE at = n
    BY <2>1 DEF ParseStep
  <2>3. at = n \/ at < n
    BY <1>1
  <2>2. CASE at < n
    <3>1. f[BlockEnd(file, at)] \in F
      BY <1>2, <1>5, <2>2
    <3>2. Intact(file, at) => f[FragmentEnd(file, at)] \in F /\ file[at + 1] \in Headers(E)
      BY <1>3, <1>5, <2>2
    <3>3. BlockEnd(file, at) \in Int
      BY <1>2, <2>2
    <3> QED
      BY <1>1, <1>4, <2>2, <3>1, <3>2, <3>3 DEF ParseStep
  <2> QED
    BY <2>1, <2>2, <2>3
<1>6. ASSUME NEW f, NEW g, NEW at \in 0..n, \A j \in 0..n : at < j => f[j] = g[j]
      PROVE  Step(f, at) = Step(g, at)
  <2>1. CASE at = n
    BY <2>1 DEF ParseStep
  <2>2. CASE at < n
    <3>1. f[BlockEnd(file, at)] = g[BlockEnd(file, at)]
      BY <1>2, <1>6, <2>2
    <3>2. Intact(file, at) => f[FragmentEnd(file, at)] = g[FragmentEnd(file, at)]
      BY <1>3, <1>6, <2>2
    <3> QED
      BY <2>2, <3>1, <3>2 DEF ParseStep
  <2>3. at = n \/ at < n
    BY <1>1
  <2> HIDE DEF Step
  <2> QED
    BY <2>1, <2>2, <2>3
<1>7. PhysicalRecords(file) = ParseOf(file)[0]
  BY DEF PhysicalRecords, ParseOf, ParseStep, BlockEnd, FragmentEnd, Intact, Bad
<1>13. \A f, at : Step(f, at) = ParseStep(file, f, at)
  OBVIOUS
<1>14. ParseOf(file) = CHOOSE f : Parse(f)
  BY DEF ParseOf
<1> HIDE DEF Step
<1>8. \E f : Parse(f)
  <2> DEFINE Upto(k) == \E f \in [0..n -> F] :
                          \A at \in 0..n : n - at <= k => f[at] = Step(f, at)
             T == {k \in Nat : Upto(k)}
  <2>1. 0 \in T
    <3> DEFINE f == [at \in 0..n |-> Step([j \in 0..n |-> <<>>], at)]
    <3>1. \A at \in 0..n : n - at <= 0 => f[at] = Step(f, at)
      <4> SUFFICES ASSUME NEW at \in 0..n, n - at <= 0
                   PROVE  f[at] = Step(f, at)
        OBVIOUS
      <4>1. \A j \in 0..n : at < j => [i \in 0..n |-> <<>>][j] = f[j]
        BY <1>1
      <4> QED
        BY <4>1, <1>6
    <3>2. f \in [0..n -> F]
      BY <1>5
    <3> HIDE DEF f
    <3>3. Upto(0)
      BY <3>1, <3>2
    <3> QED
      BY <3>3
  <2>2. ASSUME NEW k \in T
        PROVE  k + 1 \in T
    <3>1. k \in Nat /\ Upto(k)
      OBVIOUS
    <3>2. PICK f \in [0..n -> F] : \A at \in 0..n : n - at <= k => f[at] = Step(f, at)
      BY <3>1
    <3> DEFINE g == [at \in 0..n |-> Step(f, at)]
    <3>3. g \in [0..n -> F]
      BY <1>5
    <3>4. \A at \in 0..n : n - at <= k + 1 => g[at] = Step(g, at)
      <4> SUFFICES ASSUME NEW at \in 0..n, n - at <= k + 1
                   PROVE  Step(f, at) = Step(g, at)
        OBVIOUS
      <4>1. \A j \in 0..n : at < j => f[j] = g[j]
        BY <1>1, <3>1, <3>2
      <4> QED
        BY <4>1, <1>6
    <3> HIDE DEF g
    <3>5. Upto(k + 1)
      BY <3>3, <3>4
    <3> HIDE DEF Upto
    <3> QED
      BY <3>1, <3>5
  <2>3. n \in T
    <3> HIDE DEF T
    <3> QED
      BY <2>1, <2>2, <1>1, SetInduction
  <2>4. PICK f \in [0..n -> F] : \A at \in 0..n : f[at] = Step(f, at)
    BY <2>3, <1>1
  <2>5. f = [at \in 0..n |-> Step(f, at)]
    BY <2>4
  <2> QED
    BY <2>5
<1> DEFINE parse == ParseOf(file)
<1>9. Parse(parse)
  <2> HIDE DEF Parse
  <2> QED
    BY <1>8, <1>14
<1> HIDE DEF parse
<1>15. \A at \in 0..n : parse[at] = Step(parse, at)
  BY <1>9
<1> DEFINE T == {k \in Nat : \A at \in 0..n : n - at <= k => parse[at] \in F}
<1>10. 0 \in T
  <2> SUFFICES ASSUME NEW at \in 0..n, n - at <= 0
               PROVE  parse[at] \in F
    OBVIOUS
  <2>1. parse[at] = Step(parse, at) /\ \A j \in 0..n : at < j => parse[j] \in F
    BY <1>1, <1>9
  <2> HIDE DEF F
  <2> QED
    BY <2>1, <1>5
<1>11. ASSUME NEW k \in T
       PROVE  k + 1 \in T
  <2>0. k \in Nat
    OBVIOUS
  <2> SUFFICES ASSUME NEW at \in 0..n, n - at <= k + 1
               PROVE  parse[at] \in F
    BY <2>0
  <2>1. \A j \in 0..n : at < j => n - j <= k
    BY <1>1, <2>0
  <2>2. \A j \in 0..n : n - j <= k => parse[j] \in F
    OBVIOUS
  <2>3. parse[at] = Step(parse, at)
    BY <1>9
  <2> HIDE DEF F, T
  <2> QED
    BY <1>5, <2>1, <2>2, <2>3
<1>12. n \in T
  <2> HIDE DEF T
  <2> QED
    BY <1>10, <1>11, <1>1, SetInduction
<1>16. \A at \in 0..n : parse[at] \in F
  BY <1>1, <1>12
<1> QED
  BY <1>7, <1>13, <1>15, <1>16 DEF parse

(* What is read of a log of entries and headers are fragments.             *)
LEMMA RecordsTyped ==
  ASSUME NEW E, \A e \in E : "type" \notin DOMAIN e, NEW file \in Seq(E \cup Headers(E))
  PROVE  PhysicalRecords(file) \in Seq(Headers(E))
<1>1. 0 \in 0..Len(file)
  OBVIOUS
<1> QED
  BY <1>1, ParseIs

(* The records of a file are those collected from its physical records.    *)
LEMMA ReadIs ==
  ASSUME NEW file
  PROVE  ReadRecords(file) = Fold(None, PhysicalRecords(file)).whole
<1> DEFINE s == PhysicalRecords(file)
<1> QED
  BY DEF ReadRecords, FoldLeft, MapThenFoldSet, None, Take, Fold

(* Recovery reads records of the data in the file's headers.               *)
LEMMA ReadTyped ==
  ASSUME NEW E, \A e \in E : "type" \notin DOMAIN e, NEW file \in Seq(E \cup Headers(E))
  PROVE  ReadRecords(file) \in Seq(Seq(E))
<1>1. PhysicalRecords(file) \in Seq(Headers(E)) /\ None \in Collected(E)
  BY RecordsTyped, NoneTyped
<1>2. Fold(None, PhysicalRecords(file)) \in Collected(E)
  BY <1>1, FoldTyped
<1> QED
  BY <1>2, ReadIs DEF Collected

(* Where the writer of a record stands, and the fragment it emits next.    *)
EmitStates(record) == [offset : 0..BlockSize, done : 0..Len(record), begin : BOOLEAN]
Leftover(s) == BlockSize - s.offset
Trailer(s) == IF Leftover(s) < HeaderSize THEN Leftover(s) ELSE 0
Start(s) == IF Leftover(s) < HeaderSize THEN 0 ELSE s.offset
Taken(record, s) == Least(Len(record) - s.done, BlockSize - Start(s) - HeaderSize)
Ends(record, s) == s.done + Taken(record, s) = Len(record)
FragmentKind(record, s) == FragmentType(s.begin, Ends(record, s))
FragmentData(record, s) == SubSeq(record, s.done + 1, s.done + Taken(record, s))
Fragment(record, s) ==
  Zeros(Trailer(s)) \o PhysicalRecord(FragmentKind(record, s), FragmentData(record, s))
Later(record, s) ==
  [offset |-> Start(s) + HeaderSize + Taken(record, s), done |-> s.done + Taken(record, s),
   begin |-> FALSE]
EmitStep(record, f, s) ==
  <<Fragment(record, s)>> \o IF Ends(record, s) THEN <<>> ELSE f[Later(record, s)]
EmitOf(record) == CHOOSE f : f = [s \in EmitStates(record) |-> EmitStep(record, f, s)]
Beginning(offset) == [offset |-> offset, done |-> 0, begin |-> TRUE]
EmitMeasure(record, s) ==
  2 * (Len(record) - s.done) + (IF Leftover(s) = HeaderSize THEN 1 ELSE 0)

(* What a step of AddRecord writes fits the block and the record.          *)
LEMMA EmitFacts ==
  ASSUME NEW E, NEW record \in Seq(E), NEW s \in EmitStates(record)
  PROVE  /\ Taken(record, s) \in Nat /\ s.done + Taken(record, s) \in 0..Len(record)
         /\ Start(s) \in 0..BlockSize /\ Trailer(s) \in Nat
         /\ Taken(record, s) <= Len(record) - s.done
         /\ Taken(record, s) <= BlockSize - Start(s) - HeaderSize
         /\ \/ Taken(record, s) = Len(record) - s.done
            \/ Taken(record, s) = BlockSize - Start(s) - HeaderSize
         /\ EmitMeasure(record, s) \in Nat
         /\ Start(s) + HeaderSize + Taken(record, s) \in 0..BlockSize
         /\ ~Ends(record, s) =>
              /\ Later(record, s) \in EmitStates(record)
              /\ EmitMeasure(record, Later(record, s)) < EmitMeasure(record, s)
         /\ FragmentData(record, s) \in Seq(E)
         /\ FragmentKind(record, s) \in {"full", "first", "middle", "last"}
         /\ Fragment(record, s) \in Seq(E \cup Headers(E))
<1> DEFINE len == Len(record)
           U == E \cup Headers(E)
           States == EmitStates(record)
           leftover(t) == BlockSize - t.offset
           trailer(t) == IF leftover(t) < HeaderSize THEN leftover(t) ELSE 0
           start(t) == IF leftover(t) < HeaderSize THEN 0 ELSE t.offset
           n(t) == Least(len - t.done, BlockSize - start(t) - HeaderSize)
           end(t) == t.done + n(t) = len
           fragment(t) ==
             Zeros(trailer(t)) \o
               PhysicalRecord(FragmentType(t.begin, end(t)),
                              SubSeq(record, t.done + 1, t.done + n(t)))
           after(t) == [offset |-> start(t) + HeaderSize + n(t), done |-> t.done + n(t),
                        begin |-> FALSE]
           Measure(t) == 2 * (len - t.done) + (IF leftover(t) = HeaderSize THEN 1 ELSE 0)
<1>1. len \in Nat /\ BlockSize \in Nat /\ HeaderSize \in Nat \ {0} /\ HeaderSize < BlockSize
  BY LogAssumption
<1>0. s.offset \in 0..BlockSize /\ s.done \in 0..len
  BY DEF EmitStates
<1>2.        /\ n(s) \in Nat /\ s.done + n(s) \in 0..len /\ start(s) \in 0..BlockSize
             /\ trailer(s) \in Nat /\ Measure(s) \in Nat
             /\ start(s) + HeaderSize + n(s) \in 0..BlockSize
             /\ ~end(s) => Measure(after(s)) < Measure(s)
  <2>1. s.offset \in 0..BlockSize /\ s.done \in 0..len
    BY <1>0
  <2>2. after(s).done = s.done + n(s) /\ after(s).offset = start(s) + HeaderSize + n(s)
    OBVIOUS
  <2>3. n(s) \in Nat /\ n(s) <= len - s.done /\ n(s) <= BlockSize - start(s) - HeaderSize
        /\ (n(s) = len - s.done \/ n(s) = BlockSize - start(s) - HeaderSize)
        /\ start(s) \in 0..BlockSize /\ trailer(s) \in Nat
    <3>1. start(s) \in 0..BlockSize /\ start(s) <= BlockSize - HeaderSize /\ trailer(s) \in Nat
      BY <1>1, <2>1
    <3>2. ASSUME NEW a \in Nat, NEW b \in Nat
          PROVE  /\ Least(a, b) \in Nat /\ Least(a, b) <= a /\ Least(a, b) <= b
                 /\ Least(a, b) = a \/ Least(a, b) = b
      BY DEF Least
    <3>3. len - s.done \in Nat /\ BlockSize - start(s) - HeaderSize \in Nat
      <4> HIDE DEF start, len
      <4> QED
        BY <1>1, <2>1, <3>1
    <3> HIDE DEF start, trailer, len
    <3> QED
      BY <3>1, <3>2, <3>3
  <2>4. ASSUME ~end(s), n(s) = 0
        PROVE  leftover(s) = HeaderSize /\ after(s).offset = BlockSize
    <3>1. start(s) = BlockSize - HeaderSize
      <4>1. s.done \in Int /\ len \in Int /\ BlockSize \in Int /\ HeaderSize \in Int /\ start(s) \in Int
        BY <1>1, <2>1, <2>3
      <4>2. s.done + 0 # len /\ (0 = len - s.done \/ 0 = BlockSize - start(s) - HeaderSize)
        BY <2>3, <2>4
      <4> HIDE DEF n, start, len, States
      <4>3. 0 = BlockSize - start(s) - HeaderSize
        BY <4>1, <4>2
      <4> QED
        BY <4>1, <4>3
    <3>2. start(s) = s.offset
      BY <1>1, <3>1
    <3> HIDE DEF n, start, trailer, after
    <3> QED
      BY <1>1, <2>1, <2>2, <2>4, <3>1, <3>2
  <2>5. ~end(s) => Measure(after(s)) < Measure(s)
    <3> DEFINE i == IF leftover(s) = HeaderSize THEN 1 ELSE 0
               j == IF leftover(after(s)) = HeaderSize THEN 1 ELSE 0
    <3>1. Measure(s) = 2 * (len - s.done) + i
          /\ Measure(after(s)) = 2 * (len - (s.done + n(s))) + j
      BY <2>2
    <3>2. i \in {0, 1} /\ j \in {0, 1}
      OBVIOUS
    <3>3. ~end(s) /\ n(s) = 0 => i = 1 /\ j = 0
      <4> HIDE DEF n, start, trailer, after
      <4> QED
        BY <1>1, <2>4
    <3>4. ASSUME NEW a \in Nat, NEW b \in Nat, b # 0 \/ (i = 1 /\ j = 0)
          PROVE  2 * (a - b) + j < 2 * a + i
      <4> HIDE DEF i, j
      <4> QED
        BY <3>2, <3>4
    <3>5. len - (s.done + n(s)) = (len - s.done) - n(s) /\ len - s.done \in Nat
      <4>1. ASSUME NEW l \in Nat, NEW d \in 0..l, NEW x \in Nat
            PROVE  l - (d + x) = (l - d) - x /\ l - d \in Nat
        OBVIOUS
      <4> HIDE DEF n, len, States
      <4> QED
        BY <1>1, <2>1, <2>3, <4>1
    <3> HIDE DEF n, start, trailer, after, end, Measure, i, j, len
    <3> QED
      BY <2>3, <3>1, <3>3, <3>4, <3>5
  <2>6. Measure(s) \in Nat
    BY <1>1, <2>1
  <2>7. s.done + n(s) \in 0..len /\ start(s) + HeaderSize + n(s) \in 0..BlockSize
    <3>1. ASSUME NEW l \in Nat, NEW d \in 0..l, NEW x \in Nat, x <= l - d
          PROVE  d + x \in 0..l
      BY <3>1
    <3>2. ASSUME NEW d \in 0..BlockSize, NEW x \in Nat, x <= BlockSize - d - HeaderSize
          PROVE  d + HeaderSize + x \in 0..BlockSize
      BY <1>1, <3>2
    <3> HIDE DEF n, start, trailer, after, end, Measure, States, len
    <3> QED
      BY <1>1, <2>1, <2>3, <3>1, <3>2
  <2> HIDE DEF n, start, trailer, after, end, Measure
  <2> QED
    BY <2>3, <2>5, <2>6, <2>7
<1>3. fragment(s) \in Seq(U)
  <2>1. \A k \in Nat : Zeros(k) \in Seq(U)
    <3>1. Header("zero", <<>>) \in U
      BY DEF Header, Headers
    <3> QED
      BY <3>1 DEF Zeros
  <2> DEFINE data == SubSeq(record, s.done + 1, s.done + n(s))
             type == FragmentType(s.begin, end(s))
  <2>2. data \in Seq(E)
    <3>1. s.done \in 0..len /\ s.done + n(s) \in 0..len /\ n(s) \in Nat
      <4> HIDE DEF n, start, trailer, end, after, Measure, len
      <4> QED
        BY <1>0, <1>2
    <3> HIDE DEF n
    <3> QED
      BY <1>1, <3>1
  <2>3. type \in {"zero", "full", "first", "middle", "last", "bad"}
    BY DEF FragmentType
  <2> HIDE DEF data, type
  <2>4. <<Header(type, data)>> \in Seq(U) /\ data \in Seq(U)
    BY <2>2, <2>3 DEF Header, Headers
  <2>5. Zeros(HeaderSize - 1) \in Seq(U)
    BY <1>1, <2>1
  <2>6. PhysicalRecord(type, data) \in Seq(U)
    BY <2>4, <2>5 DEF PhysicalRecord
  <2>7. Zeros(trailer(s)) \in Seq(U)
    BY <1>2, <2>1
  <2> HIDE DEF trailer, U
  <2> QED
    BY <2>6, <2>7 DEF type, data
<1>4. /\ Taken(record, s) = n(s) /\ Start(s) = start(s) /\ Trailer(s) = trailer(s)
      /\ Ends(record, s) = end(s) /\ Later(record, s) = after(s)
      /\ EmitMeasure(record, s) = Measure(s)
      /\ EmitMeasure(record, Later(record, s)) = Measure(after(s))
      /\ Fragment(record, s) = fragment(s)
  BY DEF Taken, Start, Trailer, Leftover, Ends, Later, EmitMeasure, Fragment, FragmentKind, FragmentData
<1>5. FragmentData(record, s) \in Seq(E)
  <2> HIDE DEF n, start, trailer, end, after, Measure, fragment
  <2>1. s.done \in 0..len /\ s.done + n(s) \in 0..len /\ n(s) \in Nat
    BY <1>0, <1>2
  <2> QED
    BY <1>1, <1>4, <2>1 DEF FragmentData
<1>6. FragmentKind(record, s) \in {"full", "first", "middle", "last"}
  <2>1. s.begin \in BOOLEAN
    BY DEF EmitStates
  <2> QED
    BY DEF FragmentKind, FragmentType
<1>7. /\ n(s) <= len - s.done /\ n(s) <= BlockSize - start(s) - HeaderSize
      /\ n(s) = len - s.done \/ n(s) = BlockSize - start(s) - HeaderSize
  BY <1>0, <1>1 DEF Least
<1>8. ~end(s) => after(s) \in States
  <2> HIDE DEF n, start, trailer, end, Measure, fragment
  <2> QED
    BY <1>2 DEF EmitStates
<1> HIDE DEF n, start, trailer, end, after, Measure, fragment
<1> QED
  BY <1>2, <1>3, <1>4, <1>5, <1>6, <1>7, <1>8

(* What holds of each state, if it does when it holds of the later one.    *)
LEMMA EmitInduction ==
  ASSUME NEW E, NEW record \in Seq(E), NEW T,
         \A s \in EmitStates(record) : (~Ends(record, s) => Later(record, s) \in T) => s \in T
  PROVE  EmitStates(record) \subseteq T
<1> DEFINE States == EmitStates(record)
           K == {k \in Nat : \A s \in States : EmitMeasure(record, s) <= k => s \in T}
<1>1. \A s \in States :
        /\ EmitMeasure(record, s) \in Nat
        /\ ~Ends(record, s) =>
             /\ Later(record, s) \in States
             /\ EmitMeasure(record, Later(record, s)) < EmitMeasure(record, s)
  BY EmitFacts
<1> HIDE DEF States
<1>6. \A s \in States : (~Ends(record, s) => Later(record, s) \in T) => s \in T
  BY DEF States
<1>2. 0 \in K
  <2> SUFFICES ASSUME NEW s \in States, EmitMeasure(record, s) <= 0
               PROVE  s \in T
    OBVIOUS
  <2>1. Ends(record, s)
    <3> SUFFICES ASSUME ~Ends(record, s) PROVE FALSE
      OBVIOUS
    <3>1. /\ EmitMeasure(record, s) \in Nat /\ EmitMeasure(record, Later(record, s)) \in Nat
          /\ EmitMeasure(record, Later(record, s)) < EmitMeasure(record, s)
      BY <1>1
    <3> QED
      BY <3>1
  <2> QED
    BY <1>6, <2>1
<1>3. ASSUME NEW k \in K
      PROVE  k + 1 \in K
  <2>1. k \in Nat /\ \A s \in States : EmitMeasure(record, s) <= k => s \in T
    OBVIOUS
  <2> SUFFICES ASSUME NEW s \in States, EmitMeasure(record, s) <= k + 1
               PROVE  s \in T
    BY <2>1
  <2>2. ~Ends(record, s) => Later(record, s) \in T
    <3> SUFFICES ASSUME ~Ends(record, s) PROVE Later(record, s) \in T
      OBVIOUS
    <3>1. /\ EmitMeasure(record, s) \in Nat /\ EmitMeasure(record, Later(record, s)) \in Nat
          /\ EmitMeasure(record, Later(record, s)) < EmitMeasure(record, s)
          /\ Later(record, s) \in States
      BY <1>1
    <3>2. EmitMeasure(record, Later(record, s)) <= k
      BY <2>1, <3>1
    <3> QED
      BY <2>1, <3>1, <3>2
  <2> QED
    BY <1>6, <2>2
<1>4. Nat \subseteq K
  <2> HIDE DEF K
  <2> QED
    BY <1>2, <1>3, SetInduction
<1>5. ASSUME NEW s \in States
      PROVE  s \in T
  <2>1. EmitMeasure(record, s) \in K /\ EmitMeasure(record, s) <= EmitMeasure(record, s)
    BY <1>1, <1>4
  <2> QED
    BY <2>1
<1> QED
  BY <1>5 DEF States

(* The recursion of AddRecord has the values of a function.                *)
LEMMA EmitIs ==
  ASSUME NEW E, NEW record \in Seq(E)
  PROVE  /\ \A offset \in 0..BlockSize :
              /\ Beginning(offset) \in EmitStates(record)
              /\ AddRecord(offset, record) = EmitOf(record)[Beginning(offset)]
         /\ \A s \in EmitStates(record) :
              /\ EmitOf(record)[s] = EmitStep(record, EmitOf(record), s)
              /\ EmitOf(record)[s] \in Seq(Seq(E \cup Headers(E)))
<1> DEFINE U == E \cup Headers(E)
           F == Seq(Seq(U))
           States == EmitStates(record)
           end(s) == Ends(record, s)
           fragment(s) == Fragment(record, s)
           after(s) == Later(record, s)
           Step(f, s) == EmitStep(record, f, s)
           Emit(f) == f = [s \in States |-> Step(f, s)]
           Measure(s) == EmitMeasure(record, s)
           Within(k, s) == Measure(s) <= k
           top == 2 * Len(record) + 1
<1>1. Len(record) \in Nat /\ BlockSize \in Nat /\ HeaderSize \in Nat \ {0} /\ HeaderSize < BlockSize
  BY LogAssumption
<1>2. ASSUME NEW s \in States
      PROVE  Measure(s) \in Nat /\ (~end(s) => Measure(after(s)) < Measure(s))
  BY EmitFacts
<1>3. ASSUME NEW s \in States
      PROVE  fragment(s) \in Seq(U)
  BY EmitFacts
<1>4. \A s \in States : ~end(s) => after(s) \in States
  BY EmitFacts
<1>5. \A offset \in 0..BlockSize : Beginning(offset) \in States
  BY <1>1 DEF Beginning, EmitStates
<1>6. \A offset \in 0..BlockSize : AddRecord(offset, record) = EmitOf(record)[Beginning(offset)]
  BY DEF AddRecord, EmitOf, EmitStep, EmitStates, Beginning, Fragment, FragmentKind, FragmentData,
    Later, Ends, Taken, Start, Trailer, Leftover
<1>20. \A f, s : Step(f, s) = EmitStep(record, f, s)
  OBVIOUS
<1>21. \A f, s : Step(f, s) = <<fragment(s)>> \o IF end(s) THEN <<>> ELSE f[after(s)]
  BY DEF EmitStep
<1>22. EmitOf(record) = CHOOSE f : Emit(f)
  BY DEF EmitOf
<1>23. \A a, b \in F : a \o b \in F
  OBVIOUS
<1>9. top \in Nat /\ \A s \in States : Within(top, s)
  BY <1>1 DEF EmitMeasure, EmitStates
<1> HIDE DEF fragment, F, end, after, Measure, States, Step
<1>7. ASSUME NEW f, NEW k \in Nat, \A t \in States : Within(k, t) => f[t] \in F,
             NEW s \in States, Within(k + 1, s)
      PROVE  Step(f, s) \in F
  <2>1. <<fragment(s)>> \in F /\ <<>> \in F
    BY <1>3 DEF F
  <2>2. CASE end(s)
    BY <1>21, <1>23, <2>1, <2>2
  <2>3. CASE ~end(s)
    <3>1. Measure(after(s)) <= k
      <4>1. Measure(after(s)) < Measure(s) /\ Measure(s) <= k + 1
        BY <1>2, <1>7, <2>3
      <4>2. Measure(after(s)) \in Nat /\ Measure(s) \in Nat
        BY <1>2, <1>4, <2>3
      <4> HIDE DEF Measure
      <4> QED
        BY <4>1, <4>2
    <3>2. f[after(s)] \in F
      BY <1>4, <1>7, <2>3, <3>1
    <3> HIDE DEF after, end
    <3> QED
      BY <1>21, <1>23, <2>1, <2>3, <3>2
  <2> QED
    BY <2>2, <2>3
<1>8. ASSUME NEW f, NEW g, NEW k \in Nat, \A t \in States : Within(k, t) => f[t] = g[t],
             NEW s \in States, Within(k + 1, s)
      PROVE  Step(f, s) = Step(g, s)
  <2>1. CASE end(s)
    BY <1>21, <2>1
  <2>2. CASE ~end(s)
    <3>1. Measure(after(s)) <= k
      <4>1. Measure(after(s)) < Measure(s) /\ Measure(s) <= k + 1
        BY <1>2, <1>8, <2>2
      <4>2. Measure(after(s)) \in Nat /\ Measure(s) \in Nat
        BY <1>2, <1>4, <2>2
      <4> HIDE DEF Measure
      <4> QED
        BY <4>1, <4>2
    <3>2. f[after(s)] = g[after(s)]
      BY <1>4, <1>8, <2>2, <3>1
    <3> HIDE DEF after, end
    <3> QED
      BY <1>21, <2>2, <3>2
  <2> QED
    BY <2>1, <2>2
<1>10. \A k \in Nat, s \in States : Within(k, s) => Within(k + 1, s)
  <2>1. \A s \in States : Measure(s) \in Nat
    BY <1>2
  <2> HIDE DEF Measure, States
  <2> QED
    BY <2>1
<1>11. \A s \in States : Within(0, s) => end(s)
  <2> SUFFICES ASSUME NEW s \in States, Within(0, s), ~end(s) PROVE FALSE
    OBVIOUS
  <2>1. Measure(after(s)) < Measure(s) /\ Measure(s) \in Nat /\ Measure(after(s)) \in Nat
    BY <1>2, <1>4
  <2> HIDE DEF Measure
  <2> QED
    BY <2>1
<1>12. \A f, g : \A s \in States : Within(0, s) => Step(f, s) = Step(g, s) /\ Step(f, s) \in F
  <2> SUFFICES ASSUME NEW f, NEW g, NEW s \in States, Within(0, s)
               PROVE  Step(f, s) = Step(g, s) /\ Step(f, s) \in F
    OBVIOUS
  <2>1. end(s)
    BY <1>11
  <2>2. fragment(s) \in Seq(U)
    BY <1>3
  <2> HIDE DEF end, U
  <2>3. <<fragment(s)>> \in F /\ <<fragment(s)>> \o <<>> = <<fragment(s)>>
    BY <2>2 DEF F
  <2> QED
    BY <1>21, <2>1, <2>3
<1> DEFINE emit == CHOOSE f : Emit(f)
<1> HIDE DEF Within, top
<1>13. \E f : Emit(f)
  <2> DEFINE Upto(k) ==
        \E f \in [States -> F] : \A s \in States : Within(k, s) => f[s] = Step(f, s)
             T == {k \in Nat : Upto(k)}
  <2>1. <<>> \in F
    BY DEF F
  <2>2. 0 \in T
    <3> DEFINE g == [s \in States |-> IF Within(0, s) THEN Step(<<>>, s) ELSE <<>>]
    <3>1. g \in [States -> F]
      BY <1>12, <2>1
    <3>2. \A s \in States : Within(0, s) => g[s] = Step(<<>>, s)
      OBVIOUS
    <3> HIDE DEF g
    <3>3. Upto(0)
      BY <1>12, <3>1, <3>2
    <3> QED
      BY <3>3
  <2>3. ASSUME NEW k \in T
        PROVE  k + 1 \in T
    <3>1. k \in Nat /\ Upto(k)
      OBVIOUS
    <3>2. PICK f \in [States -> F] : \A s \in States : Within(k, s) => f[s] = Step(f, s)
      BY <3>1
    <3> DEFINE g == [s \in States |-> IF Within(k + 1, s) THEN Step(f, s) ELSE <<>>]
    <3>3. g \in [States -> F]
      BY <1>7, <2>1, <3>1
    <3>4. \A s \in States : Within(k + 1, s) => g[s] = Step(g, s)
      <4> SUFFICES ASSUME NEW s \in States, Within(k + 1, s)
                   PROVE  Step(f, s) = Step(g, s)
        OBVIOUS
      <4>1. \A t \in States : Within(k, t) => f[t] = g[t]
        BY <1>10, <3>1, <3>2
      <4> HIDE DEF g
      <4> QED
        BY <1>8, <3>1, <4>1
    <3> HIDE DEF g
    <3>5. Upto(k + 1)
      BY <3>3, <3>4
    <3> HIDE DEF Upto
    <3> QED
      BY <3>1, <3>5
  <2>4. top \in T
    <3> HIDE DEF T
    <3> QED
      BY <1>9, <2>2, <2>3, SetInduction
  <2>5. PICK f \in [States -> F] : \A s \in States : f[s] = Step(f, s)
    BY <1>9, <2>4
  <2>6. f = [s \in States |-> Step(f, s)]
    BY <2>5
  <2> QED
    BY <2>6
<1>14. Emit(emit)
  <2> HIDE DEF Emit
  <2> QED
    BY <1>13
<1> HIDE DEF emit
<1> DEFINE T == {k \in Nat : \A s \in States : Within(k, s) => emit[s] \in F}
<1>15. 0 \in T
  BY <1>12, <1>14
<1>16. ASSUME NEW k \in T
       PROVE  k + 1 \in T
  <2>1. k \in Nat /\ \A s \in States : Within(k, s) => emit[s] \in F
    OBVIOUS
  <2>2. \A s \in States : emit[s] = Step(emit, s)
    BY <1>14
  <2>3. \A s \in States : Within(k + 1, s) => emit[s] \in F
    BY <1>7, <2>1, <2>2
  <2> QED
    BY <2>1, <2>3
<1>17. top \in T
  <2> HIDE DEF T
  <2> QED
    BY <1>9, <1>15, <1>16, SetInduction
<1>18. \A s \in States : emit[s] \in F /\ emit[s] = Step(emit, s)
  BY <1>9, <1>14, <1>17
<1> QED
  BY <1>5, <1>6, <1>18, <1>20, <1>22 DEF emit, F, States

(* AddRecord emits pieces of entries and headers.                          *)
LEMMA EmitTyped ==
  ASSUME NEW E, NEW record \in Seq(E), NEW from \in 0..BlockSize
  PROVE  AddRecord(from, record) \in Seq(Seq(E \cup Headers(E)))
BY EmitIs

(* What holds at a place if it does at all later ones holds from 0 to n.   *)
LEMMA DownInduction ==
  ASSUME NEW n \in Nat, NEW T, \A at \in 0..n : (\A j \in 0..n : at < j => j \in T) => at \in T
  PROVE  0..n \subseteq T
<1> DEFINE K == {k \in Nat : \A at \in 0..n : n - at <= k => at \in T}
<1>1. 0 \in K
  <2> SUFFICES ASSUME NEW at \in 0..n, n - at <= 0
               PROVE  at \in T
    OBVIOUS
  <2>1. \A j \in 0..n : ~(at < j)
    OBVIOUS
  <2> QED
    BY <2>1
<1>2. ASSUME NEW k \in K
      PROVE  k + 1 \in K
  <2>1. k \in Nat /\ \A at \in 0..n : n - at <= k => at \in T
    OBVIOUS
  <2> SUFFICES ASSUME NEW at \in 0..n, n - at <= k + 1
               PROVE  at \in T
    BY <2>1
  <2>2. \A j \in 0..n : at < j => n - j <= k
    BY <2>1
  <2> QED
    BY <2>1, <2>2
<1>3. n \in K
  <2> HIDE DEF K
  <2> QED
    BY <1>1, <1>2, SetInduction
<1>4. \A at \in 0..n : n - at <= n
  OBVIOUS
<1> QED
  BY <1>3, <1>4

(* The members of a sequence with one more.                                *)
LEMMA ToSetAppend ==
  ASSUME NEW S, NEW s \in Seq(S), NEW x \in S
  PROVE  ToSet(Append(s, x)) = ToSet(s) \cup {x}
<1> DEFINE t == Append(s, x)
<1>1. /\ DOMAIN t = 1..(Len(s) + 1) /\ DOMAIN s = 1..Len(s) /\ Len(s) \in Nat
      /\ t[Len(s) + 1] = x /\ \A i \in 1..Len(s) : t[i] = s[i]
  OBVIOUS
<1> HIDE DEF t
<1>2. \A i \in DOMAIN t : i = Len(s) + 1 \/ i \in DOMAIN s
  BY <1>1
<1>3. DOMAIN s \subseteq DOMAIN t /\ Len(s) + 1 \in DOMAIN t
  BY <1>1
<1>4. ToSet(t) = ToSet(s) \cup {x}
  BY <1>1, <1>2, <1>3 DEF ToSet
<1> QED
  BY <1>4 DEF t

(* A record that was collected stays collected.                            *)
LEMMA TakeGrows ==
  ASSUME NEW E, NEW acc \in Collected(E), NEW x \in Headers(E)
  PROVE  ToSet(acc.whole) \subseteq ToSet(Take(acc, x).whole)
<1>1. acc.whole \in Seq(Seq(E)) /\ x.data \in Seq(E) /\ acc.scratch \o x.data \in Seq(E)
  BY DEF Collected, Headers
<1>2. ToSet(acc.whole) \subseteq ToSet(Append(acc.whole, x.data))
      /\ ToSet(acc.whole) \subseteq ToSet(Append(acc.whole, acc.scratch \o x.data))
  <2>1. ToSet(Append(acc.whole, x.data)) = ToSet(acc.whole) \cup {x.data}
    BY <1>1, ToSetAppend
  <2>2. ToSet(Append(acc.whole, acc.scratch \o x.data)) = ToSet(acc.whole) \cup {acc.scratch \o x.data}
    <3> DEFINE y == acc.scratch \o x.data
    <3>1. y \in Seq(E)
      BY <1>1
    <3> HIDE DEF y
    <3>2. ToSet(Append(acc.whole, y)) = ToSet(acc.whole) \cup {y}
      BY <1>1, <3>1, ToSetAppend
    <3> QED
      BY <3>2 DEF y
  <2> QED
    BY <2>1, <2>2
<1>3. Take(acc, x).whole \in
        {acc.whole, Append(acc.whole, x.data), Append(acc.whole, acc.scratch \o x.data)}
  BY DEF Take, Collected
<1> QED
  BY <1>2, <1>3

(* A record that was read whole is never taken back.                       *)
LEMMA FoldGrows ==
  ASSUME NEW E, NEW base \in Collected(E), NEW s \in Seq(Headers(E))
  PROVE  ToSet(base.whole) \subseteq ToSet(Fold(base, s).whole)
<1> DEFINE H == Headers(E)
           P(r) == ToSet(base.whole) \subseteq ToSet(Fold(base, r).whole)
           T == {k \in Nat : \A r \in Seq(H) : Len(r) = k => P(r)}
<1>1. ASSUME NEW r \in Seq(H), Len(r) = 0
      PROVE  P(r)
  <2>1. r = <<>>
    BY <1>1
  <2>2. Fold(base, <<>>) = base
    BY FoldEmpty
  <2> QED
    BY <2>1, <2>2
<1>2. ASSUME NEW k \in Nat, \A r \in Seq(H) : Len(r) = k => P(r), NEW r \in Seq(H), Len(r) = k + 1
      PROVE  P(r)
  <2>1. PICK q \in Seq(H), y \in H : r = Append(q, y)
    <3>1. r # <<>>
      BY <1>2
    <3> QED
      BY <3>1, SequenceEmptyOrAppend
  <2>2. Len(q) = k
    BY <1>2, <2>1
  <2>3. P(q)
    BY <1>2, <2>2
  <2>4. Fold(base, q) \in Collected(E)
    BY FoldTyped
  <2>5. Fold(base, r) = Take(Fold(base, q), y)
    BY <2>1, FoldSnoc
  <2>6. ToSet(Fold(base, q).whole) \subseteq ToSet(Take(Fold(base, q), y).whole)
    BY <2>4, TakeGrows
  <2> QED
    BY <2>3, <2>5, <2>6
<1> HIDE DEF P
<1>3. 0 \in T
  BY <1>1
<1>4. ASSUME NEW k \in T
      PROVE  k + 1 \in T
  BY <1>2
<1>5. Len(s) \in T
  <2> HIDE DEF T
  <2> QED
    BY <1>3, <1>4, SetInduction, LenProperties
<1>6. P(s)
  BY <1>5
<1> QED
  BY <1>6 DEF P

(* Fragments in two parts are taken one part after the other.              *)
LEMMA FoldConcat ==
  ASSUME NEW E, NEW base \in Collected(E), NEW s \in Seq(Headers(E)), NEW t \in Seq(Headers(E))
  PROVE  Fold(base, s \o t) = Fold(Fold(base, s), t)
<1> DEFINE H == Headers(E)
           P(r) == Fold(base, s \o r) = Fold(Fold(base, s), r)
           T == {k \in Nat : \A r \in Seq(H) : Len(r) = k => P(r)}
<1>0. Fold(base, s) \in Collected(E)
  BY FoldTyped
<1>1. ASSUME NEW r \in Seq(H), Len(r) = 0
      PROVE  P(r)
  <2>1. r = <<>> /\ s \o <<>> = s
    BY <1>1
  <2>2. Fold(Fold(base, s), <<>>) = Fold(base, s)
    BY <1>0, FoldEmpty
  <2> QED
    BY <2>1, <2>2
<1>2. ASSUME NEW k \in Nat, \A r \in Seq(H) : Len(r) = k => P(r), NEW r \in Seq(H), Len(r) = k + 1
      PROVE  P(r)
  <2>1. PICK q \in Seq(H), y \in H : r = Append(q, y)
    <3>1. r # <<>>
      BY <1>2
    <3> QED
      BY <3>1, SequenceEmptyOrAppend
  <2>2. Len(q) = k
    BY <1>2, <2>1
  <2>3. P(q)
    BY <1>2, <2>2
  <2>4. s \o q \in Seq(H) /\ s \o r = Append(s \o q, y)
    BY <2>1
  <2>5. Fold(base, s \o r) = Take(Fold(base, s \o q), y)
    BY <2>4, FoldSnoc
  <2>6. Fold(Fold(base, s), r) = Take(Fold(Fold(base, s), q), y)
    BY <1>0, <2>1, FoldSnoc
  <2> QED
    BY <2>3, <2>5, <2>6
<1> HIDE DEF P
<1>3. 0 \in T
  BY <1>1
<1>4. ASSUME NEW k \in T
      PROVE  k + 1 \in T
  BY <1>2
<1>5. Len(t) \in T
  <2> HIDE DEF T
  <2> QED
    BY <1>3, <1>4, SetInduction, LenProperties
<1>6. P(t)
  BY <1>5
<1> QED
  BY <1>6 DEF P

(* The reader at a place in a file, and in a longer one.                   *)
LEMMA IntactLonger ==
  ASSUME NEW E, \A e \in E : "type" \notin DOMAIN e,
         NEW u \in Seq(E \cup Headers(E)), NEW v \in Seq(E \cup Headers(E)),
         NEW at \in 0..Len(u), at < Len(u)
  PROVE  /\ (u \o v)[at + 1] = u[at + 1]
         /\ FragmentEnd(u \o v, at) = FragmentEnd(u, at)
         /\ BlockEnd(u, at) <= BlockEnd(u \o v, at)
         /\ BlockEnd(u, at) # BlockEnd(u \o v, at) => BlockEnd(u, at) = Len(u)
         /\ Intact(u, at) => Intact(u \o v, at)
         /\ BlockEnd(u, at) = BlockEnd(u \o v, at) /\ Intact(u \o v, at) => Intact(u, at)
<1> DEFINE U == E \cup Headers(E)
           w == u \o v
<1>1. /\ w \in Seq(U) /\ Len(u) \in Nat /\ Len(v) \in Nat /\ Len(w) = Len(u) + Len(v)
      /\ at + 1 \in 1..Len(u) /\ w[at + 1] = u[at + 1] /\ at \in 0..Len(w) /\ at < Len(w)
  OBVIOUS
<1> DEFINE x == at - (at % BlockSize) + BlockSize
<1>2. x \in Int
  <2>1. BlockSize \in Nat \ {0}
    BY LogAssumption
  <2>2. at % BlockSize \in 0..(BlockSize - 1)
    BY <2>1
  <2> QED
    BY <2>1, <2>2
<1>3. BlockEnd(u, at) = Least(Len(u), x) /\ BlockEnd(w, at) = Least(Len(w), x)
  BY DEF BlockEnd
<1> HIDE DEF x, w
<1>4. /\ BlockEnd(u, at) <= BlockEnd(w, at)
      /\ BlockEnd(u, at) # BlockEnd(w, at) => BlockEnd(u, at) = Len(u)
  BY <1>1, <1>2, <1>3 DEF Least
<1>5. FragmentEnd(w, at) = FragmentEnd(u, at)
  BY <1>1 DEF FragmentEnd
<1>6. BlockEnd(u, at) \in 0..Len(u) /\ BlockEnd(w, at) \in 0..Len(w)
  BY <1>1, BlockEnds
<1>7. ASSUME Intact(u, at)
      PROVE  Intact(w, at)
  <2>1. /\ FragmentEnd(u, at) \in 0..Len(u) /\ at < FragmentEnd(u, at)
        /\ FragmentEnd(u, at) <= BlockEnd(u, at)
    BY <1>7, FragmentEnds
  <2>2. FragmentEnd(u, at) \in 1..Len(u)
    BY <1>1, <2>1
  <2>3. SubSeq(w, at + 1, FragmentEnd(u, at)) = SubSeq(u, at + 1, FragmentEnd(u, at))
    BY <1>1, <2>2, SubSeqOfConcat1 DEF w
  <2>4. FragmentEnd(u, at) <= BlockEnd(w, at)
    BY <1>4, <1>6, <2>1
  <2> QED
    BY <1>1, <1>5, <1>7, <2>3, <2>4 DEF Intact
<1>8. ASSUME BlockEnd(u, at) = BlockEnd(w, at), Intact(w, at)
      PROVE  Intact(u, at)
  <2>1. /\ FragmentEnd(w, at) \in 0..Len(w) /\ at < FragmentEnd(w, at)
        /\ FragmentEnd(w, at) <= BlockEnd(w, at)
    BY <1>1, <1>8, FragmentEnds
  <2>2. FragmentEnd(u, at) \in 1..Len(u)
    BY <1>1, <1>5, <1>6, <1>8, <2>1
  <2>3. SubSeq(w, at + 1, FragmentEnd(u, at)) = SubSeq(u, at + 1, FragmentEnd(u, at))
    BY <1>1, <2>2, SubSeqOfConcat1 DEF w
  <2> QED
    BY <1>1, <1>5, <1>8, <2>1, <2>3 DEF Intact
<1> QED
  BY <1>1, <1>4, <1>5, <1>7, <1>8 DEF w

(* A file that goes on still has the records it had: what the reader finds *)
(* at its end, which it cannot read, counts for nothing.                   *)
LEMMA ReadLonger ==
  ASSUME NEW E, \A e \in E : "type" \notin DOMAIN e,
         NEW u \in Seq(E \cup Headers(E)), NEW v \in Seq(E \cup Headers(E))
  PROVE  ToSet(ReadRecords(u)) \subseteq ToSet(ReadRecords(u \o v))
<1> DEFINE H == Headers(E)
           U == E \cup H
           w == u \o v
           n == Len(u)
           p == ParseOf(u)
           q == ParseOf(w)
           Agree(at) == \E pre, rest \in Seq(H) : q[at] = pre \o rest /\ (p[at] = pre \/ p[at] = Append(pre, Bad))
           T == {at \in 0..n : Agree(at)}
<1>1. w \in Seq(U) /\ n \in Nat /\ Len(w) \in Nat /\ n <= Len(w) /\ HeaderSize \in Nat
  BY LogAssumption
<1>2. \A at \in 0..n : p[at] = ParseStep(u, p, at) /\ p[at] \in Seq(H)
  BY ParseIs
<1>3. \A at \in 0..Len(w) : q[at] = ParseStep(w, q, at) /\ q[at] \in Seq(H)
  BY <1>1, ParseIs
<1>4. PhysicalRecords(u) = p[0] /\ PhysicalRecords(w) = q[0]
  BY <1>1, ParseIs
<1>5. ASSUME NEW at \in 0..n, at < n
      PROVE  /\ w[at + 1] = u[at + 1]
             /\ FragmentEnd(w, at) = FragmentEnd(u, at)
             /\ BlockEnd(u, at) <= BlockEnd(w, at)
             /\ BlockEnd(u, at) # BlockEnd(w, at) => BlockEnd(u, at) = n
             /\ Intact(u, at) => Intact(w, at)
             /\ BlockEnd(u, at) = BlockEnd(w, at) /\ Intact(w, at) => Intact(u, at)
             /\ BlockEnd(u, at) \in 0..n /\ at < BlockEnd(u, at)
             /\ BlockEnd(w, at) \in 0..Len(w)
             /\ Intact(u, at) =>
                  u[at + 1] \in H /\ FragmentEnd(u, at) \in 0..n /\ at < FragmentEnd(u, at)
  <2>1. at \in 0..Len(w) /\ at < Len(w)
    BY <1>1, <1>5
  <2> QED
    BY <1>1, <1>5, <2>1, IntactLonger, BlockEnds, FragmentEnds
<1>6. Bad \in H
  BY DEF Bad, Header, Headers
<1> HIDE DEF w, n, p, q, H
<1>7. ASSUME NEW at \in 0..n, p[at] = <<>> \/ p[at] = <<Bad>>
      PROVE  Agree(at)
  <2>1. q[at] \in Seq(H)
    BY <1>1, <1>3
  <2>2. q[at] = <<>> \o q[at] /\ Append(<<>>, Bad) = <<Bad>> /\ <<>> \in Seq(H)
    BY <2>1
  <2>3. p[at] = <<>> \/ p[at] = Append(<<>>, Bad)
    BY <1>7, <2>2
  <2> QED
    BY <2>1, <2>2, <2>3, Zenon
<1>8. ASSUME NEW at \in 0..n, NEW j \in 0..n, Agree(j), NEW x \in H,
             p[at] = <<x>> \o p[j], q[at] = <<x>> \o q[j]
      PROVE  Agree(at)
  <2>1. PICK pre \in Seq(H), rest \in Seq(H) : q[j] = pre \o rest /\ (p[j] = pre \/ p[j] = Append(pre, Bad))
    BY <1>8, Zenon
  <2>2. q[at] = (<<x>> \o pre) \o rest
    <3>1. <<x>> \o (pre \o rest) = (<<x>> \o pre) \o rest
      OBVIOUS
    <3> QED
      BY <1>8, <2>1, <3>1, Zenon
  <2>3. <<x>> \o Append(pre, Bad) = Append(<<x>> \o pre, Bad)
    BY <1>6
  <2>4. <<x>> \o pre \in Seq(H)
    OBVIOUS
  <2>5. p[at] = <<x>> \o pre \/ p[at] = Append(<<x>> \o pre, Bad)
    BY <1>8, <2>1, <2>3, Zenon
  <2> QED
    BY <2>2, <2>4, <2>5, Zenon
<1>9. ASSUME NEW at \in 0..n, NEW j \in 0..n, Agree(j), p[at] = p[j], q[at] = q[j]
      PROVE  Agree(at)
  <2>1. PICK pre \in Seq(H), rest \in Seq(H) : q[j] = pre \o rest /\ (p[j] = pre \/ p[j] = Append(pre, Bad))
    BY <1>9, Zenon
  <2>2. q[at] = pre \o rest /\ (p[at] = pre \/ p[at] = Append(pre, Bad))
    BY <1>9, <2>1
  <2> QED
    BY <2>2, Zenon
<1>10. n \in 0..n /\ p[n] = <<>>
  <2>1. n \in 0..n
    BY <1>1
  <2>2. p[n] = ParseStep(u, p, n)
    BY <1>2, <2>1
  <2>3. ParseStep(u, p, n) = <<>>
    BY DEF ParseStep, n
  <2> QED
    BY <2>1, <2>2, <2>3
<1>11. ASSUME NEW at \in 0..n, \A j \in 0..n : at < j => Agree(j)
       PROVE  Agree(at)
  <2>1. CASE at = n
    BY <1>7, <1>10, <2>1
  <2>2. CASE at < n
    <3>1. at \in 0..Len(w) /\ at # Len(w) /\ at # Len(u)
      BY <1>1, <2>2 DEF n
    <3>2. p[at] = IF BlockEnd(u, at) - at < HeaderSize THEN p[BlockEnd(u, at)]
                  ELSE IF Intact(u, at) THEN <<u[at + 1]>> \o p[FragmentEnd(u, at)]
                  ELSE <<Bad>> \o p[BlockEnd(u, at)]
      BY <1>2, <3>1 DEF ParseStep
    <3>3. q[at] = IF BlockEnd(w, at) - at < HeaderSize THEN q[BlockEnd(w, at)]
                  ELSE IF Intact(w, at) THEN <<w[at + 1]>> \o q[FragmentEnd(w, at)]
                  ELSE <<Bad>> \o q[BlockEnd(w, at)]
      BY <1>3, <3>1 DEF ParseStep
    <3>4. CASE BlockEnd(u, at) = BlockEnd(w, at)
      <4>1. BlockEnd(u, at) \in 0..n /\ Agree(BlockEnd(u, at))
        BY <1>5, <1>11, <2>2
      <4>2. CASE BlockEnd(u, at) - at < HeaderSize
        <5>1. p[at] = p[BlockEnd(u, at)] /\ q[at] = q[BlockEnd(u, at)]
          BY <3>2, <3>3, <3>4, <4>2
        <5> HIDE DEF Agree
        <5> QED
          BY <1>9, <4>1, <5>1
      <4>3. CASE ~(BlockEnd(u, at) - at < HeaderSize) /\ Intact(u, at)
        <5>1. Intact(w, at) /\ w[at + 1] = u[at + 1] /\ FragmentEnd(w, at) = FragmentEnd(u, at)
              /\ u[at + 1] \in H /\ FragmentEnd(u, at) \in 0..n /\ Agree(FragmentEnd(u, at))
          BY <1>5, <1>11, <2>2, <4>3
        <5>2. p[at] = <<u[at + 1]>> \o p[FragmentEnd(u, at)]
          BY <3>2, <4>3
        <5>3. q[at] = <<u[at + 1]>> \o q[FragmentEnd(u, at)]
          BY <3>3, <3>4, <4>3, <5>1
        <5> HIDE DEF Agree
        <5> QED
          BY <1>8, <5>1, <5>2, <5>3
      <4>4. CASE ~(BlockEnd(u, at) - at < HeaderSize) /\ ~Intact(u, at)
        <5>1. ~Intact(w, at)
          BY <1>5, <2>2, <3>4, <4>4
        <5>2. p[at] = <<Bad>> \o p[BlockEnd(u, at)]
          BY <3>2, <4>4
        <5>3. q[at] = <<Bad>> \o q[BlockEnd(u, at)]
          BY <3>3, <3>4, <4>4, <5>1
        <5> HIDE DEF Agree
        <5> QED
          BY <1>6, <1>8, <4>1, <5>2, <5>3
      <4> QED
        BY <4>2, <4>3, <4>4
    <3>5. CASE BlockEnd(u, at) # BlockEnd(w, at)
      <4>1. BlockEnd(u, at) = n
        BY <1>5, <2>2, <3>5
      <4>2. CASE BlockEnd(u, at) - at < HeaderSize
        <5>1. p[at] = <<>>
          BY <1>10, <3>2, <4>1, <4>2
        <5> HIDE DEF Agree
        <5> QED
          BY <1>7, <5>1
      <4>3. CASE ~(BlockEnd(u, at) - at < HeaderSize) /\ Intact(u, at)
        <5>1. Intact(w, at) /\ w[at + 1] = u[at + 1] /\ FragmentEnd(w, at) = FragmentEnd(u, at)
              /\ u[at + 1] \in H /\ FragmentEnd(u, at) \in 0..n /\ Agree(FragmentEnd(u, at))
          BY <1>5, <1>11, <2>2, <4>3
        <5>2. p[at] = <<u[at + 1]>> \o p[FragmentEnd(u, at)]
          BY <3>2, <4>3
        <5>4. ~(BlockEnd(w, at) - at < HeaderSize)
          BY <1>1, <1>5, <2>2, <4>3
        <5>3. q[at] = <<u[at + 1]>> \o q[FragmentEnd(u, at)]
          BY <3>3, <5>1, <5>4
        <5> HIDE DEF Agree
        <5> QED
          BY <1>8, <5>1, <5>2, <5>3
      <4>4. CASE ~(BlockEnd(u, at) - at < HeaderSize) /\ ~Intact(u, at)
        <5>1. p[at] = <<Bad>> \o <<>>
          BY <1>10, <3>2, <4>1, <4>4
        <5>2. p[at] = <<Bad>>
          BY <5>1
        <5> HIDE DEF Agree
        <5> QED
          BY <1>7, <5>2
      <4> QED
        BY <4>2, <4>3, <4>4
    <3> QED
      BY <3>4, <3>5
  <2>3. at = n \/ at < n
    BY <1>1
  <2> HIDE DEF Agree
  <2> QED
    BY <2>1, <2>2, <2>3
<1>12. Agree(0)
  <2>1. 0..n \subseteq T
    <3>1. \A at \in 0..n : (\A j \in 0..n : at < j => j \in T) => at \in T
      <4> HIDE DEF Agree
      <4> QED
        BY <1>11
    <3> HIDE DEF T
    <3> QED
      BY <1>1, <3>1, DownInduction
  <2>2. 0 \in 0..n
    BY <1>1
  <2> HIDE DEF Agree
  <2> QED
    BY <2>1, <2>2
<1>13. PICK pre \in Seq(H), rest \in Seq(H) : 
        q[0] = pre \o rest /\ (p[0] = pre \/ p[0] = Append(pre, Bad))
  BY <1>12, Zenon
<1> DEFINE acc == Fold(None, pre)
<1>14. acc \in Collected(E)
  BY NoneTyped, FoldTyped DEF H
<1>15. Take(acc, Bad).whole = acc.whole
  BY <1>14 DEF Take, Bad, Header, Collected
<1>16. Fold(None, Append(pre, Bad)) = Take(acc, Bad)
  <2>1. pre \in Seq(Headers(E)) /\ Bad \in Headers(E) /\ None \in Collected(E)
    BY <1>6, NoneTyped DEF H
  <2> QED
    BY <2>1, FoldSnoc, Zenon
<1>17. Fold(None, p[0]).whole = acc.whole
  <2>1. CASE p[0] = pre
    BY <2>1
  <2>2. CASE p[0] = Append(pre, Bad)
    <3>1. Fold(None, p[0]) = Take(acc, Bad)
      BY <1>16, <2>2, Zenon
    <3> QED
      BY <1>15, <3>1, Zenon
  <2> QED
    BY <1>13, <2>1, <2>2
<1>18. Fold(None, q[0]) = Fold(acc, rest)
  <2>1. pre \in Seq(Headers(E)) /\ rest \in Seq(Headers(E)) /\ None \in Collected(E)
    BY <1>13, NoneTyped DEF H
  <2>2. Fold(None, pre \o rest) = Fold(Fold(None, pre), rest)
    BY <2>1, FoldConcat
  <2> QED
    BY <1>13, <2>2, Zenon
<1>19. ToSet(acc.whole) \subseteq ToSet(Fold(acc, rest).whole)
  BY <1>14, FoldGrows DEF H
<1>20. ReadRecords(u) = Fold(None, p[0]).whole /\ ReadRecords(w) = Fold(None, q[0]).whole
  BY <1>4, ReadIs
<1> QED
  BY <1>17, <1>18, <1>19, <1>20 DEF w

(* The unit at i begins a fragment.                                        *)
IsHead(u, i) == "type" \in DOMAIN u[i] /\ u[i].type # "zero"

(* The fragment at i goes on with the one at h: none begins between them,  *)
(* and with what was said up to h, f[h], its data make f[i].               *)
Continues(u, f, h, i) ==
  /\ h + HeaderSize <= i
  /\ IsHead(u, h) /\ u[h].type \in {"first", "middle"}
  /\ \A j \in (h + 1)..(i - 1) : ~IsHead(u, j)
  /\ f[i] = f[h] \o u[i].data

(* Every fragment of a file belongs to a record of G.                      *)
Linked(u, f, G, i) ==
  /\ u[i].type = "full" => u[i].data \in G
  /\ u[i].type = "first" => f[i] = u[i].data
  /\ u[i].type \in {"middle", "last"} => \E h \in 1..Len(u) : Continues(u, f, h, i)
  /\ u[i].type = "last" => f[i] \in G
Chain(u, f, G) == \A i \in 1..Len(u) : IsHead(u, i) => Linked(u, f, G, i)

(* Where the data of E are, no fragment begins.                            *)
LEMMA IntactQuiet ==
  ASSUME NEW E, \A e \in E : "type" \notin DOMAIN e, NEW u \in Seq(E \cup Headers(E)),
         NEW at \in 0..Len(u), at < Len(u), Intact(u, at)
  PROVE  /\ IsHead(u, at + 1)
         /\ \A j \in (at + 2)..FragmentEnd(u, at) : ~IsHead(u, j)
<1> DEFINE x == u[at + 1]
           end == FragmentEnd(u, at)
           p == PhysicalRecord(x.type, x.data)
<1>1. x \in Headers(E) /\ end \in 0..Len(u) /\ at + HeaderSize <= end /\ at < end
  BY FragmentEnds
<1>2. SubSeq(u, at + 1, end) = p /\ IsHead(u, at + 1)
  BY DEF Intact, IsHead
<1>3. HeaderSize \in Nat /\ HeaderSize >= 1
  BY LogAssumption
<1>4. x.data \in Seq(E) /\ end = at + HeaderSize + Len(x.data)
  BY <1>1 DEF Headers, FragmentEnd
<1>5. ASSUME NEW j \in (at + 2)..end
      PROVE  ~IsHead(u, j)
  <2> DEFINE zs == Zeros(HeaderSize - 1)
             k == j - at
             hd == <<Header(x.type, x.data)>>
             zero == Header("zero", <<>>)
             d == x.data
  <2>1. k \in 2..(HeaderSize + Len(d)) /\ Len(d) \in Nat
    <3>1. d \in Seq(E) /\ end = at + HeaderSize + Len(d)
      BY <1>4
    <3> HIDE DEF d, end
    <3>2. Len(d) \in Nat
      BY <3>1
    <3> QED
      BY <1>3, <3>1, <3>2
  <2>2. p[k] = u[j]
    <3>1. SubSeq(u, at + 1, end)[k] = u[j]
      <4>1. u \in Seq(E \cup Headers(E)) /\ at + 1 \in 1..(Len(u) + 1) /\ end \in at..Len(u)
        BY <1>1
      <4>2. k \in 1..(end - (at + 1) + 1) /\ at + 1 + k - 1 = j
        BY <1>1, <1>4, <2>1
      <4> HIDE DEF k, end, x
      <4> QED
        BY <4>1, <4>2, SubSeqProperties
    <3> QED
      BY <1>2, <3>1
  <2>3. zs \in Seq({zero}) /\ Len(zs) = HeaderSize - 1 /\ hd \in Seq({Header(x.type, x.data)}) /\ Len(hd) = 1
        /\ \A i \in 1..(HeaderSize - 1) : zs[i] = zero
    BY <1>3 DEF Zeros
  <2>4. p = (hd \o zs) \o d
    BY DEF PhysicalRecord
  <2>5. p[k] = zero \/ p[k] \in E
    <3> DEFINE Q == {Header(x.type, x.data), zero}
               a == hd \o zs
    <3>1. a \in Seq(Q) /\ Len(a) = HeaderSize /\ \A i \in 2..HeaderSize : a[i] = zero
      <4>1. hd \in Seq(Q) /\ zs \in Seq(Q)
        BY <2>3
      <4> HIDE DEF hd, zs, zero, Q
      <4>2. a \in Seq(Q) /\ Len(a) = HeaderSize
            /\ \A i \in 1..Len(a) : a[i] = IF i <= Len(hd) THEN hd[i] ELSE zs[i - Len(hd)]
        <5>1. /\ a \in Seq(Q) /\ Len(a) = Len(hd) + Len(zs)
              /\ \A i \in 1..Len(a) : a[i] = IF i <= Len(hd) THEN hd[i] ELSE zs[i - Len(hd)]
          BY <4>1, ConcatProperties
        <5>2. Len(hd) + Len(zs) = HeaderSize
          BY <1>3, <2>3
        <5> QED
          BY <5>1, <5>2
      <4> HIDE DEF a
      <4>3. ASSUME NEW i \in 2..HeaderSize
            PROVE  a[i] = zero
        <5>1. i \in 1..Len(a) /\ ~(i <= Len(hd)) /\ i - Len(hd) \in 1..(HeaderSize - 1)
          BY <1>3, <2>3, <4>2
        <5> QED
          BY <2>3, <4>2, <5>1
      <4> QED
        BY <4>2, <4>3
    <3> HIDE DEF hd, zs, zero, a, k, d, x, end, Q
    <3>2. a \in Seq(Q \cup E) /\ d \in Seq(Q \cup E)
      BY <1>4, <3>1 DEF d
    <3>3. \A i \in 1..(HeaderSize + Len(d)) : (a \o d)[i] = IF i <= HeaderSize THEN a[i] ELSE d[i - HeaderSize]
      BY <1>3, <2>1, <3>1, <3>2
    <3>4. p = a \o d
      BY <2>4 DEF a
    <3>5. k \in 1..(HeaderSize + Len(d))
      BY <1>3, <2>1
    <3>6. CASE k <= HeaderSize
      BY <2>1, <3>1, <3>3, <3>4, <3>5, <3>6
    <3>7. CASE ~(k <= HeaderSize)
      <4>1. k - HeaderSize \in 1..Len(d)
        BY <1>3, <2>1, <3>7
      <4>2. d[k - HeaderSize] \in E
        BY <1>4, <4>1 DEF d
      <4> QED
        BY <3>3, <3>4, <3>5, <3>7, <4>2
    <3> QED
      BY <3>6, <3>7
  <2>6. zero.type = "zero"
    BY DEF Header
  <2> HIDE DEF zero, p, k
  <2> QED
    BY <2>2, <2>5, <2>6 DEF IsHead
<1> QED
  BY <1>2, <1>5

(* What the reader has collected up to a place: records of G, and within a *)
(* record, what was said up to the fragment it read last.  Heads after     *)
(* that one can only be in a trailer that was just skipped.                *)
Behind(u, f, acc, at) ==
  \E h \in 1..at :
    /\ IsHead(u, h) /\ u[h].type \in {"first", "middle"} /\ acc.scratch = f[h]
    /\ \A i \in (h + 1)..at : IsHead(u, i) => at % BlockSize = 0 /\ at + 1 < i + HeaderSize
Reading(E, u, f, G, acc, at) ==
  /\ acc \in Collected(E) /\ ToSet(acc.whole) \subseteq G
  /\ acc.inside => Behind(u, f, acc, at)

(* Taking an intact fragment keeps the reader sound.                       *)
LEMMA TakeSound ==
  ASSUME NEW E, \A e \in E : "type" \notin DOMAIN e, NEW u \in Seq(E \cup Headers(E)),
         NEW f, NEW G, Chain(u, f, G),
         NEW at \in 0..Len(u), at < Len(u), Intact(u, at), NEW acc, Reading(E, u, f, G, acc, at)
  PROVE  Reading(E, u, f, G, Take(acc, u[at + 1]), FragmentEnd(u, at))
<1> DEFINE x == u[at + 1]
           end == FragmentEnd(u, at)
           new == Take(acc, x)
<1>1. /\ x \in Headers(E) /\ end \in 0..Len(u) /\ at + HeaderSize <= end /\ at < end
      /\ HeaderSize \in Nat /\ at \in Nat /\ Len(u) \in Nat
  BY FragmentEnds, LogAssumption
<1>2. IsHead(u, at + 1) /\ \A j \in (at + 2)..end : ~IsHead(u, j)
  BY IntactQuiet
<1>3. acc \in Collected(E) /\ ToSet(acc.whole) \subseteq G /\ new \in Collected(E)
  BY <1>1, TakeTyped DEF Reading
<1>4. Linked(u, f, G, at + 1)
  <2>1. at + 1 \in 1..Len(u)
    BY <1>1
  <2> QED
    BY <1>2, <2>1 DEF Chain
<1>5. x.data \in Seq(E) /\ acc.scratch \in Seq(E) /\ acc.whole \in Seq(Seq(E))
      /\ acc.scratch \o x.data \in Seq(E)
  BY <1>1, <1>3 DEF Headers, Collected
<1>6. ASSUME NEW d \in Seq(E), d \in G
      PROVE  ToSet(Append(acc.whole, d)) \subseteq G
  <2>1. ToSet(Append(acc.whole, d)) = ToSet(acc.whole) \cup {d}
    BY <1>5, ToSetAppend
  <2> QED
    BY <1>3, <1>6, <2>1
<1>7. ASSUME x.type \in {"first", "middle"}, new.scratch = f[at + 1]
      PROVE  Behind(u, f, new, end)
  <2>1. at + 1 \in 1..end /\ \A i \in (at + 1 + 1)..end : ~IsHead(u, i)
    BY <1>1, <1>2
  <2> HIDE DEF new, end
  <2> QED
    BY <1>2, <1>7, <2>1 DEF Behind
<1>8. ASSUME acc.inside, NEW h \in 1..Len(u), Continues(u, f, h, at + 1)
      PROVE  acc.scratch = f[h]
  <2>1. PICK g \in 1..at :
          /\ IsHead(u, g) /\ u[g].type \in {"first", "middle"} /\ acc.scratch = f[g]
          /\ \A i \in (g + 1)..at : IsHead(u, i) => at % BlockSize = 0 /\ at + 1 < i + HeaderSize
    BY <1>8 DEF Reading, Behind
  <2>2. /\ h + HeaderSize <= at + 1 /\ IsHead(u, h)
        /\ \A j \in (h + 1)..(at + 1 - 1) : ~IsHead(u, j)
    BY <1>8 DEF Continues
  <2>3. ~(g > h)
    <3> SUFFICES ASSUME g > h
                 PROVE  FALSE
      OBVIOUS
    <3>1. g \in (h + 1)..(at + 1 - 1)
      BY <1>1
    <3> QED
      BY <2>1, <2>2, <3>1
  <2>4. ~(g < h)
    <3> SUFFICES ASSUME g < h
                 PROVE  FALSE
      OBVIOUS
    <3>1. h <= at
      BY <1>1, <2>2, LogAssumption
    <3>2. h \in (g + 1)..at
      BY <1>1, <3>1
    <3>3. at + 1 < h + HeaderSize
      BY <2>1, <2>2, <3>2
    <3> QED
      BY <1>1, <2>2, <3>3
  <2>5. g = h
    BY <1>1, <2>3, <2>4
  <2> QED
    BY <2>1, <2>5
<1>9. CASE x.type = "full"
  <2>1. new.whole = Append(acc.whole, x.data) /\ ~new.inside
    BY <1>3, <1>9 DEF Take, Collected
  <2>2. x.data \in G
    BY <1>4, <1>9 DEF Linked
  <2> QED
    BY <1>3, <1>5, <1>6, <2>1, <2>2 DEF Reading
<1>10. CASE x.type = "first"
  <2>1. new.whole = acc.whole /\ new.scratch = x.data
    BY <1>3, <1>10 DEF Take, Collected
  <2>2. f[at + 1] = x.data
    BY <1>4, <1>10 DEF Linked
  <2>3. Behind(u, f, new, end)
    BY <1>7, <1>10, <2>1, <2>2
  <2> HIDE DEF new
  <2> QED
    BY <1>3, <2>1, <2>3 DEF Reading, new
<1>11. CASE x.type = "middle" /\ acc.inside
  <2>1. new.whole = acc.whole /\ new.scratch = acc.scratch \o x.data
    BY <1>3, <1>11 DEF Take, Collected
  <2>2. PICK h \in 1..Len(u) : Continues(u, f, h, at + 1)
    BY <1>4, <1>11 DEF Linked
  <2>3. acc.scratch = f[h]
    BY <1>8, <1>11, <2>2
  <2>4. f[at + 1] = f[h] \o x.data
    BY <2>2 DEF Continues
  <2>5. Behind(u, f, new, end)
    BY <1>7, <1>11, <2>1, <2>3, <2>4
  <2> HIDE DEF new
  <2> QED
    BY <1>3, <2>1, <2>5 DEF Reading, new
<1>12. CASE x.type = "last" /\ acc.inside
  <2>1. new.whole = Append(acc.whole, acc.scratch \o x.data) /\ ~new.inside
    BY <1>3, <1>12 DEF Take, Collected
  <2>2. PICK h \in 1..Len(u) : Continues(u, f, h, at + 1)
    BY <1>4, <1>12 DEF Linked
  <2>3. acc.scratch = f[h]
    BY <1>8, <1>12, <2>2
  <2>4. f[at + 1] = f[h] \o x.data /\ f[at + 1] \in G
    BY <1>4, <1>12, <2>2 DEF Continues, Linked
  <2>5. acc.scratch \o x.data \in G
    BY <2>3, <2>4
  <2>6. ToSet(new.whole) \subseteq G
    BY <1>5, <1>6, <2>1, <2>5
  <2> HIDE DEF new
  <2> QED
    BY <1>3, <2>1, <2>6 DEF Reading, new
<1>13. CASE x.type = "bad"
  <2>1. new.whole = acc.whole /\ ~new.inside
    BY <1>3, <1>13 DEF Take, Collected
  <2> HIDE DEF new
  <2> QED
    BY <1>3, <2>1 DEF Reading, new
<1>14. CASE x.type \in {"middle", "last"} /\ ~acc.inside
  <2>1. new = acc
    BY <1>14 DEF Take
  <2> QED
    BY <1>3, <1>14, <2>1 DEF Reading
<1>15. x.type \in {"full", "first", "middle", "last", "bad"}
  BY <1>1, <1>2 DEF Headers, IsHead
<1> QED
  BY <1>9, <1>10, <1>11, <1>12, <1>13, <1>14, <1>15

(* A damaged fragment makes the reader drop its scratch, no more.          *)
LEMMA BadSound ==
  ASSUME NEW E, NEW u, NEW f, NEW G, NEW at, NEW acc, Reading(E, u, f, G, acc, at), NEW end
  PROVE  Reading(E, u, f, G, Take(acc, Bad), end)
<1>1. acc \in Collected(E) /\ ToSet(acc.whole) \subseteq G
  BY DEF Reading
<1>2. Bad \in Headers(E) /\ Bad.type = "bad"
  BY DEF Bad, Header, Headers
<1>3. Take(acc, Bad) \in Collected(E) /\ Take(acc, Bad).whole = acc.whole
      /\ ~Take(acc, Bad).inside
  <2>1. Take(acc, Bad) \in Collected(E)
    BY <1>1, <1>2, TakeTyped
  <2> QED
    BY <1>1, <1>2, <2>1 DEF Take, Collected
<1> QED
  BY <1>1, <1>3 DEF Reading

(* Skipping the trailer of a block keeps the reader sound.                 *)
LEMMA SkipSound ==
  ASSUME NEW E, NEW u \in Seq(E), NEW f, NEW G,
         NEW at \in 0..Len(u), at < Len(u), BlockEnd(u, at) - at < HeaderSize,
         BlockEnd(u, at) # Len(u), NEW D, NEW acc, Reading(D, u, f, G, acc, at)
  PROVE  Reading(D, u, f, G, acc, BlockEnd(u, at))
<1> DEFINE end == BlockEnd(u, at)
<1>1. end \in 0..Len(u) /\ at < end /\ Len(u) \in Nat
  BY BlockEnds
<1>2. HeaderSize \in Nat /\ BlockSize \in Nat \ {0} /\ HeaderSize < BlockSize
  BY LogAssumption
<1>3. end = at - (at % BlockSize) + BlockSize /\ at % BlockSize \in 0..(BlockSize - 1)
  BY <1>2 DEF BlockEnd, Least
<1>4. at % BlockSize # 0
  BY <1>2, <1>3
<1>5. end % BlockSize = 0
  <2>1. at = BlockSize * (at \div BlockSize) + (at % BlockSize) /\ at \div BlockSize \in Int
    BY <1>2
  <2>2. end = BlockSize * ((at \div BlockSize) + 1)
    BY <1>2, <1>3, <2>1
  <2>3. end = ((at \div BlockSize) + 1) * BlockSize + 0
    BY <1>2, <2>1, <2>2
  <2> QED
    BY <1>1, <1>2, <2>1, <2>3
<1>6. ASSUME Behind(u, f, acc, at)
      PROVE  Behind(u, f, acc, end)
  <2>1. PICK h \in 1..at :
          /\ IsHead(u, h) /\ u[h].type \in {"first", "middle"} /\ acc.scratch = f[h]
          /\ \A i \in (h + 1)..at : IsHead(u, i) => at % BlockSize = 0 /\ at + 1 < i + HeaderSize
    BY <1>6 DEF Behind
  <2>2. ASSUME NEW i \in (h + 1)..end, IsHead(u, i)
        PROVE  end + 1 < i + HeaderSize
    <3>1. ~(i <= at)
      <4> SUFFICES ASSUME i <= at
                   PROVE  FALSE
        OBVIOUS
      <4>1. i \in (h + 1)..at
        BY <1>1
      <4> QED
        BY <1>4, <2>1, <2>2, <4>1
    <3>2. i >= at + 1 /\ i \in Int
      BY <1>1, <3>1
    <3>3. end - at < HeaderSize
      OBVIOUS
    <3> HIDE DEF end
    <3> QED
      BY <1>1, <1>2, <3>2, <3>3
  <2>3. h \in 1..end
    BY <1>1
  <2> HIDE DEF end
  <2> QED
    BY <1>5, <2>1, <2>2, <2>3 DEF Behind
<1> QED
  BY <1>6 DEF Reading

(* Recovery reads nothing but records of G from a file of their fragments. *)
LEMMA ReadSound ==
  ASSUME NEW E, \A e \in E : "type" \notin DOMAIN e, NEW u \in Seq(E \cup Headers(E)),
         NEW f, NEW G, Chain(u, f, G)
  PROVE  ToSet(ReadRecords(u)) \subseteq G
<1> DEFINE n == Len(u)
           p == ParseOf(u)
           C == Collected(E)
           Safe(acc, at) == ToSet(Fold(acc, p[at]).whole) \subseteq G
           Good(at) == \A acc \in C : Reading(E, u, f, G, acc, at) => Safe(acc, at)
           T == {at \in 0..n : Good(at)}
<1>1. n \in Nat /\ 0 \in 0..n /\ HeaderSize \in Nat
  BY LogAssumption
<1>2. \A at \in 0..n : p[at] = ParseStep(u, p, at) /\ p[at] \in Seq(Headers(E))
  BY ParseIs
<1>3. ASSUME NEW at \in 0..n, p[at] = <<>>
      PROVE  Good(at)
  <2> SUFFICES ASSUME NEW acc \in C, Reading(E, u, f, G, acc, at)
               PROVE  Safe(acc, at)
    OBVIOUS
  <2>1. Fold(acc, <<>>) = acc
    BY FoldEmpty
  <2> QED
    BY <1>3, <2>1 DEF Reading
<1>4. ASSUME NEW at \in 0..n, NEW j \in 0..n, NEW x \in Headers(E), p[at] = <<x>> \o p[j], Good(j),
             \A acc \in C : Reading(E, u, f, G, acc, at) => Reading(E, u, f, G, Take(acc, x), j)
      PROVE  Good(at)
  <2> SUFFICES ASSUME NEW acc \in C, Reading(E, u, f, G, acc, at)
               PROVE  Safe(acc, at)
    OBVIOUS
  <2>1. Take(acc, x) \in C
    BY TakeTyped
  <2>2. Safe(Take(acc, x), j)
    BY <1>4, <2>1
  <2>3. p[j] \in Seq(Headers(E))
    BY <1>2
  <2>4. Fold(acc, <<x>> \o p[j]) = Fold(Take(acc, x), p[j])
    BY <2>3, FoldCons
  <2> QED
    BY <1>4, <2>2, <2>4
<1>5. ASSUME NEW at \in 0..n, \A j \in 0..n : at < j => Good(j)
      PROVE  Good(at)
  <2> DEFINE end == BlockEnd(u, at)
             after == FragmentEnd(u, at)
  <2> HIDE DEF Good
  <2>1. p[at] = ParseStep(u, p, at)
    BY <1>2
  <2>2. CASE at = n
    <3>1. p[at] = <<>>
      BY <2>1, <2>2 DEF ParseStep
    <3> QED
      BY <1>3, <3>1
  <2>3. CASE at < n /\ end - at < HeaderSize
    <3>1. end \in 0..n /\ at < end
      BY <2>3, BlockEnds, <1>1
    <3>2. p[at] = p[end]
      BY <1>1, <2>1, <2>3 DEF ParseStep
    <3>3. CASE end = n
      <4>1. p[n] = <<>>
        <5>1. n \in 0..n
          BY <1>1
        <5>2. p[n] = ParseStep(u, p, n)
          BY <1>2, <5>1
        <5>3. ParseStep(u, p, n) = <<>>
          BY DEF ParseStep
        <5> QED
          BY <5>2, <5>3
      <4> QED
        BY <1>3, <3>2, <3>3, <4>1
    <3>4. CASE end # n
      <4>1. Good(end)
        BY <1>5, <3>1
      <4> DEFINE U == E \cup Headers(E)
      <4>2. \A acc \in C : Reading(E, u, f, G, acc, at) => Reading(E, u, f, G, acc, end)
        BY <2>3, <3>4, SkipSound
      <4> QED
        BY <3>2, <4>1, <4>2 DEF Good
    <3> QED
      BY <3>3, <3>4
  <2>4. CASE at < n /\ ~(end - at < HeaderSize) /\ Intact(u, at)
    <3>1. u[at + 1] \in Headers(E) /\ after \in 0..n /\ at < after
      BY <2>4, FragmentEnds
    <3>2. p[at] = <<u[at + 1]>> \o p[after]
      BY <1>1, <2>1, <2>4 DEF ParseStep
    <3>3. \A acc \in C : Reading(E, u, f, G, acc, at) => Reading(E, u, f, G, Take(acc, u[at + 1]), after)
      BY <2>4, TakeSound
    <3>4. Good(after)
      BY <1>5, <3>1
    <3> HIDE DEF after
    <3> QED
      BY <1>4, <3>1, <3>2, <3>3, <3>4
  <2>5. CASE at < n /\ ~(end - at < HeaderSize) /\ ~Intact(u, at)
    <3>1. Bad \in Headers(E) /\ end \in 0..n /\ at < end
      BY <1>1, <2>5, BlockEnds DEF Bad, Header, Headers
    <3>2. p[at] = <<Bad>> \o p[end]
      BY <1>1, <2>1, <2>5 DEF ParseStep
    <3>3. \A acc \in C : Reading(E, u, f, G, acc, at) => Reading(E, u, f, G, Take(acc, Bad), end)
      BY BadSound
    <3>4. Good(end)
      BY <1>5, <3>1
    <3> HIDE DEF end
    <3> QED
      BY <1>4, <3>1, <3>2, <3>3, <3>4
  <2>6. at = n \/ at < n
    BY <1>1
  <2> QED
    BY <2>2, <2>3, <2>4, <2>5, <2>6
<1>6. Good(0)
  <2> HIDE DEF Good
  <2>1. \A at \in 0..n : (\A j \in 0..n : at < j => j \in T) => at \in T
    BY <1>5
  <2>2. 0..n \subseteq T
    <3> HIDE DEF T, n
    <3> QED
      BY <1>1, <2>1, DownInduction
  <2> QED
    BY <1>1, <2>2
<1>7. None \in C /\ Reading(E, u, f, G, None, 0)
  <2>1. None \in C /\ None.whole = <<>> /\ ~None.inside
    BY NoneTyped DEF None
  <2>2. ToSet(<<>>) = {}
    BY DEF ToSet
  <2> QED
    BY <2>1, <2>2 DEF Reading
<1>8. Safe(None, 0)
  BY <1>6, <1>7
<1>9. PhysicalRecords(u) = p[0]
  BY ParseIs
<1> QED
  BY <1>8, <1>9, ReadIs

(* A file that was cut still consists of fragments of the records of G.    *)
LEMMA ChainCut ==
  ASSUME NEW E, NEW u \in Seq(E), NEW v \in Seq(E), NEW f, NEW G, Chain(u \o v, f, G)
  PROVE  Chain(u, f, G)
<1> DEFINE w == u \o v
<1>1. /\ Len(u) \in Nat /\ Len(v) \in Nat /\ Len(w) = Len(u) + Len(v)
      /\ \A i \in 1..Len(u) : w[i] = u[i] /\ i \in 1..Len(w)
  OBVIOUS
<1> HIDE DEF w
<1>2. SUFFICES ASSUME NEW i \in 1..Len(u), IsHead(u, i)
               PROVE  Linked(u, f, G, i)
  BY DEF Chain
<1>3. \A j \in 1..Len(u) : IsHead(w, j) <=> IsHead(u, j)
  BY <1>1 DEF IsHead
<1>4. w[i] = u[i] /\ Linked(w, f, G, i)
  BY <1>1, <1>2, <1>3 DEF Chain, w
<1>5. ASSUME NEW h \in 1..Len(w), Continues(w, f, h, i)
      PROVE  h \in 1..Len(u) /\ Continues(u, f, h, i)
  <2>1. h + HeaderSize <= i /\ HeaderSize \in Nat
    BY <1>5, LogAssumption DEF Continues
  <2>2. h \in 1..Len(u) /\ w[h] = u[h]
    BY <1>1, <2>1
  <2>3. \A j \in (h + 1)..(i - 1) : j \in 1..Len(u)
    BY <1>1, <2>2
  <2> QED
    BY <1>3, <1>4, <1>5, <2>2, <2>3 DEF Continues
<1> QED
  BY <1>4, <1>5 DEF Linked

(* More records may be in the log than those known to be.                  *)
LEMMA ChainMore ==
  ASSUME NEW u, NEW f, NEW G, NEW D, G \subseteq D, Chain(u, f, G)
  PROVE  Chain(u, f, D)
BY DEF Chain, Linked

(* The units of a fragment: zeros, its header, zeros and its data.         *)
LEMMA PhysicalUnits ==
  ASSUME NEW E, \A e \in E : "type" \notin DOMAIN e, NEW data \in Seq(E),
         NEW kind \in {"full", "first", "middle", "last"}
  PROVE  LET p == PhysicalRecord(kind, data) IN
         /\ p \in Seq(E \cup Headers(E)) /\ Len(p) = HeaderSize + Len(data)
         /\ p[1] = Header(kind, data) /\ \A j \in 2..Len(p) : ~IsHead(p, j)
<1> DEFINE hd == <<Header(kind, data)>>
           zero == Header("zero", <<>>)
           zs == Zeros(HeaderSize - 1)
           a == hd \o zs
           p == PhysicalRecord(kind, data)
           U == E \cup Headers(E)
<1>0. HeaderSize \in Nat /\ HeaderSize >= 1 /\ Len(data) \in Nat
  BY LogAssumption
<1>1. zero \in U /\ Header(kind, data) \in U /\ zero.type = "zero"
  BY DEF Header, Headers
<1>2. zs \in Seq(U) /\ Len(zs) = HeaderSize - 1 /\ \A i \in 1..(HeaderSize - 1) : zs[i] = zero
  BY <1>0, <1>1 DEF Zeros
<1>3. hd \in Seq(U) /\ Len(hd) = 1 /\ hd[1] = Header(kind, data)
  BY <1>1
<1> HIDE DEF hd, zero, zs
<1>4. a \in Seq(U) /\ Len(a) = HeaderSize
      /\ \A i \in 1..HeaderSize : a[i] = IF i <= 1 THEN hd[i] ELSE zs[i - 1]
  <2>1. a \in Seq(U) /\ Len(a) = Len(hd) + Len(zs)
        /\ \A i \in 1..(Len(hd) + Len(zs)) : a[i] = IF i <= Len(hd) THEN hd[i] ELSE zs[i - Len(hd)]
    BY <1>2, <1>3, ConcatProperties
  <2> QED
    BY <1>0, <1>2, <1>3, <2>1
<1>5. p = a \o data
  BY DEF PhysicalRecord, a, hd, zs
<1> HIDE DEF a
<1>6. data \in Seq(U)
  OBVIOUS
<1>7. p \in Seq(U) /\ Len(p) = HeaderSize + Len(data)
      /\ \A i \in 1..(HeaderSize + Len(data)) : p[i] = IF i <= HeaderSize THEN a[i] ELSE data[i - HeaderSize]
  <2> HIDE DEF p, U
  <2>1. p \in Seq(U) /\ Len(p) = Len(a) + Len(data)
        /\ \A i \in 1..(Len(a) + Len(data)) : p[i] = IF i <= Len(a) THEN a[i] ELSE data[i - Len(a)]
    BY <1>4, <1>5, <1>6, ConcatProperties
  <2> QED
    BY <1>4, <2>1
<1> HIDE DEF p
<1>8. p[1] = Header(kind, data)
  BY <1>0, <1>3, <1>4, <1>7
<1>9. ASSUME NEW j \in 2..Len(p)
      PROVE  ~IsHead(p, j)
  <2>1. j \in 1..(HeaderSize + Len(data))
    BY <1>0, <1>7
  <2>2. CASE j <= HeaderSize
    <3>1. j \in 1..HeaderSize /\ ~(j <= 1) /\ j - 1 \in 1..(HeaderSize - 1)
      BY <1>0, <2>2
    <3>2. p[j] = zero
      BY <1>2, <1>4, <1>7, <2>1, <2>2, <3>1
    <3> QED
      BY <1>1, <3>2 DEF IsHead
  <2>3. CASE ~(j <= HeaderSize)
    <3>1. j - HeaderSize \in 1..Len(data)
      BY <1>0, <2>1, <2>3
    <3>2. data[j - HeaderSize] \in E /\ p[j] = data[j - HeaderSize]
      BY <1>7, <2>1, <2>3, <3>1
    <3> QED
      BY <3>2 DEF IsHead
  <2> QED
    BY <2>2, <2>3
<1> QED
  BY <1>7, <1>8, <1>9 DEF p

(* A fragment is its trailer, its header and its data.                     *)
LEMMA FragmentUnits ==
  ASSUME NEW E, \A e \in E : "type" \notin DOMAIN e, NEW record \in Seq(E),
         NEW s \in EmitStates(record)
  PROVE  LET p == Fragment(record, s)
             t == Trailer(s) + 1 IN
         /\ p \in Seq(E \cup Headers(E))
         /\ Len(p) = Trailer(s) + HeaderSize + Taken(record, s)
         /\ t \in 1..Len(p) /\ p[t] = Header(FragmentKind(record, s), FragmentData(record, s))
         /\ Len(FragmentData(record, s)) = Taken(record, s)
         /\ \A j \in 1..Len(p) : j # t => ~IsHead(p, j)
<1> DEFINE n == Trailer(s)
           m == Taken(record, s)
           data == FragmentData(record, s)
           kind == FragmentKind(record, s)
           q == PhysicalRecord(kind, data)
           zs == Zeros(n)
           zero == Header("zero", <<>>)
           p == Fragment(record, s)
           U == E \cup Headers(E)
<1>1. /\ n \in Nat /\ m \in Nat /\ s.done + m \in 0..Len(record) /\ data \in Seq(E)
      /\ kind \in {"full", "first", "middle", "last"}
  BY EmitFacts
<1>2. Len(data) = m
  <2>1. s.done \in Nat
    BY DEF EmitStates
  <2> QED
    BY <1>1, <2>1 DEF FragmentData
<1> HIDE DEF m, data, kind
<1>3. /\ q \in Seq(U) /\ Len(q) = HeaderSize + m
      /\ q[1] = Header(kind, data) /\ \A j \in 2..Len(q) : ~IsHead(q, j)
  <2>1. LET r == PhysicalRecord(kind, data) IN
        /\ r \in Seq(U) /\ Len(r) = HeaderSize + Len(data)
        /\ r[1] = Header(kind, data) /\ \A j \in 2..Len(r) : ~IsHead(r, j)
    BY <1>1, PhysicalUnits
  <2> QED
    BY <1>2, <2>1
<1>4. zero \in U /\ zero.type = "zero"
  BY DEF Header, Headers
<1> HIDE DEF n
<1>5. zs \in Seq(U) /\ Len(zs) = n /\ \A i \in 1..n : zs[i] = zero
  BY <1>1, <1>4 DEF Zeros
<1>6. p = zs \o q
  BY DEF Fragment, n, kind, data
<1> HIDE DEF q, zs, zero, p
<1>7. /\ p \in Seq(U) /\ Len(p) = n + Len(q)
      /\ \A i \in 1..(n + Len(q)) : p[i] = IF i <= n THEN zs[i] ELSE q[i - n]
  <2> HIDE DEF U
  <2>1. p \in Seq(U) /\ Len(p) = Len(zs) + Len(q)
        /\ \A i \in 1..(Len(zs) + Len(q)) : p[i] = IF i <= Len(zs) THEN zs[i] ELSE q[i - Len(zs)]
    BY <1>3, <1>5, <1>6, ConcatProperties
  <2> QED
    BY <1>5, <2>1
<1>8. HeaderSize \in Nat /\ HeaderSize >= 1 /\ Len(q) \in Nat
  BY <1>3, LogAssumption
<1>9. n + 1 \in 1..Len(p) /\ p[n + 1] = Header(kind, data)
  <2>1. n + 1 \in 1..(n + Len(q)) /\ ~(n + 1 <= n) /\ n + 1 - n = 1
    BY <1>1, <1>3, <1>8
  <2>2. ASSUME NEW i \in 1..(n + Len(q)), i = n + 1
        PROVE  p[i] = q[1]
    <3>1. i - n = 1 /\ ~(i <= n)
      BY <1>1, <2>2
    <3> QED
      BY <1>7, <3>1
  <2> QED
    BY <1>3, <1>7, <2>1, <2>2
<1>10. ASSUME NEW j \in 1..Len(p), j # n + 1
       PROVE  ~IsHead(p, j)
  <2>1. CASE j <= n
    <3>1. p[j] = zero
      BY <1>1, <1>5, <1>7, <2>1
    <3> QED
      BY <1>4, <3>1 DEF IsHead
  <2>2. CASE ~(j <= n)
    <3>1. j - n \in 2..Len(q) /\ p[j] = q[j - n]
      BY <1>1, <1>7, <1>8, <1>10, <2>2
    <3> QED
      BY <1>3, <3>1 DEF IsHead
  <2> QED
    BY <2>1, <2>2
<1>11. Len(p) = n + HeaderSize + m
  BY <1>1, <1>3, <1>7, <1>8
<1> QED
  BY <1>2, <1>7, <1>9, <1>10, <1>11 DEF n, m, data, kind, p

(* Where the emission of a record stands when a file ends as u does.       *)
Midway(u, f, record, s) ==
  /\ s.begin => s.done = 0
  /\ ~s.begin => \E h \in 1..Len(u) :
       /\ h + HeaderSize <= Len(u) + 1
       /\ IsHead(u, h) /\ u[h].type \in {"first", "middle"}
       /\ \A j \in (h + 1)..Len(u) : ~IsHead(u, j)
       /\ f[h] = SubSeq(record, 1, s.done)

(* A fragment written behind a genuine log continues the chain.            *)
LEMMA ChainFragment ==
  ASSUME NEW E, \A e \in E : "type" \notin DOMAIN e, NEW u \in Seq(E \cup Headers(E)),
         NEW f, NEW G, Chain(u, f, G), NEW record \in Seq(E), record \in G,
         NEW s \in EmitStates(record), Midway(u, f, record, s)
  PROVE  LET w == u \o Fragment(record, s) IN
         \E g : Chain(w, g, G) /\ (~Ends(record, s) => Midway(w, g, record, Later(record, s)))
<1> DEFINE p == Fragment(record, s)
           w == u \o p
           n == Len(u)
           t == Trailer(s) + 1
           m == Taken(record, s)
           kind == FragmentKind(record, s)
           data == FragmentData(record, s)
           said == SubSeq(record, 1, s.done + m)
           g == [i \in 1..Len(w) |-> IF i <= n THEN f[i] ELSE said]
           at == n + t
           U == E \cup Headers(E)
<1>1. /\ p \in Seq(U) /\ Len(p) = Trailer(s) + HeaderSize + m
      /\ t \in 1..Len(p) /\ p[t] = Header(kind, data) /\ Len(data) = m
      /\ \A j \in 1..Len(p) : j # t => ~IsHead(p, j)
  BY FragmentUnits
<1>2. /\ m \in Nat /\ s.done + m \in 0..Len(record) /\ Trailer(s) \in Nat /\ data \in Seq(E)
      /\ s.done \in Nat /\ s.begin \in BOOLEAN
  BY EmitFacts DEF EmitStates
<1>3. HeaderSize \in Nat /\ HeaderSize >= 1 /\ n \in Nat
  BY LogAssumption
<1>4. kind = CASE s.begin /\ Ends(record, s) -> "full"
               [] s.begin /\ ~Ends(record, s) -> "first"
               [] ~s.begin /\ Ends(record, s) -> "last"
               [] OTHER -> "middle"
  BY DEF FragmentKind, FragmentType
<1>5. Ends(record, s) => said = record
  BY <1>2 DEF Ends
<1>6. s.begin => said = data
  <2>1. s.begin => s.done = 0
    BY DEF Midway
  <2>2. data = SubSeq(record, s.done + 1, s.done + m)
    BY DEF FragmentData
  <2> HIDE DEF m, data
  <2>3. s.begin => s.done + 1 = 1
    BY <1>2, <2>1
  <2> QED
    BY <2>2, <2>3
<1>7. said = SubSeq(record, 1, s.done) \o data
  <2>1. data = SubSeq(record, s.done + 1, s.done + m)
    BY DEF FragmentData
  <2> HIDE DEF m, data
  <2>2. s.done \in (1 - 1)..Len(record) /\ s.done + m \in s.done..Len(record) /\ 1 \in 1..(Len(record) + 1)
    BY <1>2
  <2>3. SubSeq(record, 1, s.done) \o SubSeq(record, s.done + 1, s.done + m) = SubSeq(record, 1, s.done + m)
    BY <2>2, ConcatAdjacentSubSeq
  <2> QED
    BY <2>1, <2>3
<1> HIDE DEF p, n, t, m, kind, data, said, U
<1>8. /\ w \in Seq(U) /\ Len(w) = n + Len(p) /\ Len(p) \in Nat
      /\ \A i \in 1..n : w[i] = u[i]
      /\ \A i \in 1..Len(p) : w[n + i] = p[i]
  <2>1. u \in Seq(U) /\ n = Len(u)
    BY DEF U, n
  <2>2. /\ w \in Seq(U) /\ Len(w) = n + Len(p)
        /\ \A i \in 1..(n + Len(p)) : w[i] = IF i <= n THEN u[i] ELSE p[i - n]
    <3>1. p \in Seq(U)
      BY <1>1
    <3> HIDE DEF U, p, n
    <3>2. /\ u \o p \in Seq(U) /\ Len(u \o p) = Len(u) + Len(p)
          /\ \A i \in 1..(Len(u) + Len(p)) : (u \o p)[i] = IF i <= Len(u) THEN u[i] ELSE p[i - Len(u)]
      BY <2>1, <3>1, ConcatProperties
    <3> QED
      BY <2>1, <3>2 DEF w
  <2>3. Len(p) \in Nat
    BY <1>1, LenProperties
  <2> HIDE DEF w
  <2>4. ASSUME NEW i \in 1..n
        PROVE  w[i] = u[i]
    BY <1>3, <2>2, <2>3
  <2>5. ASSUME NEW i \in 1..Len(p)
        PROVE  w[n + i] = p[i]
    <3>1. ASSUME NEW k \in 1..(n + Len(p)), k = n + i
          PROVE  w[k] = p[i]
      <4>1. ~(k <= n) /\ k - n = i
        BY <1>3, <2>3, <3>1
      <4> QED
        BY <2>2, <4>1
    <3>2. n + i \in 1..(n + Len(p))
      BY <1>3, <2>3
    <3> QED
      BY <3>1, <3>2
  <2> QED
    BY <2>2, <2>3, <2>4, <2>5
<1>9. /\ at \in (n + 1)..Len(w) /\ w[at] = Header(kind, data)
      /\ Len(w) = n + (t - 1) + HeaderSize + m /\ t \in Nat /\ t >= 1
  <2>1. t = Trailer(s) + 1
    BY DEF t
  <2> HIDE DEF w
  <2>2. w[n + t] = p[t] /\ p[t] = Header(kind, data)
    BY <1>1, <1>8
  <2>3. Trailer(s) \in Nat /\ m \in Nat
    BY <1>2 DEF m
  <2>4. n \in Nat /\ Len(w) = n + Len(p) /\ Len(p) \in Nat
    BY <1>3, <1>8
  <2>5. Len(p) = Trailer(s) + HeaderSize + m /\ t \in 1..Len(p)
    BY <1>1
  <2>6. t \in Nat /\ t >= 1 /\ n + t \in (n + 1)..Len(w)
    BY <2>3, <2>4, <2>5
  <2>7. Len(w) = n + (t - 1) + HeaderSize + m
    <3>1. t - 1 = Trailer(s) /\ HeaderSize \in Nat
      BY <1>3, <2>1, <2>3
    <3>2. Len(w) = n + (Trailer(s) + HeaderSize + m)
      BY <2>4, <2>5
    <3>3. n + (Trailer(s) + HeaderSize + m) = n + Trailer(s) + HeaderSize + m
      BY <2>3, <2>4, <3>1
    <3> QED
      BY <3>1, <3>2, <3>3
  <2> QED
    BY <2>2, <2>6, <2>7
<1>10. /\ \A i \in 1..n : IsHead(w, i) <=> IsHead(u, i)
       /\ \A i \in (n + 1)..Len(w) : i # at => ~IsHead(w, i)
  <2>1. ASSUME NEW i \in 1..n
        PROVE  IsHead(w, i) <=> IsHead(u, i)
    BY <1>8 DEF IsHead
  <2>2. ASSUME NEW i \in (n + 1)..Len(w), i # at
        PROVE  ~IsHead(w, i)
    <3>1. PICK j \in 1..Len(p) : i = n + j
      <4>1. i - n \in 1..Len(p) /\ i = n + (i - n)
        BY <1>3, <1>8
      <4> QED
        BY <4>1
    <3>2. w[i] = p[j] /\ j # t
      BY <1>8, <2>2, <3>1
    <3>3. ~IsHead(p, j)
      BY <1>1, <3>2
    <3> QED
      BY <3>2, <3>3 DEF IsHead
  <2> QED
    BY <2>1, <2>2
<1> HIDE DEF w, at
<1>11. /\ \A i \in 1..n : g[i] = f[i]
       /\ g[at] = said
  BY <1>3, <1>8, <1>9
<1> HIDE DEF g
<1>12. w[at].type = kind /\ w[at].data = data
  BY <1>9 DEF Header
<1>13. ASSUME ~s.begin
       PROVE  \E h \in 1..Len(w) : Continues(w, g, h, at)
  <2>1. PICK h \in 1..n :
          /\ h + HeaderSize <= n + 1
          /\ IsHead(u, h) /\ u[h].type \in {"first", "middle"}
          /\ \A j \in (h + 1)..n : ~IsHead(u, j)
          /\ f[h] = SubSeq(record, 1, s.done)
    BY <1>13 DEF Midway, n
  <2>2. h \in 1..Len(w) /\ h + HeaderSize <= at
    BY <1>3, <1>8, <1>9, <2>1
  <2>3. IsHead(w, h) /\ w[h] = u[h] /\ g[h] = f[h]
    BY <1>8, <1>10, <1>11, <2>1
  <2>4. ASSUME NEW j \in (h + 1)..(at - 1)
        PROVE  ~IsHead(w, j)
    <3>1. j \in (h + 1)..n \/ (j \in (n + 1)..Len(w) /\ j # at)
      BY <1>3, <1>8, <1>9
    <3>2. j \in (h + 1)..n => j \in 1..n
      BY <1>3
    <3> QED
      BY <1>10, <2>1, <3>1, <3>2
  <2>5. g[at] = g[h] \o w[at].data
    BY <1>7, <1>11, <1>12, <2>1, <2>3
  <2> QED
    BY <2>1, <2>2, <2>3, <2>4, <2>5 DEF Continues
<1>14. Linked(w, g, G, at)
  <2>1. kind = "full" => data \in G
    BY <1>4, <1>5, <1>6
  <2>2. kind = "first" => said = data
    BY <1>4, <1>6
  <2>3. kind \in {"middle", "last"} => ~s.begin
    BY <1>4
  <2>4. kind = "last" => said \in G
    BY <1>4, <1>5
  <2> QED
    BY <1>11, <1>12, <1>13, <2>1, <2>2, <2>3, <2>4 DEF Linked
<1>15. ASSUME NEW i \in 1..n, IsHead(w, i)
       PROVE  Linked(w, g, G, i)
  <2>1. IsHead(u, i) /\ w[i] = u[i] /\ g[i] = f[i]
    BY <1>8, <1>10, <1>11, <1>15
  <2>2. Linked(u, f, G, i)
    BY <2>1 DEF Chain, n
  <2>3. ASSUME NEW h \in 1..n, Continues(u, f, h, i)
        PROVE  h \in 1..Len(w) /\ Continues(w, g, h, i)
    <3>1. h \in 1..Len(w) /\ w[h] = u[h] /\ g[h] = f[h]
      BY <1>3, <1>8, <1>11
    <3>2. \A j \in (h + 1)..(i - 1) : j \in 1..n
      BY <1>3
    <3> QED
      BY <1>10, <2>1, <2>3, <3>1, <3>2 DEF Continues
  <2> QED
    BY <2>1, <2>2, <2>3 DEF Linked, n
<1>16. Chain(w, g, G)
  <2>1. ASSUME NEW i \in 1..Len(w), IsHead(w, i)
        PROVE  Linked(w, g, G, i)
    <3>1. i \in 1..n \/ i = at
      BY <1>3, <1>8, <1>10, <2>1
    <3> QED
      BY <1>14, <1>15, <2>1, <3>1
  <2> QED
    BY <2>1 DEF Chain
<1>17. ASSUME ~Ends(record, s)
       PROVE  Midway(w, g, record, Later(record, s))
  <2>1. Later(record, s).begin = FALSE /\ Later(record, s).done = s.done + m
    BY DEF Later, m
  <2>2. at \in 1..Len(w) /\ at + HeaderSize <= Len(w) + 1
    <3>1. at = n + t
      BY DEF at
    <3> QED
      BY <1>2, <1>3, <1>9, <3>1
  <2>3. kind \in {"first", "middle"}
    BY <1>4, <1>17
  <2>4. IsHead(w, at)
    <3>1. "type" \in DOMAIN Header(kind, data)
      BY DEF Header
    <3>2. "type" \in DOMAIN w[at]
      BY <1>9, <3>1, Zenon
    <3>3. w[at].type # "zero"
      BY <1>12, <2>3
    <3> QED
      BY <3>2, <3>3 DEF IsHead
  <2>5. \A j \in (at + 1)..Len(w) : ~IsHead(w, j)
    <3>1. \A j \in (at + 1)..Len(w) : j \in (n + 1)..Len(w) /\ j # at
      BY <1>3, <1>9, <1>8
    <3> QED
      BY <1>10, <3>1
  <2>6. g[at] = SubSeq(record, 1, Later(record, s).done)
    BY <1>11, <2>1 DEF said
  <2> QED
    BY <1>12, <2>1, <2>2, <2>3, <2>4, <2>5, <2>6 DEF Midway
<1> QED
  BY <1>16, <1>17 DEF w, p

(* What a file consists of: fragments of the records of G.                 *)
Genuine(u, G) == \E f : Chain(u, f, G)

(* An empty log is genuine.                                                *)
LEMMA GenuineEmpty == ASSUME NEW G PROVE Genuine(<<>>, G)
<1>1. Chain(<<>>, <<>>, G)
  BY DEF Chain
<1> QED
  BY <1>1 DEF Genuine

(* A log stays genuine when more records are allowed.                      *)
LEMMA GenuineMore ==
  ASSUME NEW u, NEW G, NEW D, G \subseteq D, Genuine(u, G)
  PROVE  Genuine(u, D)
BY ChainMore DEF Genuine

(* A part of a genuine log up to a place is genuine.                       *)
LEMMA GenuinePrefix ==
  ASSUME NEW E, NEW u \in Seq(E), NEW v \in Seq(E), NEW G, Genuine(u \o v, G)
  PROVE  Genuine(u, G)
<1>1. PICK f : Chain(u \o v, f, G)
  BY DEF Genuine
<1>2. Chain(u, f, G)
  BY <1>1, ChainCut
<1> QED
  BY <1>2 DEF Genuine

(* A sequence is its first units and the others.                           *)
LEMMA InTwo ==
  ASSUME NEW E, NEW u \in Seq(E), NEW cut \in 0..Len(u)
  PROVE  /\ SubSeq(u, 1, cut) \in Seq(E) /\ SubSeq(u, cut + 1, Len(u)) \in Seq(E)
         /\ SubSeq(u, 1, cut) \o SubSeq(u, cut + 1, Len(u)) = u
<1>1. Len(u) \in Nat /\ cut \in Nat /\ cut + 1 \in Int /\ Len(u) \in Int /\ cut \in Int
  BY LenProperties
<1>2. SubSeq(u, 1, cut) \in Seq(E)
  <2>1. \A i \in 1..cut : u[i] \in E
    BY <1>1
  <2> QED
    BY <1>1, <2>1, SubSeqProperties
<1>3. SubSeq(u, cut + 1, Len(u)) \in Seq(E)
  <2>1. \A i \in (cut + 1)..Len(u) : u[i] \in E
    BY <1>1
  <2> QED
    BY <1>1, <2>1, SubSeqProperties
<1>4. SubSeq(u, 1, cut) \o SubSeq(u, cut + 1, Len(u)) = SubSeq(u, 1, Len(u))
  <2>1. cut \in (1 - 1)..Len(u) /\ Len(u) \in cut..Len(u) /\ 1 \in 1..(Len(u) + 1)
    BY <1>1
  <2> QED
    BY <2>1, ConcatAdjacentSubSeq
<1>5. SubSeq(u, 1, Len(u)) = u
  BY SubSeqFull
<1> QED
  BY <1>2, <1>3, <1>4, <1>5

(* A genuine log cut by a crash is genuine.                                *)
LEMMA GenuineCut ==
  ASSUME NEW E, NEW u \in Seq(E), NEW G, Genuine(u, G), NEW cut \in 0..Len(u)
  PROVE  Genuine(SubSeq(u, 1, cut), G)
<1>1. /\ SubSeq(u, 1, cut) \in Seq(E) /\ SubSeq(u, cut + 1, Len(u)) \in Seq(E)
      /\ SubSeq(u, 1, cut) \o SubSeq(u, cut + 1, Len(u)) = u
  BY InTwo
<1> DEFINE x == SubSeq(u, 1, cut)
           y == SubSeq(u, cut + 1, Len(u))
<1>2. x \in Seq(E) /\ y \in Seq(E) /\ Genuine(x \o y, G)
  BY <1>1
<1> HIDE DEF x, y
<1>3. Genuine(x, G)
  BY <1>2, GenuinePrefix
<1> QED
  BY <1>3 DEF x

(* Only whole records that were written are read of a genuine log.         *)
LEMMA ReadGenuine ==
  ASSUME NEW E, \A e \in E : "type" \notin DOMAIN e, NEW u \in Seq(E \cup Headers(E)),
         NEW G, Genuine(u, G)
  PROVE  ToSet(ReadRecords(u)) \subseteq G
<1>1. PICK f : Chain(u, f, G)
  BY DEF Genuine
<1> QED
  BY <1>1, ReadSound

(* What AddRecord emits keeps the log genuine, from any fragment on.       *)
LEMMA ChainEmitted ==
  ASSUME NEW E, \A e \in E : "type" \notin DOMAIN e, NEW G, NEW record \in Seq(E), record \in G,
         NEW s \in EmitStates(record), NEW u \in Seq(E \cup Headers(E)),
         NEW f, Chain(u, f, G), Midway(u, f, record, s)
  PROVE  Genuine(u \o FlattenSeq(EmitOf(record)[s]), G)
<1> DEFINE U == E \cup Headers(E)
           emitted(r) == EmitOf(record)[r]
           Kept(r) == \A w \in Seq(U) : \A g :
                        Chain(w, g, G) /\ Midway(w, g, record, r) => Genuine(w \o FlattenSeq(emitted(r)), G)
           T == {r \in EmitStates(record) : Kept(r)}
<1>1. ASSUME NEW r \in EmitStates(record), ~Ends(record, r) => Later(record, r) \in T
      PROVE  Kept(r)
  <2> SUFFICES ASSUME NEW w \in Seq(U), NEW g, Chain(w, g, G), Midway(w, g, record, r)
               PROVE  Genuine(w \o FlattenSeq(emitted(r)), G)
    OBVIOUS
  <2> DEFINE p == Fragment(record, r)
             x == w \o p
             later == Later(record, r)
  <2>1. p \in Seq(U) /\ x \in Seq(U)
    <3>1. p \in Seq(U)
      BY FragmentUnits
    <3> QED
      BY <3>1
  <2>2. PICK h : Chain(x, h, G) /\ (~Ends(record, r) => Midway(x, h, record, later))
    BY ChainFragment
  <2>3. emitted(r) = EmitStep(record, EmitOf(record), r)
    BY EmitIs
  <2>4. CASE Ends(record, r)
    <3>1. emitted(r) = <<p>> \o <<>>
      BY <2>3, <2>4 DEF EmitStep
    <3>2. FlattenSeq(<<p>> \o <<>>) = p \o FlattenSeq(<<>>)
      <4>1. <<>> \in Seq(Seq(U))
        OBVIOUS
      <4> QED
        BY <2>1, <4>1, FlattenCons
    <3>3. p \o FlattenSeq(<<>>) = p
      BY <2>1, FlattenEmpty, ConcatEmptySeq
    <3> QED
      BY <2>2, <3>1, <3>2, <3>3 DEF Genuine
  <2>5. CASE ~Ends(record, r)
    <3>1. emitted(r) = <<p>> \o emitted(later)
      BY <2>3, <2>5 DEF EmitStep
    <3>2. later \in EmitStates(record) /\ Kept(later)
      BY <1>1, <2>5
    <3>3. emitted(later) \in Seq(Seq(U))
      BY <3>2, EmitIs
    <3>4. FlattenSeq(<<p>> \o emitted(later)) = p \o FlattenSeq(emitted(later))
      BY <2>1, <3>3, FlattenCons
    <3>5. FlattenSeq(emitted(later)) \in Seq(U)
      BY <3>3, FlattenTyped
    <3>6. w \o (p \o FlattenSeq(emitted(later))) = x \o FlattenSeq(emitted(later))
      <4> HIDE DEF p, emitted
      <4>1. Associate(w, p, FlattenSeq(emitted(later)))
        BY <2>1, <3>5, AllAssociate, Zenon
      <4> QED
        BY <4>1 DEF Associate
    <3>7. Genuine(x \o FlattenSeq(emitted(later)), G)
      BY <2>1, <2>2, <2>5, <3>2
    <3> HIDE DEF emitted, p, x, later
    <3> QED
      BY <3>1, <3>4, <3>6, <3>7
  <2> QED
    BY <2>4, <2>5
<1>2. EmitStates(record) \subseteq T
  <2> HIDE DEF Kept
  <2>1. \A r \in EmitStates(record) : (~Ends(record, r) => Later(record, r) \in T) => r \in T
    BY <1>1
  <2> HIDE DEF T
  <2> QED
    BY <2>1, EmitInduction
<1> QED
  BY <1>2

(* Whatever the file and the offset the writer takes for its end.          *)
LEMMA GenuineRecord ==
  ASSUME NEW E, \A e \in E : "type" \notin DOMAIN e, NEW u \in Seq(E \cup Headers(E)),
         NEW G, Genuine(u, G), NEW record \in Seq(E), record \in G, NEW offset \in 0..BlockSize
  PROVE  Genuine(u \o FlattenSeq(AddRecord(offset, record)), G)
<1>1. PICK f : Chain(u, f, G)
  BY DEF Genuine
<1>2. Beginning(offset) \in EmitStates(record)
      /\ AddRecord(offset, record) = EmitOf(record)[Beginning(offset)]
  BY EmitIs
<1>3. Midway(u, f, record, Beginning(offset))
  BY DEF Midway, Beginning
<1> QED
  BY <1>1, <1>2, <1>3, ChainEmitted

(* What an append leaves that fails within a fragment.                     *)
LEMMA FailedAppend ==
  ASSUME NEW D, NEW s \in Seq(Seq(D)), NEW i \in 1..Len(s), NEW k \in 0..Len(s[i])
  PROVE  \E v \in Seq(D) :
           FlattenSeq(s) = (FlattenSeq(SubSeq(s, 1, i - 1)) \o SubSeq(s[i], 1, k)) \o v
<1> DEFINE before == FlattenSeq(SubSeq(s, 1, i - 1))
           x == SubSeq(s[i], 1, k)
           y == SubSeq(s[i], k + 1, Len(s[i]))
<1>1. Len(s) \in Nat /\ s[i] \in Seq(D) /\ i \in 0..Len(s) /\ i - 1 \in Nat
  BY LenProperties
<1>2. PICK z \in Seq(D) : FlattenSeq(s) = FlattenSeq(SubSeq(s, 1, i)) \o z
  BY <1>1, FlattenPrefix
<1>3. SubSeq(s, 1, i - 1) \in Seq(Seq(D))
  <2>1. \A j \in 1..(i - 1) : s[j] \in Seq(D)
    BY <1>1
  <2> QED
    BY <1>1, <2>1, SubSeqProperties
<1>4. SubSeq(s, 1, i) = Append(SubSeq(s, 1, i - 1), s[i])
  <2>1. SubSeq(s, 1, i) = SubSeq(s, 1, i - 1) \o <<s[i]>>
    <3>1. 1 \in 1..Len(s) /\ i \in 1..Len(s)
      BY <1>1
    <3> QED
      BY <3>1, SubSeqRecursiveSecond
  <2>2. SubSeq(s, 1, i - 1) \o <<s[i]>> = Append(SubSeq(s, 1, i - 1), s[i])
    BY <1>1, <1>3, AppendIsConcat
  <2> QED
    BY <2>1, <2>2
<1>5. FlattenSeq(SubSeq(s, 1, i)) = before \o s[i]
  BY <1>1, <1>3, <1>4, FlattenSnoc
<1>6. s[i] = x \o y /\ x \in Seq(D) /\ y \in Seq(D)
  BY <1>1, InTwo
<1>7. before \in Seq(D)
  BY <1>3, FlattenTyped
<1> HIDE DEF before, x, y
<1>8. before \in Seq(D)
  BY <1>7
<1>9. x \in Seq(D) /\ y \in Seq(D)
  BY <1>6
<1>10. z \in Seq(D)
  BY <1>2
<1>11. FlattenSeq(s) = (before \o s[i]) \o z
  BY <1>2, <1>5
<1>12. s[i] = x \o y
  BY <1>6
<1>13. (before \o (x \o y)) \o z = (before \o x) \o (y \o z) /\ y \o z \in Seq(D)
  <2>1. before \o x \in Seq(D) /\ y \o z \in Seq(D)
    BY <1>8, <1>9, <1>10
  <2>2. Associate(before, x, y) /\ Associate(before \o x, y, z)
    BY <1>8, <1>9, <1>10, <2>1, AllAssociate, Zenon
  <2> QED
    BY <2>1, <2>2 DEF Associate
<1>14. FlattenSeq(s) = (before \o x) \o (y \o z)
  BY <1>11, <1>12, <1>13
<1> QED
  BY <1>13, <1>14 DEF before, x

(* Of division with remainder.                                            *)
LEMMA Division ==
  ASSUME NEW m \in Nat \ {0}, NEW x \in Nat
  PROVE  x \div m \in Nat /\ x % m \in 0..(m - 1) /\ x = m * (x \div m) + (x % m)
OBVIOUS

(* There is one quotient and one remainder.                                *)
LEMMA Multiples ==
  ASSUME NEW m \in Nat \ {0}, NEW p \in Nat, NEW q \in Nat, NEW r \in 0..(m - 1), NEW s \in 0..(m - 1),
         m * p + r = m * q + s
  PROVE  p = q /\ r = s
<1>1. \A d \in Nat : d # 0 => m * d >= m
  OBVIOUS
<1>2. CASE p < q
  <2>1. m * (q - p) = m * q - m * p
    OBVIOUS
  <2>2. q - p \in Nat /\ q - p # 0
    BY <1>2
  <2> QED
    BY <1>1, <2>1, <2>2
<1>3. CASE q < p
  <2>1. m * (p - q) = m * p - m * q
    OBVIOUS
  <2>2. p - q \in Nat /\ p - q # 0
    BY <1>3
  <2> QED
    BY <1>1, <2>1, <2>2
<1> QED
  BY <1>2, <1>3

(* Numbers with one remainder keep it in common when moved together.       *)
LEMMA ModAdd ==
  ASSUME NEW m \in Nat \ {0}, NEW x \in Nat, NEW y \in Nat, NEW n \in Nat, x % m = y % m
  PROVE  (x + n) % m = (y + n) % m
<1> DEFINE a == x \div m
           b == y \div m
           r == x % m
           z == r + n
           c == z \div m
           t == z % m
<1>1. a \in Nat /\ b \in Nat /\ r \in 0..(m - 1) /\ x = m * a + r /\ y = m * b + r
  BY Division
<1>2. z \in Nat
  BY <1>1
<1>3. c \in Nat /\ t \in 0..(m - 1) /\ z = m * c + t
  BY <1>2, Division
<1> HIDE DEF a, b, r, z, c, t
<1>4. ASSUME NEW w \in Nat, NEW d \in Nat, w = m * d + r
      PROVE  (w + n) % m = t
  <2>0. PICK v \in Nat : v = w + n
    OBVIOUS
  <2>1. v = m * d + z
    BY <1>1, <1>2, <1>4, <2>0 DEF z
  <2>2. m * (d + c) = m * d + m * c
    BY <1>3
  <2>3. v = m * (d + c) + t
    BY <1>3, <2>1, <2>2
  <2>4. v \div m \in Nat /\ v % m \in 0..(m - 1) /\ v = m * (v \div m) + (v % m)
    BY Division
  <2>5. d + c \in Nat
    BY <1>3
  <2>6. v % m = t
    BY <1>3, <2>3, <2>4, <2>5, Multiples
  <2> QED
    BY <2>0, <2>6
<1> QED
  BY <1>1, <1>4

(* The writer's offset is where the file stands in its block.              *)
Aligned(u, offset) == Len(u) % BlockSize = offset % BlockSize

(* Behind its trailer, a fragment begins where the writer takes it to.     *)
LEMMA FragmentPlace ==
  ASSUME NEW E, NEW record \in Seq(E), NEW s \in EmitStates(record), NEW u, Len(u) \in Nat,
         Aligned(u, s.offset)
  PROVE  /\ Trailer(s) \in Nat /\ Trailer(s) < HeaderSize
         /\ (Len(u) + Trailer(s)) % BlockSize = Start(s)
         /\ Start(s) \in 0..(BlockSize - 1)
         /\ Trailer(s) # 0 => Len(u) % BlockSize = BlockSize - Trailer(s)
<1> DEFINE n == Len(u)
           o == s.offset
           left == Leftover(s)
<1>1. BlockSize \in Nat \ {0} /\ HeaderSize \in 1..(BlockSize - 1) /\ n \in Nat
      /\ o \in 0..BlockSize /\ left = BlockSize - o /\ left \in Nat
  BY LogAssumption DEF EmitStates, Leftover
<1>2. n % BlockSize = o % BlockSize
  BY DEF Aligned
<1>3. \A k \in 0..(BlockSize - 1) : k % BlockSize = k
  BY <1>1
<1>4. BlockSize % BlockSize = 0
  BY <1>1
<1> HIDE DEF n, o, left
<1>5. CASE left < HeaderSize
  <2>1. Trailer(s) = left /\ Start(s) = 0
    BY <1>5 DEF Trailer, Start, left
  <2>2. (n + left) % BlockSize = (o + left) % BlockSize
    <3>1. n \in Nat /\ o \in Nat /\ left \in Nat /\ BlockSize \in Nat \ {0}
      BY <1>1
    <3> QED
      BY <1>2, <3>1, ModAdd, Zenon
  <2>3. o + left = BlockSize
    BY <1>1
  <2>4. (n + left) % BlockSize = 0
    BY <1>4, <2>2, <2>3
  <2>5. left # 0 => n % BlockSize = BlockSize - left
    <3> SUFFICES ASSUME left # 0 PROVE n % BlockSize = BlockSize - left
      OBVIOUS
    <3>1. o \in 0..(BlockSize - 1) /\ o = BlockSize - left
      BY <1>1
    <3> QED
      BY <1>2, <1>3, <3>1
  <2> QED
    BY <1>1, <1>5, <2>1, <2>4, <2>5 DEF n
<1>6. CASE ~(left < HeaderSize)
  <2>1. Trailer(s) = 0 /\ Start(s) = o
    BY <1>6 DEF Trailer, Start, left, o
  <2>2. o \in 0..(BlockSize - 1)
    BY <1>1, <1>6
  <2>3. n + 0 = n
    BY <1>1
  <2>4. n % BlockSize = o
    BY <1>2, <1>3, <2>2
  <2> QED
    BY <1>1, <2>1, <2>2, <2>3, <2>4 DEF n
<1> QED
  BY <1>5, <1>6

(* What of a file behind a place is behind it.                             *)
LEMMA UnitsBehind ==
  ASSUME NEW S, NEW u \in Seq(S), NEW p \in Seq(S), NEW v \in Seq(S)
  PROVE  LET file == (u \o p) \o v IN
         /\ file \in Seq(S) /\ Len(file) = Len(u) + Len(p) + Len(v)
         /\ \A i \in 1..Len(p) : file[Len(u) + i] = p[i]
<1> DEFINE w == u \o p
<1>1. w \in Seq(S) /\ Len(w) = Len(u) + Len(p)
      /\ \A i \in 1..(Len(u) + Len(p)) : w[i] = IF i <= Len(u) THEN u[i] ELSE p[i - Len(u)]
  BY ConcatProperties
<1>2. Len(u) \in Nat /\ Len(p) \in Nat /\ Len(v) \in Nat
  BY LenProperties
<1> HIDE DEF w
<1>3. w \o v \in Seq(S) /\ Len(w \o v) = Len(w) + Len(v)
      /\ \A i \in 1..(Len(w) + Len(v)) : (w \o v)[i] = IF i <= Len(w) THEN w[i] ELSE v[i - Len(w)]
  <2>1. w \in Seq(S)
    BY <1>1
  <2> QED
    BY <2>1, ConcatProperties
<1>4. ASSUME NEW i \in 1..Len(p)
      PROVE  (w \o v)[Len(u) + i] = p[i]
  <2>1. Len(u) + i \in 1..(Len(w) + Len(v)) /\ Len(u) + i <= Len(w) /\ ~(Len(u) + i <= Len(u))
        /\ Len(u) + i \in 1..(Len(u) + Len(p)) /\ Len(u) + i - Len(u) = i
    BY <1>1, <1>2
  <2> QED
    BY <1>1, <1>3, <2>1
<1> QED
  BY <1>1, <1>2, <1>3, <1>4 DEF w

(* The reader finds p in a file, as the fragment x, and goes on behind it. *)
FoundAt(u, p, v, x) ==
  ParseOf((u \o p) \o v)[Len(u)] = <<x>> \o ParseOf((u \o p) \o v)[Len(u) + Len(p)]

(* A fragment that was written where the writer stood is found there.      *)
LEMMA FragmentFound ==
  ASSUME NEW E, \A e \in E : "type" \notin DOMAIN e, NEW u \in Seq(E \cup Headers(E)),
         NEW v \in Seq(E \cup Headers(E)), NEW record \in Seq(E), NEW s \in EmitStates(record),
         Aligned(u, s.offset)
  PROVE  FoundAt(u, Fragment(record, s), v,
                 Header(FragmentKind(record, s), FragmentData(record, s)))
<1> DEFINE U == E \cup Headers(E)
           p == Fragment(record, s)
           kind == FragmentKind(record, s)
           data == FragmentData(record, s)
           x == Header(kind, data)
           body == PhysicalRecord(kind, data)
           t == Trailer(s)
           n == Len(u)
           m == Taken(record, s)
           file == (u \o p) \o v
           at == n + t
           end == at + HeaderSize + m
<1>1. /\ p \in Seq(U) /\ Len(p) = t + HeaderSize + m /\ Len(data) = m
      /\ p[t + 1] = x
  BY FragmentUnits
<1>2. data \in Seq(E) /\ kind \in {"full", "first", "middle", "last"}
      /\ m \in Nat /\ m <= BlockSize - Start(s) - HeaderSize
  BY EmitFacts
<1>3. body \in Seq(U) /\ Len(body) = HeaderSize + m
  BY <1>1, <1>2, PhysicalUnits
<1>4. p = Zeros(t) \o body
  BY DEF Fragment
<1>5. n \in Nat /\ Len(v) \in Nat
  BY LenProperties
<1> HIDE DEF kind, data, x, body, t, m
<1>6. /\ t \in Nat /\ t < HeaderSize /\ at % BlockSize = Start(s) /\ Start(s) \in 0..(BlockSize - 1)
      /\ t # 0 => n % BlockSize = BlockSize - t
  BY <1>5, FragmentPlace DEF t
<1>7. file \in Seq(U) /\ Len(file) = n + Len(p) + Len(v)
      /\ \A i \in 1..Len(p) : file[n + i] = p[i]
  <2>1. p \in Seq(U)
    BY <1>1
  <2> HIDE DEF p
  <2> QED
    BY <2>1, UnitsBehind
<1>8. HeaderSize \in Nat /\ BlockSize \in Nat /\ 0 < HeaderSize /\ HeaderSize < BlockSize
  BY LogAssumption
<1>9. ASSUME NEW i \in 1..(HeaderSize + m)
      PROVE  p[t + i] = body[i]
  <2>1. Zeros(t) \in Seq({Header("zero", <<>>)} \cup U) /\ Len(Zeros(t)) = t
    BY <1>6 DEF Zeros
  <2>2. body \in Seq({Header("zero", <<>>)} \cup U)
    BY <1>3
  <2> HIDE DEF body, t, m
  <2>3. \A j \in 1..(t + Len(body)) :
          (Zeros(t) \o body)[j] = IF j <= t THEN Zeros(t)[j] ELSE body[j - t]
    BY <2>1, <2>2, ConcatProperties
  <2>4. t + i \in 1..(t + Len(body)) /\ ~(t + i <= t) /\ t + i - t = i
    <3>1. t \in Nat /\ m \in Nat /\ HeaderSize \in Nat /\ Len(body) = HeaderSize + m /\ i \in 1..(HeaderSize + m)
      BY <1>2, <1>3, <1>6, <1>8
    <3> QED
      BY <3>1
  <2>5. PICK j : j = t + i
    OBVIOUS
  <2>7. j \in 1..(t + Len(body)) /\ ~(j <= t) /\ j - t = i
    <3>1. t \in Nat /\ i \in Nat
      BY <1>6, <1>8
    <3> QED
      BY <2>4, <2>5, <3>1
  <2>6. (Zeros(t) \o body)[j] = body[j - t]
    BY <2>3, <2>7
  <2> QED
    BY <1>4, <2>5, <2>6, <2>7
<1>10. \A i \in 1..(HeaderSize + m) : file[at + i] = body[i]
  <2> SUFFICES ASSUME NEW i \in 1..(HeaderSize + m) PROVE file[at + i] = body[i]
    OBVIOUS
  <2>1. t + i \in 1..Len(p) /\ n + (t + i) = at + i
    BY <1>1, <1>2, <1>5, <1>6, <1>8
  <2>2. file[n + (t + i)] = p[t + i]
    BY <1>7, <2>1
  <2> HIDE DEF file, body, at, n
  <2> QED
    BY <1>9, <2>1, <2>2
<1>11. at \in 0..Len(file) /\ at < Len(file) /\ end \in 0..Len(file) /\ at \in Nat /\ end \in Nat
       /\ n \in 0..Len(file) /\ n < Len(file) /\ Len(file) \in Nat /\ end = n + Len(p)
  <2>1. Len(file) = n + Len(p) + Len(v) /\ Len(p) = t + HeaderSize + m
    BY <1>1, <1>7
  <2>2. t \in Nat /\ m \in Nat
    BY <1>2, <1>6
  <2> HIDE DEF file, n, p
  <2> QED
    BY <1>5, <1>8, <2>1, <2>2
<1> HIDE DEF p, n, file
<1>12. file[at + 1] = x
  <2>1. t + 1 \in 1..Len(p) /\ n + (t + 1) = at + 1
    BY <1>1, <1>2, <1>5, <1>6, <1>8
  <2> QED
    BY <1>1, <1>7, <2>1
<1>13. x.type = kind /\ x.data = data /\ "type" \in DOMAIN x
  BY DEF Header, x
<1>14. FragmentEnd(file, at) = end
  BY <1>1, <1>12, <1>13 DEF FragmentEnd
<1>15. end <= BlockEnd(file, at)
  <2>1. BlockEnd(file, at) = Least(Len(file), at - Start(s) + BlockSize)
    BY <1>6 DEF BlockEnd
  <2>2. end <= Len(file) /\ end <= at - Start(s) + BlockSize
    <3>1. m <= BlockSize - Start(s) - HeaderSize /\ Start(s) \in Nat /\ m \in Nat
      BY <1>2, <1>6
    <3> HIDE DEF at
    <3> QED
      BY <1>8, <1>11, <3>1
  <2> QED
    BY <2>1, <2>2 DEF Least
<1>16. SubSeq(file, at + 1, end) = body
  <2>1. SubSeq(file, at + 1, end) \in Seq(U) /\ Len(SubSeq(file, at + 1, end)) = HeaderSize + m
        /\ \A i \in 1..(HeaderSize + m) : SubSeq(file, at + 1, end)[i] = file[at + i]
    <3>0. m \in Nat
      BY <1>2
    <3>1. at + 1 \in Int /\ end \in Int /\ at + 1 <= end /\ end - (at + 1) + 1 = HeaderSize + m
      <4> HIDE DEF at
      <4> QED
        BY <1>8, <1>11, <3>0
    <3>2. \A i \in (at + 1)..end : file[i] \in U
      BY <1>7, <1>11
    <3>3. \A i \in 1..(HeaderSize + m) : at + 1 + i - 1 = at + i
      BY <1>11
    <3>4. file \in Seq(U)
      BY <1>7
    <3> HIDE DEF at, end, U
    <3>5. /\ SubSeq(file, at + 1, end) \in Seq(U)
          /\ Len(SubSeq(file, at + 1, end)) = end - (at + 1) + 1
          /\ \A i \in 1..(end - (at + 1) + 1) : SubSeq(file, at + 1, end)[i] = file[(at + 1) + i - 1]
      BY <3>1, <3>2, <3>4, SubSeqProperties
    <3> DEFINE q == SubSeq(file, at + 1, end)
    <3>6. q \in Seq(U) /\ Len(q) = HeaderSize + m
      BY <3>1, <3>5
    <3>7. \A i \in 1..(HeaderSize + m) : q[i] = file[(at + 1) + i - 1]
      BY <3>1, <3>5
    <3> HIDE DEF q
    <3>8. \A i \in 1..(HeaderSize + m) : q[i] = file[at + i]
      BY <3>3, <3>7
    <3> QED
      BY <3>6, <3>8 DEF q
  <2> DEFINE q == SubSeq(file, at + 1, end)
  <2>2. \A i \in 1..(HeaderSize + m) : q[i] = body[i]
    BY <1>10, <2>1
  <2>3. q \in Seq(U) /\ Len(q) = HeaderSize + m
    BY <2>1
  <2> HIDE DEF q, at, end
  <2>4. q = body
    BY <1>3, <2>2, <2>3
  <2> QED
    BY <2>4 DEF q
<1>17. Intact(file, at)
  BY <1>2, <1>12, <1>13, <1>14, <1>15, <1>16 DEF Intact, body, x
<1>18. ParseOf(file)[at] = <<x>> \o ParseOf(file)[end]
  <2>1. ParseOf(file)[at] = ParseStep(file, ParseOf(file), at)
    BY <1>7, <1>11, ParseIs
  <2>2. BlockEnd(file, at) \in 0..Len(file)
    BY <1>11, BlockEnds
  <2>3. at # Len(file) /\ ~(BlockEnd(file, at) - at < HeaderSize)
    BY <1>2, <1>8, <1>11, <1>15, <2>2
  <2> QED
    BY <1>12, <1>14, <1>17, <2>1, <2>3 DEF ParseStep
<1>19. ParseOf(file)[n] = ParseOf(file)[at]
  <2>1. CASE t = 0
    BY <1>5, <2>1
  <2>2. CASE t # 0
    <3>1. BlockEnd(file, n) = Least(Len(file), n - (BlockSize - t) + BlockSize)
      BY <1>6, <2>2 DEF BlockEnd
    <3>2. n - (BlockSize - t) + BlockSize = at
      BY <1>5, <1>6, <1>8
    <3>3. BlockEnd(file, n) = at
      BY <1>11, <3>1, <3>2 DEF Least
    <3>4. n # Len(file) /\ BlockEnd(file, n) - n < HeaderSize
      BY <1>5, <1>6, <1>8, <1>11, <3>3
    <3>5. ParseOf(file)[n] = ParseStep(file, ParseOf(file), n)
      BY <1>7, <1>11, ParseIs
    <3> QED
      BY <3>3, <3>4, <3>5 DEF ParseStep
  <2> QED
    BY <2>1, <2>2
<1> QED
  BY <1>11, <1>18, <1>19 DEF FoundAt, file, n, p, x, kind, data

(* A file that ends with a fragment: whatever follows is read behind it.   *)
Resumes(E, u) ==
  \A v \in Seq(E \cup Headers(E)) :
    PhysicalRecords(u \o v) = PhysicalRecords(u) \o ParseOf(u \o v)[Len(u)]

(* An empty file does.                                                     *)
LEMMA ResumesEmpty ==
  ASSUME NEW E, \A e \in E : "type" \notin DOMAIN e
  PROVE  Resumes(E, <<>>)
<1> DEFINE U == E \cup Headers(E)
<1> SUFFICES ASSUME NEW v \in Seq(U)
             PROVE  PhysicalRecords(<<>> \o v) = PhysicalRecords(<<>>) \o ParseOf(<<>> \o v)[Len(<<>>)]
  BY DEF Resumes
<1>1. <<>> \in Seq(U) /\ Len(<<>>) = 0
  OBVIOUS
<1>2. <<>> \o v = v
  BY ConcatEmptySeq
<1>3. PhysicalRecords(<<>>) = <<>>
  <2>1. 0 \in 0..Len(<<>>)
    BY <1>1
  <2>2. PhysicalRecords(<<>>) = ParseOf(<<>>)[0] /\ ParseOf(<<>>)[0] = ParseStep(<<>>, ParseOf(<<>>), 0)
    BY <1>1, <2>1, ParseIs
  <2> QED
    BY <1>1, <2>2 DEF ParseStep
<1>4. PhysicalRecords(v) = ParseOf(v)[0] /\ PhysicalRecords(v) \in Seq(Headers(E))
  <2>1. PhysicalRecords(v) = ParseOf(v)[0]
    BY ParseIs
  <2> QED
    BY <2>1, RecordsTyped
<1>5. <<>> \o PhysicalRecords(v) = PhysicalRecords(v)
  BY <1>4, ConcatEmptySeq
<1> QED
  BY <1>1, <1>2, <1>3, <1>4, <1>5

(* A number and its remainder stay apart by multiples.                     *)
LEMMA ModMoved ==
  ASSUME NEW m \in Nat \ {0}, NEW x \in Nat, NEW r \in 0..(m - 1), x % m = r, NEW n \in Nat
  PROVE  (x + n) % m = (r + n) % m
<1>1. r \in Nat /\ r % m = r
  OBVIOUS
<1> QED
  BY <1>1, ModAdd

(* One fragment more is read as one more.                                  *)
LEMMA ResumesFragment ==
  ASSUME NEW E, \A e \in E : "type" \notin DOMAIN e, NEW u \in Seq(E \cup Headers(E)),
         NEW record \in Seq(E), NEW s \in EmitStates(record), Aligned(u, s.offset), Resumes(E, u)
  PROVE  LET w == u \o Fragment(record, s)
             x == Header(FragmentKind(record, s), FragmentData(record, s)) IN
         /\ Resumes(E, w) /\ Aligned(w, Start(s) + HeaderSize + Taken(record, s))
         /\ x \in Headers(E) /\ PhysicalRecords(u) \in Seq(Headers(E))
         /\ PhysicalRecords(w) = Append(PhysicalRecords(u), x)
<1> DEFINE U == E \cup Headers(E)
           H == Headers(E)
           p == Fragment(record, s)
           w == u \o p
           x == Header(FragmentKind(record, s), FragmentData(record, s))
           n == Len(u)
           k == Len(u) + Len(p)
           read == PhysicalRecords(u)
<1>1. p \in Seq(U) /\ Len(p) = Trailer(s) + HeaderSize + Taken(record, s)
  BY FragmentUnits
<1>2. w \in Seq(U) /\ Len(w) = k
  <2> HIDE DEF p
  <2> QED
    BY <1>1, ConcatProperties
<1>3. x \in H
  BY EmitFacts DEF Header, Headers
<1>4. read \in Seq(H)
  BY RecordsTyped
<1>5. ASSUME NEW v \in Seq(U)
      PROVE  /\ ParseOf(w \o v)[k] \in Seq(H)
             /\ PhysicalRecords(w \o v) = Append(read, x) \o ParseOf(w \o v)[k]
  <2> DEFINE rest == p \o v
             f == ParseOf(w \o v)
  <2>1. rest \in Seq(U) /\ w \o v = u \o rest
    <3> HIDE DEF p
    <3>1. Associate(u, p, v)
      BY <1>1, AllAssociate, Zenon
    <3>2. rest \in Seq(U)
      BY <1>1
    <3> QED
      BY <3>1, <3>2 DEF Associate
  <2>2. PhysicalRecords(u \o rest) = read \o ParseOf(u \o rest)[n]
    <3> HIDE DEF rest
    <3> QED
      BY <2>1 DEF Resumes
  <2>3. f[n] = <<x>> \o f[k]
    <3>1. FoundAt(u, p, v, x)
      BY FragmentFound, Zenon
    <3> QED
      BY <3>1 DEF FoundAt
  <2>4. f[k] \in Seq(H)
    <3>1. w \o v \in Seq(U) /\ k \in 0..Len(w \o v)
      <4>1. Len(w \o v) = Len(w) + Len(v) /\ w \o v \in Seq(U)
        <5> HIDE DEF w
        <5> QED
          BY <1>2, ConcatProperties
      <4>2. k \in Nat /\ Len(v) \in Nat
        BY <1>2, LenProperties
      <4> HIDE DEF k
      <4> QED
        BY <1>2, <4>1, <4>2
    <3> HIDE DEF w, k
    <3> QED
      BY <3>1, ParseIs
  <2>5. PhysicalRecords(w \o v) = read \o (<<x>> \o f[k])
    BY <2>1, <2>2, <2>3
  <2> DEFINE y == f[k]
  <2>6. read \o (<<x>> \o y) = Append(read, x) \o y
    <3>1. <<x>> \in Seq(H) /\ y \in Seq(H)
      BY <1>3, <2>4
    <3>2. Append(read, x) = read \o <<x>>
      <4> HIDE DEF read, x
      <4> QED
        BY <1>3, <1>4, AppendIsConcat
    <3>4. (read \o <<x>>) \o y = read \o (<<x>> \o y)
      <4> HIDE DEF read, x, y
      <4>1. Associate(read, <<x>>, y)
        BY <1>4, <3>1, AllAssociate, Zenon
      <4> QED
        BY <4>1 DEF Associate
    <3> QED
      BY <3>2, <3>4
  <2> QED
    BY <2>4, <2>5, <2>6
<1>6. PhysicalRecords(w) = Append(read, x)
  <2>1. <<>> \in Seq(U) /\ w \o <<>> = w
    <3> HIDE DEF w
    <3> QED
      BY <1>2, ConcatEmptySeq
  <2>2. PhysicalRecords(w) = Append(read, x) \o ParseOf(w)[k]
    <3> HIDE DEF w, k, read, x
    <3> QED
      BY <1>5, <2>1
  <2>3. ParseOf(w)[k] = <<>>
    <3> HIDE DEF w, k
    <3>1. k \in 0..Len(w)
      BY <1>2, LenProperties
    <3>2. ParseOf(w)[k] = ParseStep(w, ParseOf(w), k)
      BY <1>2, <3>1, ParseIs
    <3> QED
      BY <1>2, <3>2 DEF ParseStep
  <2>4. Append(read, x) \in Seq(H)
    BY <1>3, <1>4
  <2> HIDE DEF read, x, w
  <2> QED
    BY <2>2, <2>3, <2>4, ConcatEmptySeq
<1>7. Resumes(E, w)
  <2> HIDE DEF w, x, read, k
  <2> QED
    BY <1>2, <1>5, <1>6 DEF Resumes
<1>8. Aligned(w, Start(s) + HeaderSize + Taken(record, s))
  <2>1. n \in Nat
    BY LenProperties
  <2>2. PICK t \in Nat, r \in 0..(BlockSize - 1), m \in Nat :
          t = Trailer(s) /\ r = Start(s) /\ m = Taken(record, s) /\ (n + t) % BlockSize = r
    BY <2>1, FragmentPlace, EmitFacts
  <2>3. BlockSize \in Nat \ {0} /\ HeaderSize \in Nat
    BY LogAssumption
  <2>4. n + t \in Nat /\ HeaderSize + m \in Nat
    BY <2>1, <2>3
  <2>5. ((n + t) + (HeaderSize + m)) % BlockSize = (r + (HeaderSize + m)) % BlockSize
    BY <2>2, <2>3, <2>4, ModMoved
  <2>6. Len(w) = (n + t) + (HeaderSize + m)
    <3>1. Len(w) = n + Len(p) /\ Len(p) = t + HeaderSize + m
      BY <1>1, <1>2, <2>2
    <3> HIDE DEF w, n, p
    <3> QED
      BY <2>1, <2>3, <3>1
  <2>7. Start(s) + HeaderSize + Taken(record, s) = r + (HeaderSize + m)
    BY <2>2, <2>3
  <2> QED
    BY <2>5, <2>6, <2>7 DEF Aligned
<1> QED
  BY <1>3, <1>4, <1>6, <1>7, <1>8

(* Within a record, what was written of it waits in the reader's scratch.  *)
Holds(acc, record, s) ==
  /\ s.begin => s.done = 0
  /\ ~s.begin => acc.inside /\ acc.scratch = SubSeq(record, 1, s.done)

(* The reader takes the fragments of a record together again.              *)
LEMMA TakeFragment ==
  ASSUME NEW E, NEW record \in Seq(E), NEW s \in EmitStates(record), NEW acc \in Collected(E),
         Holds(acc, record, s)
  PROVE  LET x == Header(FragmentKind(record, s), FragmentData(record, s)) IN
         /\ Ends(record, s) => Take(acc, x).whole = Append(acc.whole, record)
         /\ ~Ends(record, s) => Holds(Take(acc, x), record, Later(record, s))
<1> DEFINE kind == FragmentKind(record, s)
           data == FragmentData(record, s)
           m == Taken(record, s)
           x == Header(kind, data)
           said == SubSeq(record, 1, s.done + m)
<1>1. m \in Nat /\ s.done + m \in 0..Len(record) /\ s.done \in Nat /\ s.begin \in BOOLEAN /\ Len(record) \in Nat
  <2>1. m \in Nat /\ s.done + m \in 0..Len(record)
    BY EmitFacts
  <2>2. Len(record) \in Nat
    BY LenProperties
  <2> HIDE DEF m
  <2> QED
    BY <2>1, <2>2 DEF EmitStates
<1>2. kind = CASE s.begin /\ Ends(record, s) -> "full"
               [] s.begin /\ ~Ends(record, s) -> "first"
               [] ~s.begin /\ Ends(record, s) -> "last"
               [] OTHER -> "middle"
  BY DEF FragmentKind, FragmentType
<1>3. data = SubSeq(record, s.done + 1, s.done + m)
  BY DEF FragmentData
<1>4. x.type = kind /\ x.data = data
  BY DEF Header
<1>5. Ends(record, s) => said = record
  <2>1. SubSeq(record, 1, Len(record)) = record
    BY SubSeqFull
  <2> QED
    BY <2>1 DEF Ends
<1>6. s.begin => data = said
  <2>1. s.begin => s.done = 0
    BY DEF Holds
  <2> HIDE DEF data, m
  <2>2. s.begin => s.done + 1 = 1
    BY <2>1
  <2> QED
    BY <1>3, <2>2
<1>7. ~s.begin => acc.inside /\ acc.scratch \o data = said
  <2>1. s.done \in (1 - 1)..Len(record) /\ s.done + m \in s.done..Len(record) /\ 1 \in 1..(Len(record) + 1)
    <3> HIDE DEF m
    <3> QED
      BY <1>1
  <2> HIDE DEF data, m
  <2>2. SubSeq(record, 1, s.done) \o SubSeq(record, s.done + 1, s.done + m) = SubSeq(record, 1, s.done + m)
    BY <2>1, ConcatAdjacentSubSeq
  <2> QED
    BY <1>3, <2>2 DEF Holds
<1>8. acc = [whole |-> acc.whole, inside |-> acc.inside, scratch |-> acc.scratch]
  BY DEF Collected
<1>9. Later(record, s).begin = FALSE /\ Later(record, s).done = s.done + m
  BY DEF Later
<1> HIDE DEF kind, data, x, m
<1>10. CASE Ends(record, s)
  <2> HIDE DEF said
  <2>1. CASE s.begin
    <3>1. x.type = "full" /\ x.data = record
      BY <1>2, <1>4, <1>5, <1>6, <1>10, <2>1
    <3>2. Take(acc, x).whole = Append(acc.whole, record)
      BY <1>8, <3>1 DEF Take
    <3> QED
      BY <1>10, <3>2 DEF x, kind, data
  <2>2. CASE ~s.begin
    <3>1. x.type = "last" /\ acc.inside /\ acc.scratch \o x.data = record
      BY <1>2, <1>4, <1>5, <1>7, <1>10, <2>2
    <3>2. Take(acc, x).whole = Append(acc.whole, record)
      BY <1>8, <3>1 DEF Take
    <3> QED
      BY <1>10, <3>2 DEF x, kind, data
  <2> QED
    BY <2>1, <2>2
<1>11. CASE ~Ends(record, s)
  <2>1. CASE s.begin
    <3>1. x.type = "first" /\ x.data = said
      BY <1>2, <1>4, <1>6, <1>11, <2>1
    <3>2. Take(acc, x).inside /\ Take(acc, x).scratch = said
      BY <1>8, <3>1 DEF Take
    <3>3. Holds(Take(acc, x), record, Later(record, s))
      BY <1>9, <3>2 DEF Holds
    <3> QED
      BY <1>11, <3>3 DEF x, kind, data
  <2>2. CASE ~s.begin
    <3>1. x.type = "middle" /\ acc.inside /\ acc.scratch \o x.data = said
      BY <1>2, <1>4, <1>7, <1>11, <2>2
    <3>2. Take(acc, x).inside /\ Take(acc, x).scratch = said
      BY <1>8, <3>1 DEF Take
    <3>3. Holds(Take(acc, x), record, Later(record, s))
      BY <1>9, <3>2 DEF Holds
    <3> QED
      BY <1>11, <3>3 DEF x, kind, data
  <2> QED
    BY <2>1, <2>2
<1> QED
  BY <1>10, <1>11

(* The reader reaches the end of u, where the writer stands at offset.     *)
Ready(E, u, offset) ==
  u \in Seq(E \cup Headers(E)) /\ Resumes(E, u) /\ Aligned(u, offset)

(* A record, emitted from s on behind u, is read, and what follows too.    *)
RecordBehind(E, u, record, s) ==
  LET w == u \o FlattenSeq(EmitOf(record)[s]) IN
  Resumes(E, w) /\ record \in ToSet(ReadRecords(w))

(* The fragments of a record, from any of them on, make the record whole.  *)
LEMMA RecordFollows ==
  ASSUME NEW E, \A e \in E : "type" \notin DOMAIN e, NEW record \in Seq(E),
         NEW s \in EmitStates(record), NEW u, Ready(E, u, s.offset),
         Holds(Fold(None, PhysicalRecords(u)), record, s)
  PROVE  RecordBehind(E, u, record, s)
<1> DEFINE U == E \cup Headers(E)
           emitted(r) == EmitOf(record)[r]
           Kept(r) == \A w : Ready(E, w, r.offset) /\ Holds(Fold(None, PhysicalRecords(w)), record, r)
                               => RecordBehind(E, w, record, r)
           T == {r \in EmitStates(record) : Kept(r)}
<1>1. ASSUME NEW r \in EmitStates(record), ~Ends(record, r) => Later(record, r) \in T
      PROVE  Kept(r)
  <2> SUFFICES ASSUME NEW w, Ready(E, w, r.offset), Holds(Fold(None, PhysicalRecords(w)), record, r)
               PROVE  RecordBehind(E, w, record, r)
    OBVIOUS
  <2> DEFINE p == Fragment(record, r)
             z == w \o p
             x == Header(FragmentKind(record, r), FragmentData(record, r))
             acc == Fold(None, PhysicalRecords(w))
             later == Later(record, r)
  <2>1. w \in Seq(U) /\ Resumes(E, w) /\ Aligned(w, r.offset)
    BY DEF Ready
  <2>2. p \in Seq(U)
    BY FragmentUnits
  <2>3. z \in Seq(U)
    <3> HIDE DEF p
    <3> QED
      BY <2>1, <2>2, ConcatProperties
  <2>4. /\ Resumes(E, z) /\ Aligned(z, Start(r) + HeaderSize + Taken(record, r))
        /\ x \in Headers(E) /\ PhysicalRecords(w) \in Seq(Headers(E))
        /\ PhysicalRecords(z) = Append(PhysicalRecords(w), x)
    BY <2>1, ResumesFragment
  <2>5. acc \in Collected(E)
    BY <2>4, NoneTyped, FoldTyped
  <2>6. Fold(None, PhysicalRecords(z)) = Take(acc, x)
    <3>1. None \in Collected(E)
      BY NoneTyped
    <3> HIDE DEF x, z
    <3> QED
      BY <2>4, <3>1, FoldSnoc
  <2>7. /\ Ends(record, r) => Take(acc, x).whole = Append(acc.whole, record)
        /\ ~Ends(record, r) => Holds(Take(acc, x), record, later)
    <3> HIDE DEF later
    <3>1. Holds(acc, record, r)
      OBVIOUS
    <3> HIDE DEF acc
    <3> QED
      BY <2>5, <3>1, TakeFragment DEF later
  <2>8. emitted(r) = EmitStep(record, EmitOf(record), r)
    BY EmitIs
  <2> HIDE DEF p, z, x, acc, later
  <2>9. CASE Ends(record, r)
    <3>1. emitted(r) = <<p>> \o <<>>
      BY <2>8, <2>9 DEF EmitStep, p
    <3>2. FlattenSeq(<<p>> \o <<>>) = p \o FlattenSeq(<<>>)
      <4>1. <<>> \in Seq(Seq(U))
        OBVIOUS
      <4> QED
        BY <2>2, <4>1, FlattenCons
    <3>3. p \o FlattenSeq(<<>>) = p
      BY <2>2, FlattenEmpty, ConcatEmptySeq
    <3>4. w \o FlattenSeq(emitted(r)) = z
      BY <3>1, <3>2, <3>3 DEF z
    <3>5. record \in ToSet(ReadRecords(z))
      <4>1. ReadRecords(z) = Append(acc.whole, record)
        BY <2>6, <2>7, <2>9, ReadIs
      <4>2. acc.whole \in Seq(Seq(E))
        BY <2>5 DEF Collected
      <4> QED
        BY <4>1, <4>2, ToSetAppend
    <3> QED
      BY <2>4, <3>4, <3>5 DEF RecordBehind
  <2>10. CASE ~Ends(record, r)
    <3>1. emitted(r) = <<p>> \o emitted(later)
      BY <2>8, <2>10 DEF EmitStep, p, later
    <3>2. later \in EmitStates(record) /\ Kept(later)
      BY <1>1, <2>10 DEF later
    <3>3. emitted(later) \in Seq(Seq(U))
      BY <3>2, EmitIs
    <3> HIDE DEF emitted
    <3>4. FlattenSeq(<<p>> \o emitted(later)) = p \o FlattenSeq(emitted(later))
      BY <2>2, <3>3, FlattenCons
    <3>5. FlattenSeq(emitted(later)) \in Seq(U)
      BY <3>3, FlattenTyped
    <3>6. w \o (p \o FlattenSeq(emitted(later))) = z \o FlattenSeq(emitted(later))
      <4>1. Associate(w, p, FlattenSeq(emitted(later)))
        BY <2>1, <2>2, <3>5, AllAssociate, Zenon
      <4> QED
        BY <4>1 DEF Associate, z
    <3>7. later.offset = Start(r) + HeaderSize + Taken(record, r)
      BY DEF later, Later
    <3>8. Ready(E, z, later.offset) /\ Holds(Fold(None, PhysicalRecords(z)), record, later)
      BY <2>3, <2>4, <2>6, <2>7, <2>10, <3>7 DEF Ready
    <3>9. RecordBehind(E, z, record, later)
      BY <3>2, <3>8
    <3>10. w \o FlattenSeq(EmitOf(record)[r]) = z \o FlattenSeq(EmitOf(record)[later])
      BY <3>1, <3>4, <3>6 DEF emitted
    <3> QED
      BY <3>9, <3>10 DEF RecordBehind
  <2> QED
    BY <2>9, <2>10
<1>2. EmitStates(record) \subseteq T
  <2> HIDE DEF Kept
  <2>1. \A r \in EmitStates(record) : (~Ends(record, r) => Later(record, r) \in T) => r \in T
    BY <1>1
  <2> HIDE DEF T
  <2> QED
    BY <2>1, EmitInduction
<1>3. Kept(s)
  BY <1>2
<1> QED
  BY <1>3

(* The offset the writer keeps is where its record ended.                  *)
LEMMA OffsetMoves ==
  ASSUME NEW o \in 0..BlockSize, NEW n \in Nat
  PROVE  OffsetAfter(o, n) \in 0..BlockSize /\ OffsetAfter(o, n) % BlockSize = (o + n) % BlockSize
<1>1. BlockSize \in Nat \ {0}
  BY LogAssumption
<1>2. CASE n = 0
  BY <1>1, <1>2 DEF OffsetAfter
<1>3. CASE n # 0
  <2>1. PICK y \in Nat : y = o + n - 1 /\ y + 1 = o + n
    BY <1>1, <1>3
  <2>2. PICK r \in 0..(BlockSize - 1) : r = y % BlockSize
    BY <1>1, Division
  <2>3. (y + 1) % BlockSize = (r + 1) % BlockSize
    BY <1>1, <2>2, ModMoved
  <2>4. OffsetAfter(o, n) = r + 1
    BY <1>3, <2>1, <2>2 DEF OffsetAfter
  <2>5. r + 1 \in 0..BlockSize
    BY <1>1
  <2> QED
    BY <2>1, <2>3, <2>4, <2>5
<1> QED
  BY <1>2, <1>3

(* What AddRecord emits at the end of a file that can be read up to there  *)
(* is read: the record is recovered, and what follows it can be, too.      *)
THEOREM RecordRead ==
  ASSUME NEW E, \A e \in E : "type" \notin DOMAIN e, NEW record \in Seq(E),
         NEW offset \in 0..BlockSize, NEW u, Ready(E, u, offset)
  PROVE  LET units == FlattenSeq(AddRecord(offset, record)) IN
         /\ record \in ToSet(ReadRecords(u \o units))
         /\ Ready(E, u \o units, OffsetAfter(offset, Len(units)))
<1> DEFINE U == E \cup Headers(E)
           units == FlattenSeq(AddRecord(offset, record))
           s == Beginning(offset)
<1>1. /\ s \in EmitStates(record) /\ AddRecord(offset, record) = EmitOf(record)[s]
      /\ AddRecord(offset, record) \in Seq(Seq(U))
  BY EmitIs
<1>2. s.offset = offset /\ Holds(Fold(None, PhysicalRecords(u)), record, s)
  BY DEF Holds, Beginning
<1> HIDE DEF s
<1>3. RecordBehind(E, u, record, s)
  BY <1>1, <1>2, RecordFollows
<1>4. Resumes(E, u \o units) /\ record \in ToSet(ReadRecords(u \o units))
  BY <1>1, <1>3 DEF RecordBehind
<1>5. units \in Seq(U)
  BY <1>1, FlattenTyped
<1> HIDE DEF units
<1>6. u \in Seq(U) /\ Len(u) % BlockSize = offset % BlockSize
  BY DEF Ready, Aligned
<1>7. u \o units \in Seq(U) /\ Len(u \o units) = Len(u) + Len(units)
  BY <1>5, <1>6, ConcatProperties
<1>8. Len(u) \in Nat /\ Len(units) \in Nat /\ BlockSize \in Nat \ {0} /\ offset \in Nat
  BY <1>5, <1>6, LenProperties, LogAssumption
<1>9. (Len(u) + Len(units)) % BlockSize = (offset + Len(units)) % BlockSize
  BY <1>6, <1>8, ModAdd
<1>10. Aligned(u \o units, OffsetAfter(offset, Len(units)))
  BY <1>7, <1>8, <1>9, OffsetMoves DEF Aligned
<1> QED
  BY <1>4, <1>7, <1>10 DEF Ready, units
=============================================================================
