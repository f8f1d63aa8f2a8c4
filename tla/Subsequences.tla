---------------------------- MODULE Subsequences ----------------------------
(***************************************************************************)
(* The list comprehensions of the code, [x for x in s if ...]: what is     *)
(* left of a sequence at some of its positions.  SelectSeq is the same,    *)
(* but its definition is recursive, and nothing follows from it in a       *)
(* proof; here each element has its place by how many are kept up to it.   *)
(***************************************************************************)
EXTENDS Integers, FiniteSets, Sequences, SequencesExt, FiniteSetTheorems, SequenceTheorems, WellFoundedInduction, TLAPS

\* How many of the positions K there are up to i.
Place(K, i) == Cardinality({j \in K : j <= i})

\* The elements of s at the positions K, in their order.
Selected(s, K) == [n \in 1..Cardinality(K) |-> s[CHOOSE i \in K : Place(K, i) = n]]

\* sorted(S, key=...): the elements of S in the order of the pairs R.  Each has
\* its place by how many come before it.
Rank(S, R, x) == Cardinality({y \in S : y = x \/ <<y, x>> \in R})
Ordered(S, R) == [n \in 1..Cardinality(S) |-> CHOOSE x \in S : Rank(S, R, x) = n]

\* The pairs of numbers of which the first is less.
Increasing(S) == {e \in S \X S : e[1] < e[2]}

\* R puts any two elements of S in one order.
TotalOn(S, R) ==
    /\ \A x \in S : <<x, x>> \notin R
    /\ \A x, y \in S : x = y \/ <<x, y>> \in R \/ <<y, x>> \in R
    /\ \A x, y, z \in S : <<x, y>> \in R /\ <<y, z>> \in R => <<x, z>> \in R

\* Some positions have a first one.
LEMMA LeastIsThere ==
  ASSUME NEW D \in SUBSET Nat, D # {}
  PROVE  \E d \in D : \A e \in D : d <= e
<1> DEFINE Less == OpToRel(<, Nat)
<1>1. \A d \in D : \A e \in D : ~(<<e, d>> \in Less) => d <= e
  BY DEF OpToRel
<1>2. IsWellFoundedOn(Less, Nat)
  BY NatLessThanWellFounded
<1> HIDE DEF Less
<1>3. \E d \in D : \A e \in D : ~(<<e, d>> \in Less)
  BY <1>2, WFMin
<1>4. QED BY <1>1, <1>3

LEMMA PlaceRises ==
  ASSUME NEW m \in Nat, NEW K \in SUBSET (1..m)
  PROVE  /\ IsFiniteSet(K) /\ Cardinality(K) \in 0..m
         /\ \A i \in K : Place(K, i) \in 1..Cardinality(K) /\ Place(K, i) <= i
         /\ \A i, j \in K : i < j => Place(K, i) < Place(K, j)
<1>1. IsFiniteSet(1..m) /\ Cardinality(1..m) = m
  BY FS_Interval
<1>2. IsFiniteSet(K) /\ Cardinality(K) \in 0..m
  <2>1. IsFiniteSet(K) /\ Cardinality(K) <= Cardinality(1..m)
    BY <1>1, FS_Subset
  <2>2. Cardinality(K) \in Nat
    BY <2>1, FS_CardinalityType
  <2>3. QED BY <1>1, <2>1, <2>2
<1>3. ASSUME NEW i \in K
      PROVE  /\ Place(K, i) \in 1..Cardinality(K) /\ Place(K, i) <= i
             /\ IsFiniteSet({j \in K : j <= i})
  <2> DEFINE Up == {j \in K : j <= i}
  <2>1. Up \subseteq K /\ Up \subseteq 1..i /\ i \in Up /\ i \in Nat
    <3>1. \A j \in K : j \in 1..m
      OBVIOUS
    <3>2. i \in Nat /\ i <= i /\ \A j \in K : j <= i => j \in 1..i
      BY <3>1
    <3>3. QED BY <3>2
  <2>2. IsFiniteSet(Up) /\ Cardinality(Up) <= Cardinality(K) /\ Cardinality(Up) \in Nat
    BY <1>2, <2>1, FS_Subset, FS_CardinalityType
  <2>3. IsFiniteSet(1..i) /\ Cardinality(1..i) = i
    BY <2>1, FS_Interval
  <2>4. Cardinality(Up) <= i
    BY <2>1, <2>3, FS_Subset
  <2>5. Cardinality(Up) # 0
    BY <2>1, <2>2, FS_EmptySet
  <2>6. QED BY <2>2, <2>4, <2>5, <1>2 DEF Place
<1>4. ASSUME NEW i \in K, NEW j \in K, i < j PROVE Place(K, i) < Place(K, j)
  <2> DEFINE Low == {k \in K : k <= i}
             High == {k \in K : k <= j}
  <2>1. IsFiniteSet(Low) /\ IsFiniteSet(High) /\ Cardinality(Low) \in Nat /\ Cardinality(High) \in Nat
    BY <1>3, FS_CardinalityType
  <2>2. Low \subseteq High /\ j \in High /\ j \notin Low
    <3>1. \A k \in K : k \in Int
      OBVIOUS
    <3>2. j <= j /\ ~(j <= i) /\ \A k \in K : k <= i => k <= j
      BY <1>4, <3>1
    <3>3. QED BY <3>2
  <2>3. Cardinality(Low) <= Cardinality(High) /\ (Cardinality(High) = Cardinality(Low) => High = Low)
    BY <2>1, <2>2, FS_Subset
  <2>4. QED BY <2>1, <2>2, <2>3 DEF Place
<1>5. QED BY <1>2, <1>3, <1>4

\* What is kept of a sequence are the elements at the positions, no further from
\* its beginning than they were, and in the order in which they were.
LEMMA SelectedKeeps ==
  ASSUME NEW X, NEW s \in Seq(X), NEW K \in SUBSET DOMAIN s
  PROVE  /\ Selected(s, K) \in Seq(X) /\ DOMAIN Selected(s, K) = 1..Cardinality(K)
         /\ Len(Selected(s, K)) = Cardinality(K) /\ Cardinality(K) \in 0..Len(s)
         /\ \A i \in K : Place(K, i) \in DOMAIN Selected(s, K) /\ Place(K, i) <= i /\ Selected(s, K)[Place(K, i)] = s[i]
         /\ \A n \in DOMAIN Selected(s, K) : \E i \in K : n = Place(K, i) /\ Selected(s, K)[n] = s[i]
         /\ \A i, j \in K : i < j => Place(K, i) < Place(K, j)
<1> DEFINE c == Cardinality(K)
<1>1. Len(s) \in Nat /\ DOMAIN s = 1..Len(s) /\ K \in SUBSET (1..Len(s))
  OBVIOUS
<1>2. /\ IsFiniteSet(K) /\ c \in 0..Len(s)
      /\ \A i \in K : Place(K, i) \in 1..c /\ Place(K, i) <= i
      /\ \A i, j \in K : i < j => Place(K, i) < Place(K, j)
  BY <1>1, PlaceRises
<1>3. \A i, j \in K : Place(K, i) = Place(K, j) => i = j
  <2>1. SUFFICES ASSUME NEW i \in K, NEW j \in K, i # j PROVE Place(K, i) # Place(K, j)
    OBVIOUS
  <2>2. i < j \/ j < i
    BY <1>1, <2>1
  <2>3. Place(K, i) \in Int /\ Place(K, j) \in Int
    BY <1>2
  <2>4. QED BY <1>2, <2>2, <2>3
<1>4. ASSUME NEW n \in 1..c PROVE \E i \in K : Place(K, i) = n
  <2> DEFINE f == [i \in K |-> Place(K, i)]
  <2>1. f \in Injection(K, 1..c)
    BY <1>2, <1>3 DEF Injection, IsInjective
  <2>2. IsFiniteSet(1..c) /\ Cardinality(1..c) = c
    BY <1>2, FS_Interval
  <2>3. f \in Surjection(K, 1..c)
    BY <2>1, <2>2, FS_Injection
  <2>4. PICK i \in K : f[i] = n
    BY <2>3 DEF Surjection
  <2>5. QED BY <2>4
<1>5. ASSUME NEW i \in K PROVE (CHOOSE k \in K : Place(K, k) = Place(K, i)) = i
  BY <1>3
<1>6. DOMAIN Selected(s, K) = 1..c
  BY DEF Selected
<1>7. ASSUME NEW i \in K PROVE Selected(s, K)[Place(K, i)] = s[i]
  BY <1>2, <1>5 DEF Selected
<1>8. ASSUME NEW n \in 1..c PROVE \E i \in K : n = Place(K, i) /\ Selected(s, K)[n] = s[i]
  BY <1>4, <1>7
<1>9. Selected(s, K) \in Seq(X) /\ Len(Selected(s, K)) = c
  <2>1. \A n \in 1..c : Selected(s, K)[n] \in X
    BY <1>1, <1>8
  <2>2. Selected(s, K) = [n \in 1..c |-> Selected(s, K)[n]]
    BY <1>6 DEF Selected
  <2>3. Selected(s, K) \in [1..c -> X]
    BY <2>1, <2>2
  <2>4. c \in Nat
    BY <1>1, <1>2
  <2>5. QED BY <2>3, <2>4, <1>6
<1>10. QED BY <1>2, <1>6, <1>7, <1>8, <1>9

\* Sorting keeps every element, once, and puts them in order.
LEMMA OrderedKeeps ==
  ASSUME NEW S, IsFiniteSet(S), NEW R, TotalOn(S, R)
  PROVE  /\ Ordered(S, R) \in Seq(S) /\ DOMAIN Ordered(S, R) = 1..Cardinality(S)
         /\ Len(Ordered(S, R)) = Cardinality(S) /\ Cardinality(S) \in Nat
         /\ \A x \in S : \E n \in DOMAIN Ordered(S, R) : Ordered(S, R)[n] = x
         /\ \A m, n \in DOMAIN Ordered(S, R) : m < n => <<Ordered(S, R)[m], Ordered(S, R)[n]>> \in R
         /\ \A m, n \in DOMAIN Ordered(S, R) : Ordered(S, R)[m] = Ordered(S, R)[n] => m = n
<1> DEFINE c == Cardinality(S)
           Upto(x) == {y \in S : y = x \/ <<y, x>> \in R}
<1>1. c \in Nat
  BY FS_CardinalityType
<1>2. ASSUME NEW x \in S PROVE IsFiniteSet(Upto(x)) /\ Rank(S, R, x) \in 1..c
  <2>1. Upto(x) \subseteq S /\ x \in Upto(x)
    OBVIOUS
  <2>2. IsFiniteSet(Upto(x)) /\ Cardinality(Upto(x)) <= c /\ Cardinality(Upto(x)) \in Nat
    BY <2>1, FS_Subset, FS_CardinalityType
  <2>3. Cardinality(Upto(x)) # 0
    BY <2>1, <2>2, FS_EmptySet
  <2>4. QED BY <1>1, <2>2, <2>3 DEF Rank
<1>3. ASSUME NEW x \in S, NEW y \in S, <<x, y>> \in R PROVE Rank(S, R, x) < Rank(S, R, y)
  <2>1. Upto(x) \subseteq Upto(y) /\ y \in Upto(y) /\ y \notin Upto(x)
    BY <1>3 DEF TotalOn
  <2>2. IsFiniteSet(Upto(x)) /\ IsFiniteSet(Upto(y)) /\ Rank(S, R, x) \in Nat /\ Rank(S, R, y) \in Nat
    BY <1>1, <1>2
  <2>3. Cardinality(Upto(x)) <= Cardinality(Upto(y)) /\ (Cardinality(Upto(y)) = Cardinality(Upto(x)) => Upto(y) = Upto(x))
    BY <2>1, <2>2, FS_Subset
  <2>4. Cardinality(Upto(x)) = Rank(S, R, x) /\ Cardinality(Upto(y)) = Rank(S, R, y)
    BY DEF Rank
  <2> HIDE DEF Upto
  <2>5. QED BY <2>1, <2>2, <2>3, <2>4
<1>4. \A x, y \in S : Rank(S, R, x) = Rank(S, R, y) => x = y
  <2>1. SUFFICES ASSUME NEW x \in S, NEW y \in S, x # y PROVE Rank(S, R, x) # Rank(S, R, y)
    OBVIOUS
  <2>2. Rank(S, R, x) \in 1..c /\ Rank(S, R, y) \in 1..c
    BY <1>2
  <2>3. <<x, y>> \in R \/ <<y, x>> \in R
    BY <2>1 DEF TotalOn
  <2>4. QED BY <1>3, <2>2, <2>3
<1>5. ASSUME NEW n \in 1..c PROVE \E x \in S : Rank(S, R, x) = n
  <2> DEFINE f == [x \in S |-> Rank(S, R, x)]
  <2>1. f \in Injection(S, 1..c)
    BY <1>2, <1>4 DEF Injection, IsInjective
  <2>2. IsFiniteSet(1..c) /\ Cardinality(1..c) = c
    BY <1>1, FS_Interval
  <2>3. f \in Surjection(S, 1..c)
    BY <2>1, <2>2, FS_Injection
  <2>4. PICK x \in S : f[x] = n
    BY <2>3 DEF Surjection
  <2>5. QED BY <2>4
<1>6. PICK o : o = Ordered(S, R)
  OBVIOUS
<1>7. DOMAIN o = 1..c
  BY <1>6 DEF Ordered
<1>8. ASSUME NEW n \in 1..c PROVE o[n] \in S /\ Rank(S, R, o[n]) = n
  BY <1>5, <1>6 DEF Ordered
<1>9. ASSUME NEW x \in S PROVE o[Rank(S, R, x)] = x
  BY <1>2, <1>4, <1>8
<1>10. o \in Seq(S) /\ Len(o) = c
  <2>1. o = [n \in 1..c |-> o[n]]
    BY <1>6, <1>7 DEF Ordered
  <2>2. o \in [1..c -> S]
    BY <1>8, <2>1
  <2>3. QED BY <1>1, <1>7, <2>2
<1>11. ASSUME NEW m \in 1..c, NEW n \in 1..c, m < n PROVE <<o[m], o[n]>> \in R
  <2>1. o[m] \in S /\ o[n] \in S /\ Rank(S, R, o[m]) = m /\ Rank(S, R, o[n]) = n /\ ~(n < m) /\ m # n
    BY <1>11, <1>8
  <2>2. o[m] # o[n] /\ ~(<<o[n], o[m]>> \in R)
    BY <1>3, <2>1
  <2>3. QED BY <2>1, <2>2 DEF TotalOn
<1>12. \A m, n \in 1..c : o[m] = o[n] => m = n
  BY <1>8
<1>13. \A x \in S : \E n \in 1..c : o[n] = x
  BY <1>2, <1>9
<1>14. QED BY <1>1, <1>6, <1>7, <1>10, <1>11, <1>12, <1>13

\* There is one way to sort: a sequence of all elements in order is the sorted one.
LEMMA OrderedOnly ==
  ASSUME NEW S, IsFiniteSet(S), NEW R, TotalOn(S, R), NEW s \in Seq(S),
         \A x \in S : \E n \in DOMAIN s : s[n] = x,
         \A m, n \in DOMAIN s : m < n => <<s[m], s[n]>> \in R
  PROVE  s = Ordered(S, R)
<1> DEFINE c == Cardinality(S)
<1>1. Len(s) \in Nat /\ DOMAIN s = 1..Len(s) /\ \A n \in DOMAIN s : s[n] \in S
  OBVIOUS
<1>2. \A m, n \in DOMAIN s : s[m] = s[n] => m = n
  <2>1. SUFFICES ASSUME NEW m \in DOMAIN s, NEW n \in DOMAIN s, m # n PROVE s[m] # s[n]
    OBVIOUS
  <2>2. m < n \/ n < m
    BY <1>1, <2>1
  <2>3. <<s[m], s[n]>> \in R \/ <<s[n], s[m]>> \in R
    BY <2>2
  <2>4. QED BY <1>1, <2>3 DEF TotalOn
<1>3. \A m, n \in DOMAIN s : <<s[m], s[n]>> \in R => m < n
  <2>1. SUFFICES ASSUME NEW m \in DOMAIN s, NEW n \in DOMAIN s, <<s[m], s[n]>> \in R, ~(m < n) PROVE FALSE
    OBVIOUS
  <2>2. m = n \/ n < m
    BY <1>1, <2>1
  <2>3. s[m] \in S /\ s[n] \in S
    BY <1>1
  <2>4. CASE m = n
    BY <2>1, <2>3, <2>4 DEF TotalOn
  <2>5. CASE n < m
    <3>1. <<s[n], s[m]>> \in R
      BY <2>5
    <3>2. <<s[n], s[n]>> \in R
      BY <2>1, <2>3, <3>1 DEF TotalOn
    <3>3. QED BY <2>3, <3>2 DEF TotalOn
  <2>6. QED BY <2>2, <2>4, <2>5
<1>4. ASSUME NEW n \in DOMAIN s PROVE Rank(S, R, s[n]) = n
  <2> DEFINE Upto == {y \in S : y = s[n] \/ <<y, s[n]>> \in R}
             f == [k \in 1..n |-> s[k]]
  <2>1. n \in Nat /\ \A k \in 1..n : k \in DOMAIN s /\ (k = n \/ k < n)
    BY <1>1
  <2>2. f \in Bijection(1..n, Upto)
    <3>1. \A k \in 1..n : s[k] \in Upto
      BY <1>1, <2>1
    <3>2. f \in [1..n -> Upto]
      BY <3>1
    <3>3. \A j, k \in 1..n : f[j] = f[k] => j = k
      BY <1>2, <2>1
    <3>4. ASSUME NEW y \in Upto PROVE \E k \in 1..n : f[k] = y
      <4>1. PICK k \in DOMAIN s : s[k] = y
        OBVIOUS
      <4>2. k = n \/ k < n
        BY <1>2, <1>3, <4>1
      <4>3. k \in 1..n
        BY <1>1, <2>1, <4>2
      <4>4. QED BY <4>1, <4>3
    <3> HIDE DEF Upto, f
    <3>5. QED BY <3>2, <3>3, <3>4 DEF Bijection, Injection, Surjection, IsInjective
  <2>3. IsFiniteSet(1..n) /\ Cardinality(1..n) = n
    BY <2>1, FS_Interval
  <2>4. Cardinality(Upto) = n
    <3>1. ExistsBijection(1..n, Upto)
      BY <2>2 DEF ExistsBijection
    <3> HIDE DEF Upto
    <3>2. QED BY <2>3, <3>1, FS_Bijection
  <2>5. QED BY <2>4 DEF Rank
<1>5. PICK o : o = Ordered(S, R)
  OBVIOUS
<1>6. /\ o \in Seq(S) /\ DOMAIN o = 1..c /\ Len(o) = c /\ c \in Nat
      /\ \A x \in S : \E n \in DOMAIN o : o[n] = x
  BY <1>5, OrderedKeeps
<1>7. Len(s) = c
  <2>1. PICK l : l = Len(s)
    OBVIOUS
  <2>2. PICK g : g = [n \in 1..l |-> s[n]]
    OBVIOUS
  <2>3. g \in Bijection(1..l, S)
    <3>1. g \in [1..l -> S]
      BY <1>1, <2>1, <2>2
    <3>2. QED BY <1>1, <1>2, <2>1, <2>2, <3>1 DEF Bijection, Injection, Surjection, IsInjective
  <2>4. IsFiniteSet(1..l) /\ Cardinality(1..l) = l
    <3>1. l \in Nat
      BY <1>1, <2>1
    <3>2. QED BY <3>1, FS_Interval
  <2>5. ExistsBijection(1..l, S)
    BY <2>3 DEF ExistsBijection
  <2>6. QED BY <2>1, <2>4, <2>5, FS_Bijection
<1>8. ASSUME NEW n \in 1..c PROVE o[n] = s[n]
  <2>1. n \in DOMAIN s /\ s[n] \in S /\ Rank(S, R, s[n]) = n
    BY <1>1, <1>4, <1>7
  <2>2. o[n] = CHOOSE x \in S : Rank(S, R, x) = n
    BY <1>5 DEF Ordered
  <2>3. o[n] \in S /\ Rank(S, R, o[n]) = n
    BY <2>1, <2>2
  <2>4. PICK m \in DOMAIN s : s[m] = o[n]
    BY <2>3
  <2>5. m = n
    BY <1>4, <2>3, <2>4
  <2>6. QED BY <2>4, <2>5
<1>9. QED
  <2>1. s = [n \in 1..c |-> s[n]] /\ o = [n \in 1..c |-> o[n]]
    BY <1>1, <1>6, <1>7
  <2>2. QED BY <1>5, <1>8, <2>1


-----------------------------------------------------------------------------
(***************************************************************************)
(* Facts about sequences that proofs about the lists of the code need.     *)
(***************************************************************************)
\* What the elements of a concatenation, of s with x at its end, and of s without
\* its first are.
EachOnce(s) == \A i, j \in DOMAIN s : s[i] = s[j] => i = j

IsConcat(z, s, a) ==
    /\ Len(s) \in Nat /\ Len(a) \in Nat /\ Len(z) = Len(s) + Len(a)
    /\ DOMAIN s = 1..Len(s) /\ DOMAIN a = 1..Len(a) /\ DOMAIN z = 1..(Len(s) + Len(a))
    /\ \A i \in DOMAIN s : i \in DOMAIN z /\ z[i] = s[i]
    /\ \A i \in DOMAIN a : i + Len(s) \in DOMAIN z /\ z[i + Len(s)] = a[i]
    /\ \A i \in DOMAIN z : \/ i \in DOMAIN s /\ z[i] = s[i]
                           \/ i \notin DOMAIN s /\ i - Len(s) \in DOMAIN a /\ z[i] = a[i - Len(s)]
    /\ ToSet(z) = ToSet(s) \cup ToSet(a)
IsAppend(z, s, x) ==
    /\ Len(s) \in Nat /\ Len(z) = Len(s) + 1
    /\ DOMAIN s = 1..Len(s) /\ DOMAIN z = 1..(Len(s) + 1)
    /\ \A i \in DOMAIN s : i \in DOMAIN z /\ i < Len(s) + 1 /\ z[i] = s[i]
    /\ Len(s) + 1 \in DOMAIN z /\ Len(s) + 1 \notin DOMAIN s /\ z[Len(s) + 1] = x
    /\ \A i \in DOMAIN z : i \in DOMAIN s \/ i = Len(s) + 1
    /\ ToSet(z) = ToSet(s) \cup {x}
IsTail(z, s) ==
    /\ Len(s) \in Nat /\ DOMAIN s = 1..Len(s) /\ 1 \in DOMAIN s /\ Head(s) = s[1]
    /\ DOMAIN z = 1..(Len(s) - 1)
    /\ \A i \in DOMAIN z : i + 1 \in DOMAIN s /\ z[i] = s[i + 1]
    /\ \A i \in DOMAIN s : i = 1 \/ (i - 1 \in DOMAIN z /\ z[i - 1] = s[i])
    /\ ToSet(s) = {Head(s)} \cup ToSet(z)

\* What a concatenation holds is what its parts hold, at their places.
LEMMA ConcatElements ==
  ASSUME NEW X, NEW s \in Seq(X), NEW a \in Seq(X)
  PROVE  (s \o a) \in Seq(X) /\ IsConcat(s \o a, s, a)
<1>6. PICK z : z = s \o a
  OBVIOUS
<1>1. Len(s) \in Nat /\ DOMAIN s = 1..Len(s) /\ Len(a) \in Nat /\ DOMAIN a = 1..Len(a)
  OBVIOUS
<1>2. /\ z \in Seq(X) /\ Len(z) = Len(s) + Len(a)
      /\ \A i \in 1..(Len(s) + Len(a)) : z[i] = IF i <= Len(s) THEN s[i] ELSE a[i - Len(s)]
  BY <1>6, ConcatProperties
<1>3. /\ DOMAIN z = 1..(Len(s) + Len(a))
      /\ \A i \in DOMAIN s : i \in DOMAIN z /\ z[i] = s[i]
      /\ \A i \in DOMAIN a : i + Len(s) \in DOMAIN z /\ z[i + Len(s)] = a[i]
      /\ \A i \in DOMAIN z : \/ i \in DOMAIN s /\ z[i] = s[i]
                             \/ i \notin DOMAIN s /\ i - Len(s) \in DOMAIN a /\ z[i] = a[i - Len(s)]
  BY <1>1, <1>2
<1>4. ToSet(z) = ToSet(s) \cup ToSet(a)
  <2>1. ASSUME NEW e \in ToSet(z) PROVE e \in ToSet(s) \cup ToSet(a)
    BY <1>3 DEF ToSet
  <2>2. ASSUME NEW e \in ToSet(s) PROVE e \in ToSet(z)
    BY <1>3 DEF ToSet
  <2>3. ASSUME NEW e \in ToSet(a) PROVE e \in ToSet(z)
    BY <1>3 DEF ToSet
  <2>4. QED BY <2>1, <2>2, <2>3
<1>5. z \in Seq(X) /\ IsConcat(z, s, a)
  BY <1>1, <1>2, <1>3, <1>4, Zenon DEF IsConcat
<1>7. QED BY <1>5, <1>6

\* Two lists with nothing in common and no repeats make a list with none.
LEMMA ConcatOnce ==
  ASSUME NEW X, NEW s \in Seq(X), NEW a \in Seq(X), EachOnce(s), EachOnce(a), \A e \in ToSet(s) : e \notin ToSet(a)
  PROVE  EachOnce(s \o a)
<1>9. PICK z : z = s \o a
  OBVIOUS
<1>10. IsConcat(z, s, a)
  BY <1>9, ConcatElements
<1>1. /\ Len(s) \in Nat /\ DOMAIN z = 1..(Len(s) + Len(a)) /\ Len(a) \in Nat
      /\ \A i \in DOMAIN z : \/ i \in DOMAIN s /\ z[i] = s[i]
                             \/ i \notin DOMAIN s /\ i - Len(s) \in DOMAIN a /\ z[i] = a[i - Len(s)]
  BY <1>10 DEF IsConcat
<1>2. /\ \A i \in DOMAIN s : s[i] \in ToSet(s)
      /\ \A i \in DOMAIN a : a[i] \in ToSet(a)
  BY DEF ToSet
<1>3. SUFFICES ASSUME NEW i \in DOMAIN z, NEW j \in DOMAIN z, z[i] = z[j] PROVE i = j
  BY <1>9 DEF EachOnce
<1>4. CASE i \in DOMAIN s /\ j \in DOMAIN s
  BY <1>1, <1>3, <1>4 DEF EachOnce
<1>5. CASE i \notin DOMAIN s /\ j \notin DOMAIN s
  <2>1. i - Len(s) = j - Len(s)
    BY <1>1, <1>3, <1>5 DEF EachOnce
  <2>2. QED BY <1>1, <2>1
<1>6. CASE i \in DOMAIN s /\ j \notin DOMAIN s
  BY <1>1, <1>2, <1>3, <1>6
<1>7. CASE i \notin DOMAIN s /\ j \in DOMAIN s
  BY <1>1, <1>2, <1>3, <1>7
<1>8. QED BY <1>4, <1>5, <1>6, <1>7

\* What Append adds, and what Tail takes away.
LEMMA AppendElements ==
  ASSUME NEW X, NEW s \in Seq(X), NEW x \in X
  PROVE  Append(s, x) \in Seq(X) /\ IsAppend(Append(s, x), s, x)
<1>6. PICK z : z = Append(s, x)
  OBVIOUS
<1>1. Len(s) \in Nat /\ DOMAIN s = 1..Len(s)
  OBVIOUS
<1>2. /\ z \in Seq(X) /\ Len(z) = Len(s) + 1
      /\ \A i \in 1..Len(s) : z[i] = s[i]
      /\ z[Len(s) + 1] = x
  BY <1>6, AppendProperties
<1>3. /\ DOMAIN z = 1..(Len(s) + 1)
      /\ \A i \in DOMAIN s : i \in DOMAIN z /\ i < Len(s) + 1 /\ z[i] = s[i]
      /\ Len(s) + 1 \in DOMAIN z /\ Len(s) + 1 \notin DOMAIN s
      /\ \A i \in DOMAIN z : i \in DOMAIN s \/ i = Len(s) + 1
  BY <1>1, <1>2
<1>4. ToSet(z) = ToSet(s) \cup {x}
  <2>1. ASSUME NEW e \in ToSet(z) PROVE e \in ToSet(s) \cup {x}
    BY <1>2, <1>3 DEF ToSet
  <2>2. ASSUME NEW e \in ToSet(s) PROVE e \in ToSet(z)
    BY <1>3 DEF ToSet
  <2>3. x \in ToSet(z)
    BY <1>2, <1>3 DEF ToSet
  <2>4. QED BY <2>1, <2>2, <2>3
<1>5. z \in Seq(X) /\ IsAppend(z, s, x)
  BY <1>1, <1>2, <1>3, <1>4, Zenon DEF IsAppend
<1>7. QED BY <1>5, <1>6

LEMMA TailElements ==
  ASSUME NEW X, NEW s \in Seq(X), s # <<>>
  PROVE  Tail(s) \in Seq(X) /\ IsTail(Tail(s), s) /\ Head(s) \in X
<1>6. PICK z : z = Tail(s)
  OBVIOUS
<1>1. Len(s) \in Nat /\ DOMAIN s = 1..Len(s) /\ Len(s) # 0
  BY EmptySeq
<1>2. /\ Head(s) \in X /\ Head(s) = s[1] /\ z \in Seq(X) /\ Len(z) = Len(s) - 1
      /\ \A i \in 1..Len(z) : z[i] = s[i + 1]
  <2>1. Head(s) = s[1] /\ Head(s) \in X
    BY <1>1
  <2>2. QED BY <2>1, <1>6, HeadTailProperties
<1>3. /\ DOMAIN z = 1..(Len(s) - 1) /\ 1 \in DOMAIN s
      /\ \A i \in DOMAIN z : i + 1 \in DOMAIN s /\ z[i] = s[i + 1]
      /\ \A i \in DOMAIN s : i = 1 \/ (i - 1 \in DOMAIN z /\ z[i - 1] = s[i])
  <2>1. DOMAIN z = 1..(Len(s) - 1) /\ 1 \in DOMAIN s
    BY <1>1, <1>2
  <2>2. ASSUME NEW i \in DOMAIN z PROVE i + 1 \in DOMAIN s /\ z[i] = s[i + 1]
    BY <1>1, <1>2, <2>1
  <2>3. ASSUME NEW i \in DOMAIN s, i # 1 PROVE i - 1 \in DOMAIN z /\ z[i - 1] = s[i]
    <3>1. i - 1 \in DOMAIN z /\ (i - 1) + 1 = i
      BY <1>1, <2>1, <2>3
    <3>2. z[i - 1] = s[(i - 1) + 1]
      BY <2>2, <3>1
    <3>3. QED BY <3>1, <3>2
  <2>4. QED BY <2>1, <2>2, <2>3, Zenon
<1>4. ToSet(s) = {Head(s)} \cup ToSet(z)
  <2>1. ASSUME NEW e \in ToSet(s) PROVE e \in {Head(s)} \cup ToSet(z)
    <3>1. PICK i \in DOMAIN s : s[i] = e
      BY DEF ToSet
    <3>2. CASE i = 1
      BY <1>2, <3>1, <3>2
    <3>3. CASE i # 1
      <4>1. i - 1 \in DOMAIN z /\ z[i - 1] = e
        BY <1>3, <3>1, <3>3, Zenon
      <4>2. QED BY <4>1, Zenon DEF ToSet
    <3>4. QED BY <3>2, <3>3
  <2>2. ASSUME NEW e \in ToSet(z) PROVE e \in ToSet(s)
    BY <1>3 DEF ToSet
  <2>3. Head(s) \in ToSet(s)
    BY <1>2, <1>3 DEF ToSet
  <2>4. QED BY <2>1, <2>2, <2>3
<1>5. z \in Seq(X) /\ IsTail(z, s) /\ Head(s) \in X
  BY <1>1, <1>2, <1>3, <1>4, Zenon DEF IsTail
<1>7. QED BY <1>5, <1>6

\* A list without repeats is as long as it has elements.
LEMMA OnceCounts ==
  ASSUME NEW X, NEW s \in Seq(X), EachOnce(s)
  PROVE  IsFiniteSet(ToSet(s)) /\ Cardinality(ToSet(s)) = Len(s)
<1>1. PICK k : k = Len(s)
  OBVIOUS
<1>2. k \in Nat /\ DOMAIN s = 1..k
  BY <1>1
<1>3. \A i \in 1..k : s[i] \in ToSet(s)
  BY <1>2 DEF ToSet
<1>4. s = [i \in 1..k |-> s[i]]
  BY <1>1, <1>2
<1>5. s \in [1..k -> ToSet(s)]
  BY <1>3, <1>4
<1>6. s \in Bijection(1..k, ToSet(s))
  <2>1. \A e \in ToSet(s) : \E i \in 1..k : s[i] = e
    BY <1>2 DEF ToSet
  <2>2. \A i, j \in 1..k : s[i] = s[j] => i = j
    BY <1>2 DEF EachOnce
  <2>3. QED BY <1>5, <2>1, <2>2 DEF Bijection, Injection, Surjection, IsInjective
<1>7. IsFiniteSet(1..k) /\ Cardinality(1..k) = k
  BY <1>2, FS_Interval
<1>8. ExistsBijection(1..k, ToSet(s))
  BY <1>6 DEF ExistsBijection
<1>9. QED BY <1>1, <1>7, <1>8, FS_Bijection

\* What the elements of z are when s takes the place of those of u after the first
\* k and before the l-th.
IsCut(z, u, k, l, s) ==
    /\ Len(s) \in Nat /\ DOMAIN s = 1..Len(s) /\ Len(u) \in Nat /\ DOMAIN u = 1..Len(u)
    /\ DOMAIN z = 1..(k + Len(s) + (Len(u) - l + 1))
    /\ \A j \in 1..k : j \in DOMAIN z /\ z[j] = u[j]
    /\ \A j \in 1..Len(s) : k + j \in DOMAIN z /\ z[k + j] = s[j]
    /\ \A j \in l..Len(u) : j - l + 1 + k + Len(s) \in DOMAIN z /\ z[j - l + 1 + k + Len(s)] = u[j]
    /\ \A j \in DOMAIN z : \/ j \in 1..k /\ z[j] = u[j]
                           \/ j - k \in 1..Len(s) /\ z[j] = s[j - k]
                           \/ j - k - Len(s) + l - 1 \in l..Len(u) /\ z[j] = u[j - k - Len(s) + l - 1]

LEMMA CutElements ==
  ASSUME NEW X, NEW u \in Seq(X), NEW s \in Seq(X), NEW k \in 0..Len(u), NEW l \in (k + 1)..(Len(u) + 1)
  PROVE  /\ (SubSeq(u, 1, k) \o s \o SubSeq(u, l, Len(u))) \in Seq(X)
         /\ IsCut(SubSeq(u, 1, k) \o s \o SubSeq(u, l, Len(u)), u, k, l, s)
<1>1. PICK n, c : n = Len(u) /\ c = Len(s)
  OBVIOUS
<1>2. /\ n \in Nat /\ c \in Nat /\ k \in Nat /\ l \in Nat /\ k <= n /\ k < l /\ l <= n + 1 /\ 1 <= l
      /\ DOMAIN u = 1..n /\ DOMAIN s = 1..c
  <2>1. n \in Nat /\ c \in Nat /\ DOMAIN u = 1..n /\ DOMAIN s = 1..c
    BY <1>1
  <2>2. k \in 0..n /\ l \in (k + 1)..(n + 1)
    BY <1>1
  <2>3. QED BY <2>1, <2>2
<1>3. PICK p, q : p = SubSeq(u, 1, k) /\ q = SubSeq(u, l, n)
  OBVIOUS
<1>4. p \in Seq(X) /\ Len(p) = k /\ \A j \in 1..k : p[j] = u[j]
  <2>1. \A j \in 1..k : u[j] \in X
    BY <1>1, <1>2, ElementOfSeq
  <2>2. /\ p \in Seq(X) /\ Len(p) = IF 1 <= k THEN k - 1 + 1 ELSE 0
        /\ \A j \in 1..(k - 1 + 1) : p[j] = u[1 + j - 1]
    BY <1>2, <1>3, <2>1, SubSeqProperties
  <2>3. ASSUME NEW j \in 1..k PROVE p[j] = u[j]
    <3>1. j \in 1..(k - 1 + 1) /\ 1 + j - 1 = j
      BY <1>2
    <3>2. QED BY <2>2, <3>1
  <2>4. QED BY <1>2, <2>2, <2>3
<1>5. q \in Seq(X) /\ Len(q) = n - l + 1 /\ \A j \in 1..(n - l + 1) : q[j] = u[l + j - 1]
  <2>1. \A j \in l..n : u[j] \in X
    BY <1>1, <1>2, ElementOfSeq
  <2>2. /\ q \in Seq(X) /\ Len(q) = IF l <= n THEN n - l + 1 ELSE 0
        /\ \A j \in 1..(n - l + 1) : q[j] = u[l + j - 1]
    BY <1>2, <1>3, <2>1, SubSeqProperties
  <2>3. QED BY <1>2, <2>2
<1>6. PICK w, z : w = p \o s /\ z = w \o q
  OBVIOUS
<1>7. w \in Seq(X) /\ IsConcat(w, p, s)
  BY <1>4, <1>6, ConcatElements
<1>8. z \in Seq(X) /\ IsConcat(z, w, q)
  BY <1>5, <1>6, <1>7, ConcatElements
<1>9. /\ Len(w) = k + c /\ DOMAIN p = 1..k /\ DOMAIN w = 1..(k + c)
      /\ \A j \in 1..k : j \in DOMAIN w /\ w[j] = p[j]
      /\ \A j \in 1..c : j + k \in DOMAIN w /\ w[j + k] = s[j]
      /\ \A j \in 1..(k + c) : \/ j \in 1..k /\ w[j] = p[j]
                               \/ j \notin 1..k /\ j - k \in 1..c /\ w[j] = s[j - k]
  BY <1>1, <1>2, <1>4, <1>7 DEF IsConcat
<1>10. PICK v : v = n - l + 1
  OBVIOUS
<1>11. /\ v \in Nat /\ Len(q) = v /\ DOMAIN q = 1..v /\ DOMAIN z = 1..(k + c + v)
       /\ \A j \in 1..(k + c) : j \in DOMAIN z /\ z[j] = w[j]
       /\ \A j \in 1..v : j + (k + c) \in DOMAIN z /\ z[j + (k + c)] = q[j]
       /\ \A j \in DOMAIN z : \/ j \in 1..(k + c) /\ z[j] = w[j]
                              \/ j \notin 1..(k + c) /\ j - (k + c) \in 1..v /\ z[j] = q[j - (k + c)]
  <2>1. v \in Nat /\ Len(q) = v /\ DOMAIN q = 1..v
    BY <1>2, <1>5, <1>8, <1>10 DEF IsConcat
  <2>2. DOMAIN w = 1..(k + c) /\ Len(w) = k + c
    BY <1>9
  <2>3. QED BY <1>8, <2>1, <2>2 DEF IsConcat
<1>12. \A j \in 1..k : j \in DOMAIN z /\ z[j] = u[j]
  <2>1. SUFFICES ASSUME NEW j \in 1..k PROVE j \in DOMAIN z /\ z[j] = u[j]
    OBVIOUS
  <2>2. j \in 1..(k + c)
    BY <1>2
  <2>3. QED BY <1>4, <1>9, <1>11, <2>2
<1>13. \A j \in 1..c : k + j \in DOMAIN z /\ z[k + j] = s[j]
  <2>1. SUFFICES ASSUME NEW j \in 1..c PROVE k + j \in DOMAIN z /\ z[k + j] = s[j]
    OBVIOUS
  <2>2. k + j \in 1..(k + c) /\ k + j = j + k
    BY <1>2
  <2>3. w[k + j] = s[j]
    BY <1>9, <2>2
  <2>4. QED BY <1>11, <2>2, <2>3
<1>14. ASSUME NEW j \in l..n PROVE j - l + 1 + k + c \in DOMAIN z /\ z[j - l + 1 + k + c] = u[j]
  <2>1. PICK i : i = j - l + 1
    OBVIOUS
  <2>2. i \in 1..v /\ l + i - 1 = j /\ i + (k + c) = j - l + 1 + k + c
    BY <1>2, <1>10, <2>1
  <2>3. q[i] = u[j]
    BY <1>5, <1>10, <2>2
  <2>4. i + (k + c) \in DOMAIN z /\ z[i + (k + c)] = q[i]
    BY <1>11, <2>2
  <2>5. QED BY <2>2, <2>3, <2>4
<1>15. ASSUME NEW j \in DOMAIN z
       PROVE  \/ j \in 1..k /\ z[j] = u[j]
              \/ j - k \in 1..c /\ z[j] = s[j - k]
              \/ j - k - c + l - 1 \in l..n /\ z[j] = u[j - k - c + l - 1]
  <2>1. j \in Nat
    BY <1>11
  <2>2. CASE j \in 1..(k + c) /\ z[j] = w[j]
    BY <1>4, <1>9, <2>2
  <2>3. CASE j - (k + c) \in 1..v /\ z[j] = q[j - (k + c)]
    <3>1. PICK i : i = j - (k + c)
      OBVIOUS
    <3>2. i \in 1..v /\ l + i - 1 = j - k - c + l - 1 /\ j - k - c + l - 1 \in l..n
      BY <1>2, <1>10, <2>1, <2>3, <3>1
    <3>3. q[i] = u[l + i - 1]
      BY <1>5, <1>10, <3>2
    <3>4. QED BY <2>3, <3>1, <3>2, <3>3
  <2>4. QED BY <1>11, <2>2, <2>3
<1>16. DOMAIN z = 1..(k + c + (n - l + 1))
  BY <1>10, <1>11
<1>17. IsCut(z, u, k, l, s)
  BY <1>1, <1>2, <1>12, <1>13, <1>14, <1>15, <1>16, Zenon DEF IsCut
<1>18. QED BY <1>1, <1>3, <1>6, <1>8, <1>17

\* Any two elements of s, the earlier one first, make a pair of R.
PairsIn(s, R) == \A i, j \in DOMAIN s : i < j => <<s[i], s[j]>> \in R

\* Positions behind a cut are not before it, and keep their order.
LEMMA ShiftsPast ==
  ASSUME NEW i \in Nat, NEW j \in Nat, NEW k \in Nat, NEW c \in Nat, i < j
  PROVE  ~(i - k \in 1..c /\ j \in 1..k)
OBVIOUS

LEMMA ShiftsKeep ==
  ASSUME NEW i \in Nat, NEW j \in Nat, NEW k \in Nat, NEW c \in Nat, NEW l \in Nat, i < j
  PROVE  i - k - c + l - 1 < j - k - c + l - 1
OBVIOUS

\* What is put into a sequence keeps its pairs with what stays on either side.
LEMMA CutPairs ==
  ASSUME NEW z, NEW u, NEW s, NEW R, NEW k \in Nat, NEW l \in Nat, k < l, l <= Len(u) + 1, IsCut(z, u, k, l, s),
         PairsIn(u, R), PairsIn(s, R),
         \A i \in 1..k, j \in DOMAIN s : <<u[i], s[j]>> \in R,
         \A i \in DOMAIN s, j \in l..Len(u) : <<s[i], u[j]>> \in R
  PROVE  PairsIn(z, R)
<1>1. PICK n, c : n = Len(u) /\ c = Len(s)
  OBVIOUS
<1>2. /\ n \in Nat /\ c \in Nat /\ l <= n + 1 /\ DOMAIN u = 1..n /\ DOMAIN s = 1..c /\ DOMAIN z = 1..(k + c + (n - l + 1))
      /\ \A j \in DOMAIN z : \/ j \in 1..k /\ z[j] = u[j]
                             \/ j - k \in 1..c /\ z[j] = s[j - k]
                             \/ j - k - c + l - 1 \in l..n /\ z[j] = u[j - k - c + l - 1]
  BY <1>1, Zenon DEF IsCut
<1>3. SUFFICES ASSUME NEW i \in DOMAIN z, NEW j \in DOMAIN z, i < j PROVE <<z[i], z[j]>> \in R
  BY DEF PairsIn
<1>4. i \in Nat /\ j \in Nat /\ i < j
  BY <1>2, <1>3
<1>5. PICK a, b, d, e : a = i - k /\ b = j - k /\ d = i - k - c + l - 1 /\ e = j - k - c + l - 1
  OBVIOUS
<1>6. /\ (i \in 1..k /\ z[i] = u[i]) \/ (a \in 1..c /\ z[i] = s[a]) \/ (d \in l..n /\ z[i] = u[d])
      /\ (j \in 1..k /\ z[j] = u[j]) \/ (b \in 1..c /\ z[j] = s[b]) \/ (e \in l..n /\ z[j] = u[e])
  BY <1>2, <1>3, <1>5
<1>13. n \in Nat /\ c \in Nat /\ l <= n + 1
  BY <1>2
<1>7. \A x, y \in 1..n : x < y => <<u[x], u[y]>> \in R
  BY <1>2 DEF PairsIn
<1>8. \A x, y \in 1..c : x < y => <<s[x], s[y]>> \in R
  BY <1>2 DEF PairsIn
<1>9. CASE i \in 1..k /\ z[i] = u[i]
  <2>1. CASE j \in 1..k /\ z[j] = u[j]
    <3>1. i \in 1..n /\ j \in 1..n
      BY <1>2, <1>9, <2>1
    <3>2. QED BY <1>4, <1>7, <1>9, <2>1, <3>1
  <2>2. CASE b \in 1..c /\ z[j] = s[b]
    BY <1>2, <1>9, <2>2
  <2>3. CASE e \in l..n /\ z[j] = u[e]
    <3>1. i \in 1..n /\ e \in 1..n /\ i < e
      BY <1>2, <1>9, <2>3
    <3>2. QED BY <1>7, <1>9, <2>3, <3>1
  <2>4. QED BY <1>6, <2>1, <2>2, <2>3
<1>10. CASE a \in 1..c /\ z[i] = s[a]
  <2>1. CASE j \in 1..k /\ z[j] = u[j]
    <3>1. i - k \in 1..c /\ j \in 1..k
      BY <1>5, <1>10, <2>1, Zenon
    <3>4. FALSE
      BY <1>4, <1>13, <3>1, ShiftsPast, Zenon
    <3>2. QED BY <3>4
  <2>2. CASE b \in 1..c /\ z[j] = s[b]
    <3>1. a < b
      BY <1>4, <1>5
    <3>2. QED BY <1>8, <1>10, <2>2, <3>1
  <2>3. CASE e \in l..n /\ z[j] = u[e]
    BY <1>1, <1>2, <1>10, <2>3
  <2>4. QED BY <1>6, <2>1, <2>2, <2>3
<1>11. CASE d \in l..n /\ z[i] = u[d]
  <2>5. i - k - c >= 1 /\ d \in Int /\ l <= d /\ d <= n
    <3>1. d \in l..n /\ l \in Nat /\ n \in Nat
      BY <1>11, <1>13
    <3>2. d \in Int /\ l <= d /\ d <= n
      BY <3>1
    <3>3. i - k - c + l - 1 >= l
      BY <1>5, <3>2
    <3>4. QED BY <1>4, <1>13, <3>2, <3>3
  <2>1. CASE j \in 1..k /\ z[j] = u[j]
    <3>1. FALSE
      BY <1>4, <1>13, <2>1, <2>5
    <3>2. QED BY <3>1
  <2>2. CASE b \in 1..c /\ z[j] = s[b]
    <3>1. FALSE
      <4>1. b \in 1..c /\ b = j - k
        BY <1>5, <2>2
      <4>2. j - k <= c
        BY <1>13, <4>1
      <4>3. QED BY <1>4, <1>13, <2>5, <4>2
    <3>2. QED BY <3>1
  <2>3. CASE e \in l..n /\ z[j] = u[e]
    <3>1. d \in 1..n /\ e \in 1..n /\ d < e
      <4>1. d < e
        <5>1. i - k - c + l - 1 < j - k - c + l - 1
          BY <1>4, <1>13, ShiftsKeep, Zenon
        <5>2. QED BY <1>5, <5>1, Zenon
      <4>2. e \in l..n
        BY <2>3
      <4>3. QED BY <1>13, <2>5, <4>1, <4>2
    <3>2. QED BY <1>7, <1>11, <2>3, <3>1
  <2>4. QED BY <1>6, <2>1, <2>2, <2>3
<1>12. QED BY <1>6, <1>9, <1>10, <1>11

\* What is kept of a sequence is the sorted one of its elements when they are in order.
LEMMA SelectedIsOrdered ==
  ASSUME NEW X, NEW s \in Seq(X), NEW K \in SUBSET DOMAIN s, NEW S, IsFiniteSet(S), NEW R, TotalOn(S, R),
         \A i \in K : s[i] \in S, \A x \in S : \E i \in K : s[i] = x,
         \A i, j \in K : i < j => <<s[i], s[j]>> \in R
  PROVE  Selected(s, K) = Ordered(S, R)
<1>1. PICK o : o = Selected(s, K)
  OBVIOUS
<1>2. /\ o \in Seq(X) /\ DOMAIN o = 1..Cardinality(K) /\ Len(o) = Cardinality(K) /\ Cardinality(K) \in 0..Len(s)
      /\ \A i \in K : Place(K, i) \in DOMAIN o /\ o[Place(K, i)] = s[i]
      /\ \A n \in DOMAIN o : \E i \in K : n = Place(K, i) /\ o[n] = s[i]
      /\ \A i, j \in K : i < j => Place(K, i) < Place(K, j)
  BY <1>1, SelectedKeeps, Zenon
<1>3. Cardinality(K) \in Nat /\ K \subseteq Nat
  BY <1>2
<1>4. o \in Seq(S)
  <2>1. \A n \in 1..Cardinality(K) : o[n] \in S
    BY <1>2
  <2>2. o = [n \in 1..Cardinality(K) |-> o[n]]
    BY <1>2
  <2>3. o \in [1..Cardinality(K) -> S]
    BY <2>1, <2>2
  <2>4. QED BY <1>3, <2>3
<1>5. \A x \in S : \E n \in DOMAIN o : o[n] = x
  BY <1>2
<1>6. ASSUME NEW m \in DOMAIN o, NEW n \in DOMAIN o, m < n PROVE <<o[m], o[n]>> \in R
  <2>1. PICK i \in K : m = Place(K, i) /\ o[m] = s[i]
    BY <1>2
  <2>2. PICK j \in K : n = Place(K, j) /\ o[n] = s[j]
    BY <1>2
  <2>3. m \in Nat /\ n \in Nat
    <3>1. DOMAIN o = 1..Cardinality(K)
      BY <1>2
    <3>2. QED BY <1>3, <3>1
  <2>4. ~(j < i) /\ i # j
    BY <1>2, <1>6, <2>1, <2>2, <2>3
  <2>5. i < j
    BY <1>3, <2>4
  <2>6. QED BY <2>1, <2>2, <2>5
<1>7. QED BY <1>1, <1>4, <1>5, <1>6, OrderedOnly

\* Putting an element in the place of another is a cut as well.
LEMMA ReplaceElements ==
  ASSUME NEW X, NEW u \in Seq(X), NEW i \in DOMAIN u, NEW x \in X, NEW z, z = [u EXCEPT ![i] = x], NEW s, s = <<x>>
  PROVE  z \in Seq(X) /\ s \in Seq(X) /\ IsCut(z, u, i - 1, i + 1, s)
<1>1. PICK n : n = Len(u)
  OBVIOUS
<1>2. n \in Nat /\ DOMAIN u = 1..n /\ i \in 1..n /\ i \in Nat /\ 1 <= i /\ i <= n
  BY <1>1
<1>3. z \in Seq(X)
  BY <1>1, <1>2, ExceptSeq
<1>4. DOMAIN z = 1..n /\ \A j \in 1..n : z[j] = IF j = i THEN x ELSE u[j]
  BY <1>2
<1>5. s \in Seq(X) /\ Len(s) = 1 /\ DOMAIN s = 1..1 /\ s[1] = x
  OBVIOUS
<1>6. DOMAIN z = 1..(i - 1 + 1 + (n - (i + 1) + 1))
  BY <1>2, <1>4
<1>7. \A j \in 1..(i - 1) : j \in DOMAIN z /\ z[j] = u[j]
  BY <1>2, <1>4
<1>8. \A j \in 1..1 : i - 1 + j \in DOMAIN z /\ z[i - 1 + j] = s[j]
  <2>1. i - 1 + 1 = i /\ z[i] = x /\ i \in DOMAIN z
    BY <1>2, <1>4
  <2>2. \A j \in 1..1 : j = 1
    OBVIOUS
  <2>3. QED BY <1>5, <2>1, <2>2
<1>9. ASSUME NEW j \in (i + 1)..n PROVE j - (i + 1) + 1 + (i - 1) + 1 \in DOMAIN z /\ z[j - (i + 1) + 1 + (i - 1) + 1] = u[j]
  <2>1. j \in Int /\ i + 1 <= j /\ j <= n
    BY <1>2
  <2>2. PICK q : q = j - (i + 1) + 1 + (i - 1) + 1
    OBVIOUS
  <2>3. q = j
    BY <1>2, <2>1, <2>2
  <2>4. j \in 1..n /\ j # i
    BY <1>2, <2>1
  <2>5. QED BY <1>4, <2>2, <2>3, <2>4
<1>10. ASSUME NEW j \in DOMAIN z
       PROVE  \/ j \in 1..(i - 1) /\ z[j] = u[j]
              \/ j - (i - 1) \in 1..1 /\ z[j] = s[j - (i - 1)]
              \/ j - (i - 1) - 1 + (i + 1) - 1 \in (i + 1)..n /\ z[j] = u[j - (i - 1) - 1 + (i + 1) - 1]
  <2>1. j \in 1..n /\ j \in Nat
    BY <1>2, <1>4
  <2>2. CASE j < i
    BY <1>2, <1>4, <2>1, <2>2
  <2>3. CASE j = i
    <3>1. j - (i - 1) = 1
      BY <1>2, <2>3
    <3>2. QED BY <1>4, <1>5, <2>1, <2>3, <3>1
  <2>4. CASE i < j
    <3>1. PICK q : q = j - (i - 1) - 1 + (i + 1) - 1
      OBVIOUS
    <3>2. j \in Int /\ i \in Int /\ n \in Int /\ j <= n
      BY <1>2, <2>1
    <3>3. q = j
      BY <3>1, <3>2
    <3>4. i + 1 <= j /\ j # i
      BY <2>4, <3>2
    <3>5. j \in (i + 1)..n
      BY <3>2, <3>4
    <3>6. z[j] = u[j]
      BY <1>4, <2>1, <3>4
    <3>7. QED BY <3>1, <3>3, <3>5, <3>6
  <2>5. QED BY <1>2, <2>1, <2>2, <2>3, <2>4
<1>11. PICK c : c = Len(s)
  OBVIOUS
<1>12. c = 1 /\ c \in Nat
  BY <1>5, <1>11
<1>13. IsCut(z, u, i - 1, i + 1, s)
  BY <1>1, <1>2, <1>5, <1>6, <1>7, <1>8, <1>9, <1>10, Zenon DEF IsCut
<1>14. QED BY <1>3, <1>5, <1>13

\* Some positions have a last one.
LEMMA GreatestIsThere ==
  ASSUME NEW n \in Nat, NEW D \in SUBSET (1..n), D # {}
  PROVE  \E d \in D : \A e \in D : d >= e
<1>1. PICK M : M = {n - d : d \in D}
  OBVIOUS
<1>2. M \in SUBSET Nat /\ M # {}
  <2>1. \A d \in D : n - d \in Nat
    OBVIOUS
  <2>2. QED BY <1>1, <2>1
<1>3. PICK a \in M : \A b \in M : a <= b
  BY <1>2, LeastIsThere
<1>4. PICK d \in D : a = n - d
  BY <1>1, <1>3
<1>5. ASSUME NEW e \in D PROVE d >= e
  <2>1. n - e \in M
    BY <1>1
  <2>2. n - d <= n - e /\ d \in 1..n /\ e \in 1..n
    BY <1>3, <1>4, <2>1
  <2>3. QED BY <2>2
<1>6. QED BY <1>5
=============================================================================
