------------------------ MODULE BondCalculator_proofs ------------------------
(***************************************************************************)
(* Lists of bonds of any length: what sorting, merging and taking out do   *)
(* to them, and why a calculator lists each bond of its structure once,    *)
(* alone or from the shares of any number of workers.                      *)
(*                                                                         *)
(* A loop over a list is a function defined by recursion over its steps.   *)
(* It is told by an invariant of its steps: Trace, in the first section,   *)
(* says that the function exists, FirstFailure that it keeps what every    *)
(* single step keeps.                                                      *)
(***************************************************************************)
EXTENDS BondCalculator, PairSum_proofs, SequenceTheorems, WellFoundedInduction

-----------------------------------------------------------------------------
(* Numbers and ranks.                                                      *)

(* Whatever fails for some number fails for a first one. *)
LEMMA FirstFailure ==
  ASSUME NEW N \in Nat, NEW bad \in SUBSET (0..N), bad # {}, 0 \notin bad
  PROVE  \E j \in 0..N - 1 : j \notin bad /\ j + 1 \in bad
<1>1. bad \subseteq Nat
  OBVIOUS
<1>2. PICK n \in bad : \A o \in bad : ~(<<o, n>> \in OpToRel(<, Nat))
  BY <1>1, WFMin, NatLessThanWellFounded
<1>3. \A o \in bad : ~(o < n)
  BY <1>1, <1>2 DEF OpToRel
<1>4. n \in 0..N /\ n # 0
  BY <1>2
<1>5. n - 1 \in 0..N - 1 /\ (n - 1) + 1 = n /\ n - 1 < n
  BY <1>4
<1> QED BY <1>2, <1>3, <1>5

(* A loop that takes N steps leaves a trace of its states. *)
IsTrace(f, N, S, first, step) ==
  /\ f \in [0..N -> S] /\ f[0] = first
  /\ \A n \in 1..N : f[n] = step[<<n, f[n - 1]>>]

LEMMA Trace ==
  ASSUME NEW N \in Nat, NEW S, NEW first \in S,
         NEW step, \A n \in 1..N : \A x \in S : step[<<n, x>>] \in S
  PROVE  \E f : IsTrace(f, N, S, first, step)
<1> DEFINE goes(f, m) == IsTrace(f, m, S, first, step)
           bad == {m \in 0..N : ~\E f : goes(f, m)}
<1>1. 0 \notin bad
  <2>1. goes([n \in 0..0 |-> first], 0)
    BY DEF IsTrace
  <2> QED BY <2>1
<1>2. bad = {}
  <2> SUFFICES ASSUME bad # {} PROVE FALSE
    OBVIOUS
  <2>1. bad \in SUBSET (0..N)
    OBVIOUS
  <2>2. PICK j \in 0..N - 1 : j \notin bad /\ j + 1 \in bad
    <3> HIDE DEF bad
    <3> QED BY <1>1, <2>1, FirstFailure
  <2>3. PICK f : goes(f, j)
    BY <2>2
  <2>4. f[j] \in S /\ step[<<j + 1, f[j]>>] \in S
    BY <2>2, <2>3 DEF IsTrace
  <2> DEFINE g == [n \in 0..j + 1 |-> IF n =< j THEN f[n] ELSE step[<<j + 1, f[j]>>]]
  <2>5. g \in [0..j + 1 -> S] /\ g[0] = first
    BY <2>2, <2>3, <2>4 DEF IsTrace
  <2>6. ASSUME NEW n \in 1..j + 1 PROVE g[n] = step[<<n, g[n - 1]>>]
    <3>1. CASE n =< j
      <4>1. n \in 1..j /\ n \in 0..j + 1 /\ n - 1 \in 0..j + 1 /\ n - 1 =< j
        BY <2>2, <3>1
      <4>2. g[n] = f[n] /\ g[n - 1] = f[n - 1]
        BY <3>1, <4>1
      <4> QED BY <2>3, <4>1, <4>2 DEF IsTrace
    <3>2. CASE n = j + 1
      <4>1. n \in 0..j + 1 /\ n - 1 = j /\ j \in 0..j + 1 /\ ~(n =< j)
        BY <2>2, <3>2
      <4>2. g[n] = step[<<j + 1, f[j]>>] /\ g[j] = f[j]
        BY <4>1
      <4> QED BY <3>2, <4>1, <4>2
    <3> QED BY <2>2, <3>1, <3>2
  <2>7. goes(g, j + 1)
    <3> HIDE DEF g
    <3> QED BY <2>5, <2>6 DEF IsTrace
  <2>8. j + 1 \in 0..N
    BY <2>2
  <2> QED BY <2>2, <2>7, <2>8
<1>3. \E f : goes(f, N)
  <2>1. N \in 0..N /\ N \notin bad
    BY <1>2
  <2> HIDE DEF goes
  <2> QED BY <2>1
<1> QED BY <1>3

(***************************************************************************)
(* In a strict total order on a finite set, given as a set of pairs, the   *)
(* number of elements before an element tells all of them apart.           *)
(***************************************************************************)
Before(X, R, x) == Cardinality({y \in X : <<y, x>> \in R})

(* Members of a finite, totally ordered set are told by how many are before them. *)
LEMMA Ranked ==
  ASSUME NEW X, IsFiniteSet(X), NEW R,
         \A x \in X : <<x, x>> \notin R,
         \A x, y \in X : x # y => <<x, y>> \in R \/ <<y, x>> \in R,
         \A x, y, z \in X : <<x, y>> \in R /\ <<y, z>> \in R => <<x, z>> \in R
  PROVE  /\ Cardinality(X) \in Nat
         /\ \A x \in X : Before(X, R, x) \in 0..Cardinality(X) - 1
         /\ \A x, y \in X : <<x, y>> \in R <=> Before(X, R, x) < Before(X, R, y)
         /\ \A x, y \in X : Before(X, R, x) = Before(X, R, y) => x = y
         /\ \A k \in 0..Cardinality(X) - 1 : \E x \in X : Before(X, R, x) = k
<1> DEFINE below(x) == {y \in X : <<y, x>> \in R}
           n == Cardinality(X)
           I == 0..n - 1
           f == [x \in X |-> Before(X, R, x)]
<1>1. n \in Nat
  BY FS_CardinalityType
<1>2. \A x \in X : IsFiniteSet(below(x)) /\ Cardinality(below(x)) \in Nat
  <2> TAKE x \in X
  <2>1. IsFiniteSet(below(x))
    BY FS_Subset
  <2> QED BY <2>1, FS_CardinalityType
<1>3. ASSUME NEW x \in X PROVE Before(X, R, x) \in I
  <2>1. below(x) \in SUBSET (X \ {x})
    OBVIOUS
  <2>2. IsFiniteSet(X \ {x}) /\ Cardinality(X \ {x}) = n - 1
    BY FS_RemoveElement
  <2>3. Cardinality(below(x)) =< n - 1
    <3> HIDE DEF below
    <3> QED BY <2>1, <2>2, FS_Subset
  <2>4. Before(X, R, x) \in Nat /\ Before(X, R, x) =< n - 1
    BY <1>2, <2>3 DEF Before
  <2> HIDE DEF n
  <2> QED BY <1>1, <2>4
<1>4. ASSUME NEW x \in X, NEW y \in X, <<x, y>> \in R PROVE Before(X, R, x) < Before(X, R, y)
  <2>1. below(x) \cup {x} \subseteq below(y) /\ x \notin below(x)
    BY <1>4
  <2>2. Cardinality(below(x) \cup {x}) = Cardinality(below(x)) + 1
    BY <1>2, <2>1, FS_AddElement
  <2>3. Cardinality(below(x) \cup {x}) =< Cardinality(below(y))
    BY <1>2, <2>1, FS_Subset
  <2> QED BY <1>2, <2>2, <2>3 DEF Before
<1> HIDE DEF n, I
<1>5. \A x, y \in X :
        Before(X, R, x) \in Nat /\ (Before(X, R, x) < Before(X, R, y) => ~(Before(X, R, y) < Before(X, R, x)))
  BY <1>1, <1>3 DEF I
<1>6. \A x, y \in X : Before(X, R, x) < Before(X, R, y) => <<x, y>> \in R
  BY <1>4, <1>5
<1>7. \A x, y \in X : Before(X, R, x) = Before(X, R, y) => x = y
  BY <1>4, <1>5
<1>8. f \in Injection(X, I)
  BY <1>3, <1>7 DEF Injection, IsInjective
<1>9. IsFiniteSet(I) /\ Cardinality(I) = n
  BY <1>1, FS_Interval DEF I
<1>10. f \in Surjection(X, I)
  <2> HIDE DEF f
  <2> QED BY <1>8, <1>9, FS_Injection DEF n
<1>11. \A k \in I : \E x \in X : Before(X, R, x) = k
  <2> TAKE k \in I
  <2>1. PICK x \in X : f[x] = k
    BY <1>10 DEF Surjection
  <2> QED BY <2>1
<1> QED BY <1>1, <1>3, <1>4, <1>6, <1>7, <1>11 DEF n, I

-----------------------------------------------------------------------------
(* The order of bonds.                                                     *)

Entries == Int \X Int \X Int \X Int

LEMMA LessIs ==
  ASSUME NEW b \in Entries, NEW c \in Entries
  PROVE  Less(b, c) <=> \/ b[1] < c[1]
                        \/ b[1] = c[1] /\ b[2] < c[2]
                        \/ b[1] = c[1] /\ b[2] = c[2] /\ b[3] < c[3]
                        \/ b[1] = c[1] /\ b[2] = c[2] /\ b[3] = c[3] /\ b[4] < c[4]
<1> DEFINE first(k) == b[k] < c[k] /\ \A l \in 1..k - 1 : b[l] = c[l]
<1>1. Less(b, c) <=> first(1) \/ first(2) \/ first(3) \/ first(4)
  <2>1. 1..4 = {1, 2, 3, 4}
    OBVIOUS
  <2> HIDE DEF first
  <2>2. (\E k \in 1..4 : first(k)) <=> first(1) \/ first(2) \/ first(3) \/ first(4)
    BY <2>1
  <2> QED BY <2>2 DEF Less, first
<1>2. 1..0 = {} /\ 1..1 = {1} /\ 1..2 = {1, 2} /\ 1..3 = {1, 2, 3}
  OBVIOUS
<1>3. /\ first(1) <=> b[1] < c[1]
      /\ first(2) <=> b[2] < c[2] /\ b[1] = c[1]
      /\ first(3) <=> b[3] < c[3] /\ b[1] = c[1] /\ b[2] = c[2]
      /\ first(4) <=> b[4] < c[4] /\ b[1] = c[1] /\ b[2] = c[2] /\ b[3] = c[3]
  BY <1>2
<1> HIDE DEF first
<1> QED BY <1>1, <1>3

LEMMA EntryEquality ==
  ASSUME NEW b \in Entries, NEW c \in Entries,
         b[1] = c[1], b[2] = c[2], b[3] = c[3], b[4] = c[4]
  PROVE  b = c
  BY DEF Entries

(* Bonds are totally ordered. *)
LEMMA LessIsTotal ==
  /\ \A b \in Entries : ~Less(b, b)
  /\ \A b, c \in Entries : b = c \/ Less(b, c) \/ Less(c, b)
  /\ \A b, c, d \in Entries : Less(b, c) /\ Less(c, d) => Less(b, d)
<1>1. ASSUME NEW b \in Entries PROVE b[1] \in Int /\ b[2] \in Int /\ b[3] \in Int /\ b[4] \in Int
  BY DEF Entries
<1>2. ASSUME NEW b \in Entries PROVE ~Less(b, b)
  BY <1>1, LessIs
<1>3. ASSUME NEW b \in Entries, NEW c \in Entries PROVE b = c \/ Less(b, c) \/ Less(c, b)
  BY <1>1, LessIs, EntryEquality
<1>4. ASSUME NEW b \in Entries, NEW c \in Entries, NEW d \in Entries, Less(b, c), Less(c, d)
      PROVE  Less(b, d)
  BY <1>1, <1>4, LessIs
<1> QED BY <1>2, <1>3, <1>4

-----------------------------------------------------------------------------
(* Sorted lists.                                                           *)

IsList(list) == list \in Seq(Entries)

Elements(list) == {list[k] : k \in DOMAIN list}

(* In order, and without repetitions. *)
Strict(list) == \A k \in 1..Len(list) - 1 : Less(list[k], list[k + 1])

Injective(list) == \A k, l \in DOMAIN list : list[k] = list[l] => k = l

LEMMA ListProperties ==
  ASSUME NEW list, IsList(list)
  PROVE  /\ Len(list) \in Nat /\ DOMAIN list = 1..Len(list)
         /\ \A k \in 1..Len(list) : list[k] \in Entries
         /\ list = [k \in 1..Len(list) |-> list[k]]
  BY DEF IsList

LEMMA MakesList ==
  ASSUME NEW n \in Nat, NEW f, f = [k \in 1..n |-> f[k]], \A k \in 1..n : f[k] \in Entries
  PROVE  IsList(f) /\ Len(f) = n /\ DOMAIN f = 1..n
<1>1. f \in [1..n -> Entries]
  OBVIOUS
<1>2. f \in Seq(Entries)
  BY <1>1, SeqDef
<1> QED BY <1>2 DEF IsList

LEMMA EqualLists ==
  ASSUME NEW one, NEW two, IsList(one), IsList(two), Len(one) = Len(two),
         \A k \in 1..Len(one) : one[k] = two[k]
  PROVE  one = two
  BY SeqEqual DEF IsList

(* A transitive relation of neighbors holds at any distance. *)
LEMMA AtDistance ==
  ASSUME NEW list, IsList(list), NEW R,
         \A b, c, d \in Entries : <<b, c>> \in R /\ <<c, d>> \in R => <<b, d>> \in R,
         \A k \in 1..Len(list) - 1 : <<list[k], list[k + 1]>> \in R,
         NEW i \in DOMAIN list
  PROVE  \A j \in DOMAIN list : i < j => <<list[i], list[j]>> \in R
<1> DEFINE bad == {d \in 0..Len(list) - i : d > 0 /\ <<list[i], list[i + d]>> \notin R}
<1>1. /\ Len(list) \in Nat /\ DOMAIN list = 1..Len(list) /\ i \in 1..Len(list)
      /\ \A k \in 1..Len(list) : list[k] \in Entries
  BY ListProperties
<1>2. bad = {}
  <2> SUFFICES ASSUME bad # {} PROVE FALSE
    OBVIOUS
  <2>1. bad \in SUBSET (0..Len(list) - i) /\ Len(list) - i \in Nat /\ 0 \notin bad
    BY <1>1
  <2>2. PICK d \in 0..Len(list) - i - 1 : d \notin bad /\ d + 1 \in bad
    <3> HIDE DEF bad
    <3> QED BY <2>1, FirstFailure
  <2>3. i + d \in 1..Len(list) - 1 /\ i + d \in 1..Len(list) /\ i + (d + 1) \in 1..Len(list)
        /\ i + (d + 1) = (i + d) + 1
    <3> HIDE DEF bad
    <3>1. Len(list) \in Nat /\ i \in 1..Len(list)
      BY <1>1
    <3> QED BY <2>2, <3>1
  <2>4. <<list[i + d], list[i + (d + 1)]>> \in R
    BY <2>3
  <2>5. <<list[i], list[i + (d + 1)]>> \notin R
    BY <2>2
  <2>6. d = 0 \/ <<list[i], list[i + d]>> \in R
    BY <1>1, <2>2
  <2>7. CASE d = 0
    <3>1. i + d = i
      BY <1>1, <2>7
    <3> QED BY <2>4, <2>5, <3>1
  <2>8. CASE <<list[i], list[i + d]>> \in R
    BY <1>1, <2>3, <2>4, <2>5, <2>8
  <2> QED BY <2>6, <2>7, <2>8
<1>3. ASSUME NEW j \in DOMAIN list, i < j PROVE <<list[i], list[j]>> \in R
  <2>1. j - i \in 0..Len(list) - i /\ j - i > 0 /\ i + (j - i) = j
    BY <1>1, <1>3
  <2>2. j - i \notin bad
    BY <1>2
  <2> QED BY <2>1, <2>2
<1> QED BY <1>3

LEMMA StrictIsOrder ==
  ASSUME NEW list, IsList(list), Strict(list), NEW i \in DOMAIN list
  PROVE  \A j \in DOMAIN list : i < j => Less(list[i], list[j])
<1> DEFINE R == {p \in Entries \X Entries : Less(p[1], p[2])}
<1>1. \A b, c \in Entries : <<b, c>> \in R <=> Less(b, c)
  OBVIOUS
<1> HIDE DEF R
<1>2. \A k \in 1..Len(list) - 1 : <<list[k], list[k + 1]>> \in R
  <2> TAKE k \in 1..Len(list) - 1
  <2>1. k \in 1..Len(list) /\ k + 1 \in 1..Len(list)
    BY ListProperties
  <2> QED BY <1>1, <2>1, ListProperties DEF Strict
<1>3. \A j \in DOMAIN list : i < j => <<list[i], list[j]>> \in R
  BY <1>1, <1>2, AtDistance, LessIsTotal
<1> QED BY <1>1, <1>3, ListProperties

LEMMA InOrderIsOrder ==
  ASSUME NEW list, IsList(list), InOrder(list), NEW i \in DOMAIN list
  PROVE  \A j \in DOMAIN list : i < j => ~Less(list[j], list[i])
<1> DEFINE R == {p \in Entries \X Entries : ~Less(p[2], p[1])}
<1>1. \A b, c \in Entries : <<b, c>> \in R <=> ~Less(c, b)
  OBVIOUS
<1> HIDE DEF R
<1>2. \A k \in 1..Len(list) - 1 : <<list[k], list[k + 1]>> \in R
  <2> TAKE k \in 1..Len(list) - 1
  <2>1. k \in 1..Len(list) /\ k + 1 \in 1..Len(list)
    BY ListProperties
  <2> QED BY <1>1, <2>1, ListProperties DEF InOrder
<1>3. \A b, c, d \in Entries : ~Less(c, b) /\ ~Less(d, c) => ~Less(d, b)
  BY LessIsTotal
<1>4. \A j \in DOMAIN list : i < j => <<list[i], list[j]>> \in R
  BY <1>1, <1>2, <1>3, AtDistance
<1> QED BY <1>1, <1>4, ListProperties

LEMMA StrictIsInjective ==
  ASSUME NEW list, IsList(list), Strict(list)
  PROVE  Injective(list) /\ InOrder(list)
<1>1. /\ Len(list) \in Nat /\ DOMAIN list = 1..Len(list)
      /\ \A k \in 1..Len(list) : list[k] \in Entries
  BY ListProperties
<1>2. ASSUME NEW k \in DOMAIN list, NEW l \in DOMAIN list, list[k] = list[l] PROVE k = l
  <2>1. ~(k < l) /\ ~(l < k)
    BY <1>1, <1>2, StrictIsOrder, LessIsTotal
  <2> QED BY <1>1, <2>1
<1>3. ASSUME NEW k \in 1..Len(list) - 1 PROVE ~Less(list[k + 1], list[k])
  <2>1. Less(list[k], list[k + 1]) /\ k \in 1..Len(list) /\ k + 1 \in 1..Len(list)
    BY <1>1 DEF Strict
  <2> QED BY <1>1, <2>1, LessIsTotal
<1> QED BY <1>2, <1>3 DEF Injective, InOrder

(* A list without repetitions that is in order is told by its elements. *)
LEMMA StrictIsUnique ==
  ASSUME NEW one, NEW two, IsList(one), IsList(two), Strict(one), Strict(two),
         Elements(one) = Elements(two)
  PROVE  one = two
<1> DEFINE n == IF Len(one) =< Len(two) THEN Len(one) ELSE Len(two)
           bad == {k \in 0..n : k > 0 /\ one[k] # two[k]}
<1>1. /\ Len(one) \in Nat /\ DOMAIN one = 1..Len(one)
      /\ Len(two) \in Nat /\ DOMAIN two = 1..Len(two)
      /\ \A k \in 1..Len(one) : one[k] \in Entries
      /\ \A k \in 1..Len(two) : two[k] \in Entries
  BY ListProperties
<1>2. n \in Nat /\ n =< Len(one) /\ n =< Len(two) /\ (n = Len(one) \/ n = Len(two))
  BY <1>1
<1> HIDE DEF n
<1>3. ASSUME NEW a, NEW b, IsList(a), IsList(b), Strict(a), Elements(a) \subseteq Elements(b),
             NEW k \in 1..Len(a), k =< Len(b) + 1, \A l \in 1..k - 1 : a[l] = b[l]
      PROVE  \E m \in k..Len(b) : b[m] = a[k]
  <2>1. /\ Len(a) \in Nat /\ DOMAIN a = 1..Len(a)
        /\ Len(b) \in Nat /\ DOMAIN b = 1..Len(b)
    BY <1>3, ListProperties
  <2>2. PICK m \in 1..Len(b) : b[m] = a[k]
    BY <1>3, <2>1 DEF Elements
  <2>3. ~(m < k)
    <3> SUFFICES ASSUME m < k PROVE FALSE
      OBVIOUS
    <3>1. m \in 1..k - 1 /\ m \in DOMAIN a /\ k \in DOMAIN a
      BY <1>3, <2>1
    <3>2. a[m] = a[k]
      BY <1>3, <2>2, <3>1
    <3>3. Injective(a)
      BY <1>3, StrictIsInjective
    <3>4. m = k
      BY <3>1, <3>2, <3>3 DEF Injective
    <3> QED BY <2>1, <3>4
  <2> QED BY <2>1, <2>2, <2>3
<1>4. ASSUME NEW k \in 1..n, \A l \in 1..k - 1 : one[l] = two[l] PROVE one[k] = two[k]
  <2>1. k \in 1..Len(one) /\ k \in 1..Len(two) /\ k =< Len(one) + 1 /\ k =< Len(two) + 1
    <3>1. k \in Nat /\ 1 =< k /\ k =< n /\ n \in Nat /\ n =< Len(one) /\ n =< Len(two)
      BY <1>2
    <3> HIDE DEF bad
    <3> QED BY <1>1, <3>1
  <2>2. PICK m \in k..Len(two) : two[m] = one[k]
    BY <1>3, <1>4, <2>1
  <2>3. PICK p \in k..Len(one) : one[p] = two[k]
    <3>1. Elements(two) \subseteq Elements(one) /\ \A l \in 1..k - 1 : two[l] = one[l]
      BY <1>4
    <3> QED BY <1>3, <2>1, <3>1
  <2>4. m = k \/ Less(two[k], one[k])
    BY <1>1, <2>1, <2>2, StrictIsOrder
  <2>5. p = k \/ Less(one[k], two[k])
    BY <1>1, <2>1, <2>3, StrictIsOrder
  <2>6. one[k] \in Entries /\ two[k] \in Entries
    BY <1>1, <2>1
  <2> QED BY <2>2, <2>3, <2>4, <2>5, <2>6, LessIsTotal
<1>5. bad = {}
  <2> DEFINE worse == {k \in 0..n : \E l \in 1..k : one[l] # two[l]}
  <2>1. worse = {}
    <3> SUFFICES ASSUME worse # {} PROVE FALSE
      OBVIOUS
    <3>1. worse \in SUBSET (0..n) /\ 0 \notin worse
      OBVIOUS
    <3>2. PICK k \in 0..n - 1 : k \notin worse /\ k + 1 \in worse
      <4> HIDE DEF worse
      <4> QED BY <1>2, <3>1, FirstFailure
    <3>3. k + 1 \in 1..n /\ k \in 0..n
      BY <1>2, <3>2
    <3>4. \A l \in 1..(k + 1) - 1 : one[l] = two[l]
      BY <3>2, <3>3
    <3>5. one[k + 1] = two[k + 1]
      BY <1>4, <3>3, <3>4
    <3> QED BY <3>2, <3>4, <3>5
  <2> QED BY <1>2, <2>1
<1>6. \A k \in 1..n : one[k] = two[k]
  BY <1>2, <1>5
<1>7. Len(one) = Len(two)
  <2>1. ASSUME NEW a, NEW b, IsList(a), IsList(b), Strict(a), Elements(a) \subseteq Elements(b),
               n = Len(b), n < Len(a), \A l \in 1..n : a[l] = b[l]
        PROVE  FALSE
    <3>1. n + 1 \in 1..Len(a) /\ n + 1 =< Len(b) + 1 /\ (n + 1) - 1 = n
      BY <1>2, <2>1, ListProperties
    <3>2. \E m \in n + 1..Len(b) : b[m] = a[n + 1]
      BY <1>3, <2>1, <3>1
    <3> QED BY <1>2, <2>1, <3>2
  <2>2. CASE n = Len(one) /\ n < Len(two)
    BY <1>6, <2>1, <2>2
  <2>3. CASE n = Len(two) /\ n < Len(one)
    BY <1>6, <2>1, <2>3
  <2>4. Len(one) \in Nat /\ Len(two) \in Nat /\ n \in Nat
    BY <1>1, <1>2
  <2> QED BY <1>2, <2>2, <2>3, <2>4
<1> QED BY <1>1, <1>2, <1>6, <1>7, EqualLists

-----------------------------------------------------------------------------
(* What the algorithms on lists make of lists.                             *)

(* std::sort keeps the elements and puts them in order. *)
LEMMA SortedIs ==
  ASSUME NEW list, IsList(list)
  PROVE  /\ IsList(Sorted(list)) /\ Len(Sorted(list)) = Len(list)
         /\ Elements(Sorted(list)) = Elements(list)
         /\ InOrder(Sorted(list))
         /\ Injective(list) => Strict(Sorted(list))
<1> DEFINE X == DOMAIN list
           R == {p \in X \X X : Precede(list, p[1], p[2])}
           place == [i \in X |-> Cardinality({j \in X : Precede(list, j, i)})]
           q == [k \in X |-> CHOOSE i \in X : place[i] = k - 1]
           result == [k \in X |-> list[q[k]]]
<1>1. /\ Len(list) \in Nat /\ X = 1..Len(list)
      /\ \A k \in X : list[k] \in Entries
  BY ListProperties
<1>2. IsFiniteSet(X) /\ Cardinality(X) = Len(list)
  BY <1>1, FS_Interval
<1>3. \A i, j \in X : <<i, j>> \in R <=> Precede(list, i, j)
  OBVIOUS
<1>4. \A i \in X : place[i] = Before(X, R, i)
  BY DEF Before
<1>5. Sorted(list) = result
  <2>1. \A k \in X : result[k] = list[CHOOSE i \in X : place[i] = k - 1]
    OBVIOUS
  <2> QED BY DEF Sorted
<1> HIDE DEF X, R, place
<1>6. /\ \A i \in X : ~Precede(list, i, i)
      /\ \A i, j \in X : i # j => Precede(list, i, j) \/ Precede(list, j, i)
      /\ \A i, j, k \in X : Precede(list, i, j) /\ Precede(list, j, k) => Precede(list, i, k)
  BY <1>1, LessIsTotal DEF Precede
<1>7. /\ \A i \in X : Before(X, R, i) \in 0..Cardinality(X) - 1
      /\ \A i, j \in X : <<i, j>> \in R <=> Before(X, R, i) < Before(X, R, j)
      /\ \A i, j \in X : Before(X, R, i) = Before(X, R, j) => i = j
      /\ \A k \in 0..Cardinality(X) - 1 : \E i \in X : Before(X, R, i) = k
  <2>1. /\ \A i \in X : <<i, i>> \notin R
        /\ \A i, j \in X : i # j => <<i, j>> \in R \/ <<j, i>> \in R
        /\ \A i, j, k \in X : <<i, j>> \in R /\ <<j, k>> \in R => <<i, k>> \in R
    BY <1>3, <1>6
  <2> QED BY <1>2, <2>1, Ranked
<1>8. ASSUME NEW k \in X PROVE q[k] \in X /\ place[q[k]] = k - 1
  <2>1. k - 1 \in 0..Cardinality(X) - 1
    BY <1>1, <1>2
  <2>2. \E i \in X : place[i] = k - 1
    BY <1>4, <1>7, <2>1
  <2> QED BY <2>2
<1>9. \A i \in X : \E k \in X : q[k] = i
  <2> TAKE i \in X
  <2>1. place[i] + 1 \in X /\ (place[i] + 1) - 1 = place[i]
    BY <1>1, <1>2, <1>4, <1>7
  <2>2. place[q[place[i] + 1]] = place[i] /\ q[place[i] + 1] \in X
    BY <1>8, <2>1
  <2>3. q[place[i] + 1] = i
    BY <1>4, <1>7, <2>2
  <2> QED BY <2>1, <2>3
<1> HIDE DEF q
<1>10. /\ result = [k \in 1..Len(list) |-> result[k]]
       /\ \A k \in X : result[k] = list[q[k]]
  BY <1>1
<1> HIDE DEF result
<1>11. IsList(result) /\ Len(result) = Len(list) /\ DOMAIN result = X
  BY <1>1, <1>8, <1>10, MakesList
<1>12. Elements(result) = Elements(list)
  <2>1. Elements(result) = {result[k] : k \in X}
    BY <1>11 DEF Elements
  <2>2. Elements(list) = {list[i] : i \in X}
    BY DEF Elements, X
  <2>3. \A k \in X : result[k] \in {list[i] : i \in X}
    BY <1>8, <1>10
  <2>4. \A i \in X : list[i] \in {result[k] : k \in X}
    <3> TAKE i \in X
    <3>1. PICK k \in X : q[k] = i
      BY <1>9
    <3>2. result[k] = list[i]
      BY <1>10, <3>1
    <3> QED BY <3>2
  <2> QED BY <2>1, <2>2, <2>3, <2>4
<1>13. ASSUME NEW k \in 1..Len(result) - 1
       PROVE  /\ k \in X /\ k + 1 \in X /\ result[k] \in Entries /\ result[k + 1] \in Entries
              /\ Precede(list, q[k], q[k + 1])
  <2>1. k \in X /\ k + 1 \in X
    BY <1>1, <1>11
  <2>2. place[q[k]] < place[q[k + 1]]
    BY <1>1, <1>8, <2>1
  <2>3. <<q[k], q[k + 1]>> \in R
    BY <1>4, <1>7, <1>8, <2>1, <2>2
  <2> QED BY <1>1, <1>3, <1>8, <1>10, <2>1, <2>3
<1>14. InOrder(result)
  BY <1>10, <1>13, LessIsTotal DEF Precede, InOrder
<1>15. ASSUME Injective(list), NEW k \in 1..Len(result) - 1 PROVE Less(result[k], result[k + 1])
  <2>1. /\ k \in X /\ k + 1 \in X /\ Precede(list, q[k], q[k + 1])
        /\ q[k] \in X /\ q[k + 1] \in X
    BY <1>8, <1>13
  <2>2. list[q[k]] # list[q[k + 1]] \/ q[k] = q[k + 1]
    BY <1>15, <2>1 DEF Injective, X
  <2>3. Less(list[q[k]], list[q[k + 1]])
    BY <1>1, <2>1, <2>2 DEF Precede
  <2> QED BY <1>10, <2>1, <2>3
<1> QED BY <1>5, <1>11, <1>12, <1>14, <1>15 DEF Strict

(* A part of a list is in the order of the list. *)
LEMMA PickedIs ==
  ASSUME NEW list, IsList(list), NEW set \in SUBSET DOMAIN list
  PROVE  /\ IsList(Picked(list, set))
         /\ Elements(Picked(list, set)) = {list[i] : i \in set}
         /\ InOrder(list) => InOrder(Picked(list, set))
         /\ Strict(list) => Strict(Picked(list, set))
<1> DEFINE R == {p \in set \X set : p[1] < p[2]}
           n == Cardinality(set)
           q == [k \in 1..n |-> CHOOSE i \in set : Rank(set, i) = k - 1]
           result == Picked(list, set)
<1>1. /\ Len(list) \in Nat /\ DOMAIN list = 1..Len(list)
      /\ \A k \in DOMAIN list : list[k] \in Entries
  BY ListProperties
<1>2. IsFiniteSet(set) /\ n \in Nat /\ \A i \in set : i \in Nat
  <2>1. IsFiniteSet(DOMAIN list)
    BY <1>1, FS_Interval
  <2>2. IsFiniteSet(set)
    BY <2>1, FS_Subset
  <2> QED BY <1>1, <2>2, FS_CardinalityType
<1>3. \A i, j \in set : <<i, j>> \in R <=> i < j
  OBVIOUS
<1>4. \A i \in set : Rank(set, i) = Before(set, R, i)
  <2> TAKE i \in set
  <2>1. {j \in set : j < i} = {j \in set : <<j, i>> \in R}
    BY <1>3
  <2> QED BY <2>1 DEF Before, Rank
<1> HIDE DEF R
<1>5. /\ \A i \in set : Rank(set, i) \in 0..n - 1
      /\ \A i, j \in set : i < j <=> Rank(set, i) < Rank(set, j)
      /\ \A i, j \in set : Rank(set, i) = Rank(set, j) => i = j
      /\ \A k \in 0..n - 1 : \E i \in set : Rank(set, i) = k
  <2>1. /\ \A i \in set : <<i, i>> \notin R
        /\ \A i, j \in set : i # j => <<i, j>> \in R \/ <<j, i>> \in R
        /\ \A i, j, k \in set : <<i, j>> \in R /\ <<j, k>> \in R => <<i, k>> \in R
    BY <1>2, <1>3
  <2> HIDE DEF n
  <2>2. /\ \A i \in set : Before(set, R, i) \in 0..Cardinality(set) - 1
        /\ \A i, j \in set : <<i, j>> \in R <=> Before(set, R, i) < Before(set, R, j)
        /\ \A i, j \in set : Before(set, R, i) = Before(set, R, j) => i = j
        /\ \A k \in 0..Cardinality(set) - 1 : \E i \in set : Before(set, R, i) = k
    BY <1>2, <2>1, Ranked
  <2>3. \A i \in set : Rank(set, i) \in 0..n - 1
    BY <1>4, <2>2 DEF n
  <2>4. \A i, j \in set : i < j <=> Rank(set, i) < Rank(set, j)
    <3> TAKE i, j \in set
    <3>1. <<i, j>> \in R <=> Before(set, R, i) < Before(set, R, j)
      BY <2>2
    <3> QED BY <1>3, <1>4, <3>1
  <2>5. \A i, j \in set : Rank(set, i) = Rank(set, j) => i = j
    BY <1>4, <2>2
  <2>6. \A k \in 0..n - 1 : \E i \in set : Rank(set, i) = k
    BY <1>4, <2>2 DEF n
  <2> QED BY <2>3, <2>4, <2>5, <2>6
<1>6. result = [k \in 1..n |-> list[q[k]]]
  BY DEF Picked
<1> HIDE DEF n, result
<1>7. ASSUME NEW k \in 1..n PROVE q[k] \in set /\ Rank(set, q[k]) = k - 1
  <2>1. k - 1 \in 0..n - 1
    BY <1>2
  <2>2. \E i \in set : Rank(set, i) = k - 1
    BY <1>5, <2>1
  <2> QED BY <2>2
<1>8. \A i \in set : \E k \in 1..n : q[k] = i
  <2> TAKE i \in set
  <2>1. Rank(set, i) + 1 \in 1..n /\ (Rank(set, i) + 1) - 1 = Rank(set, i)
    BY <1>2, <1>5
  <2>2. Rank(set, q[Rank(set, i) + 1]) = Rank(set, i) /\ q[Rank(set, i) + 1] \in set
    BY <1>7, <2>1
  <2> QED BY <1>5, <2>1, <2>2
<1> HIDE DEF q
<1>9. /\ result = [k \in 1..n |-> result[k]]
      /\ \A k \in 1..n : result[k] = list[q[k]]
  BY <1>6
<1>10. IsList(result) /\ Len(result) = n /\ DOMAIN result = 1..n
  BY <1>1, <1>2, <1>7, <1>9, MakesList
<1>11. Elements(result) = {list[i] : i \in set}
  BY <1>7, <1>8, <1>9, <1>10 DEF Elements
<1>12. ASSUME NEW k \in 1..Len(result) - 1
       PROVE  /\ q[k] \in DOMAIN list /\ q[k + 1] \in DOMAIN list /\ q[k] < q[k + 1]
              /\ result[k] = list[q[k]] /\ result[k + 1] = list[q[k + 1]]
  <2>1. k \in 1..n /\ k + 1 \in 1..n /\ k - 1 < (k + 1) - 1
    BY <1>2, <1>10
  <2>2. Rank(set, q[k]) < Rank(set, q[k + 1]) /\ q[k] \in set /\ q[k + 1] \in set
    BY <1>7, <2>1
  <2> QED BY <1>5, <1>9, <2>1, <2>2
<1>13. InOrder(list) => InOrder(result)
  BY <1>12, InOrderIsOrder DEF InOrder
<1>14. Strict(list) => Strict(result)
  BY <1>12, StrictIsOrder DEF Strict
<1> QED BY <1>10, <1>11, <1>13, <1>14 DEF result

(* One step of bmerge moves one bond of one of the lists. *)
LEMMA MoveOneIs ==
  ASSUME NEW dst, NEW src, IsList(dst), IsList(src), NEW n \in Int, NEW i \in Int,
         NEW j \in Int, i + j = Len(dst) + Len(src) - (n - 1)
  PROVE  MoveOne(dst, src, n, i) = IF TakesFirst(dst, src, i, j) THEN i - 1 ELSE i
<1>1. Len(dst) \in Nat /\ Len(src) \in Nat
  BY ListProperties
<1>2. j = Len(dst) + Len(src) - (n - 1) - i
  BY <1>1
<1> QED BY <1>2 DEF MoveOne

(* Either list has as many bonds left as there are to be moved. *)
LEMMA LeftIs ==
  ASSUME NEW dst, NEW src, IsList(dst), IsList(src)
  PROVE  LET left == Left(dst, src)
             total == Len(dst) + Len(src)
         IN  /\ left[0] = Len(dst)
             /\ \A n \in 0..total : left[n] \in 0..Len(dst) /\ total - n - left[n] \in 0..Len(src)
             /\ \A n \in 1..total : left[n] = MoveOne(dst, src, n, left[n - 1])
<1> DEFINE left == Left(dst, src)
           total == Len(dst) + Len(src)
           S == 0..Len(dst)
           step == [p \in (1..total) \X S |-> MoveOne(dst, src, p[1], p[2])]
<1>1. Len(dst) \in Nat /\ Len(src) \in Nat /\ total \in Nat
  BY ListProperties
<1>2. \A n, i : i \in S => MoveOne(dst, src, n, i) \in S
  BY <1>1 DEF MoveOne, TakesFirst
<1>3. \A n \in 1..total : \A i \in S :
        step[<<n, i>>] = MoveOne(dst, src, n, i) /\ step[<<n, i>>] \in S
  BY <1>2
<1>4. Len(dst) \in S
  BY <1>1
<1> HIDE DEF total, S, step
<1>5. PICK f : IsTrace(f, total, S, Len(dst), step)
  BY <1>1, <1>3, <1>4, Trace
<1>6. \A n \in 1..total : f[n] = MoveOne(dst, src, n, f[n - 1])
  <2> TAKE n \in 1..total
  <2>1. n - 1 \in 0..total
    BY <1>1
  <2> QED BY <1>3, <1>5, <2>1 DEF IsTrace
<1>7. f = [n \in 0..total |-> IF n = 0 THEN Len(dst) ELSE MoveOne(dst, src, n, f[n - 1])]
  <2>1. \A n \in 0..total : n = 0 \/ n \in 1..total
    BY <1>1
  <2> QED BY <1>5, <1>6, <2>1 DEF IsTrace
<1>8. left = [n \in 0..total |-> IF n = 0 THEN Len(dst) ELSE MoveOne(dst, src, n, left[n - 1])]
  <2>1. left = CHOOSE g : g = [n \in 0..total |-> IF n = 0 THEN Len(dst)
                                                  ELSE MoveOne(dst, src, n, g[n - 1])]
    BY Zenon DEF Left, total
  <2> HIDE DEF left
  <2> QED BY <1>7, <2>1
<1> HIDE DEF left
<1>9. left[0] = Len(dst) /\ \A n \in 1..total : left[n] = MoveOne(dst, src, n, left[n - 1])
  BY <1>1, <1>8
<1> DEFINE fits(n) == left[n] \in 0..Len(dst) /\ total - n - left[n] \in 0..Len(src)
           bad == {n \in 0..total : ~fits(n)}
<1>10. bad = {}
  <2> SUFFICES ASSUME bad # {} PROVE FALSE
    OBVIOUS
  <2>1. bad \in SUBSET (0..total) /\ 0 \notin bad
    BY <1>1, <1>9 DEF total
  <2>2. PICK n \in 0..total - 1 : n \notin bad /\ n + 1 \in bad
    <3> HIDE DEF bad
    <3> QED BY <1>1, <2>1, FirstFailure
  <2>3. n \in 0..total /\ n + 1 \in 1..total /\ (n + 1) - 1 = n /\ n < total /\ n \in Nat
    BY <1>1, <2>2
  <2>4. fits(n) /\ ~fits(n + 1)
    BY <2>2, <2>3
  <2> HIDE DEF bad
  <2>5. PICK i \in 0..Len(dst) : i = left[n]
    BY <2>4
  <2>6. PICK j \in 0..Len(src) : j = total - n - i
    BY <2>4, <2>5
  <2>7. i \in Int /\ j \in Int /\ i + j = total - n /\ i + j > 0
    BY <1>1, <2>3, <2>5, <2>6
  <2>8. left[n + 1] = MoveOne(dst, src, n + 1, i)
    BY <1>9, <2>3, <2>5
  <2>9. i + j = Len(dst) + Len(src) - ((n + 1) - 1) /\ n + 1 \in Int
    BY <2>3, <2>7 DEF total
  <2>10. left[n + 1] = IF TakesFirst(dst, src, i, j) THEN i - 1 ELSE i
    BY <2>7, <2>8, <2>9, MoveOneIs
  <2>11. TakesFirst(dst, src, i, j) => i > 0
    BY DEF TakesFirst
  <2>12. ~TakesFirst(dst, src, i, j) => j > 0
    BY <2>6, <2>7 DEF TakesFirst
  <2> HIDE DEF fits
  <2>13. fits(n + 1)
    <3>1. CASE TakesFirst(dst, src, i, j)
      <4>1. left[n + 1] = i - 1 /\ i > 0
        BY <2>10, <2>11, <3>1
      <4>2. i - 1 \in 0..Len(dst) /\ total - (n + 1) - (i - 1) = j
        BY <1>1, <2>3, <2>6, <4>1
      <4> QED BY <2>6, <4>1, <4>2 DEF fits
    <3>2. CASE ~TakesFirst(dst, src, i, j)
      <4>1. left[n + 1] = i /\ j > 0
        BY <2>10, <2>12, <3>2
      <4>2. total - (n + 1) - i = j - 1 /\ j - 1 \in 0..Len(src)
        BY <1>1, <2>3, <2>6, <4>1
      <4> QED BY <2>5, <4>1, <4>2 DEF fits
    <3> QED BY <3>1, <3>2
  <2> QED BY <2>4, <2>13
<1>11. \A n \in 0..total : left[n] \in 0..Len(dst) /\ total - n - left[n] \in 0..Len(src)
  BY <1>10
<1> HIDE DEF bad
<1> QED BY <1>9, <1>11 DEF total, left

(* bmerge keeps the bonds of both lists, and their order. *)
LEMMA MergeIs ==
  ASSUME NEW dst, NEW src, IsList(dst), IsList(src)
  PROVE  /\ IsList(Merge(dst, src))
         /\ Elements(Merge(dst, src)) = Elements(dst) \cup Elements(src)
         /\ InOrder(dst) /\ InOrder(src) => InOrder(Merge(dst, src))
         /\ Strict(dst) /\ Strict(src) /\ Elements(dst) \cap Elements(src) = {} =>
              Strict(Merge(dst, src))
<1> DEFINE left == Left(dst, src)
           D == Len(dst)
           total == Len(dst) + Len(src)
           a == [k \in 0..total |-> left[total - k]]
           T(k) == TakesFirst(dst, src, a[k], k - a[k])
           result == Merge(dst, src)
<1>1. /\ D \in Nat /\ Len(src) \in Nat /\ total \in Nat
      /\ DOMAIN dst = 1..D /\ DOMAIN src = 1..Len(src)
      /\ \A k \in 1..D : dst[k] \in Entries
      /\ \A k \in 1..Len(src) : src[k] \in Entries
  BY ListProperties
<1>2. /\ left[0] = D
      /\ \A n \in 0..total : left[n] \in 0..D /\ total - n - left[n] \in 0..Len(src)
      /\ \A n \in 1..total : left[n] = MoveOne(dst, src, n, left[n - 1])
  BY LeftIs
<1>3. result = [k \in 1..total |-> IF TakesFirst(dst, src, left[total - k], k - left[total - k])
                                   THEN dst[left[total - k]] ELSE src[k - left[total - k]]]
  BY DEF Merge
<1>4. total = D + Len(src)
  OBVIOUS
<1> HIDE DEF left, D, total, result
<1>5. ASSUME NEW k \in 0..total PROVE a[k] \in 0..D /\ k - a[k] \in 0..Len(src)
  <2>1. total - k \in 0..total /\ total - (total - k) = k
    BY <1>1
  <2> QED BY <1>2, <2>1
<1>6. a[total] = D /\ a[0] = 0
  <2>1. 0 \in 0..total /\ total \in 0..total /\ total - total = 0
    BY <1>1
  <2>2. a[total] = D
    BY <1>2, <2>1
  <2>3. a[0] \in 0..D /\ 0 - a[0] \in 0..Len(src)
    BY <1>5, <2>1
  <2> QED BY <1>1, <2>2, <2>3
<1>7. ASSUME NEW k \in 1..total
      PROVE  /\ k \in 0..total /\ k - 1 \in 0..total
             /\ a[k - 1] = IF T(k) THEN a[k] - 1 ELSE a[k]
             /\ T(k) => a[k] > 0
             /\ ~T(k) => k - a[k] > 0
             /\ result[k] = IF T(k) THEN dst[a[k]] ELSE src[k - a[k]]
  <2>1. /\ k \in 0..total /\ k - 1 \in 0..total /\ total - (k - 1) \in 1..total
        /\ (total - (k - 1)) - 1 = total - k /\ total - (total - k) = k /\ k \in Nat /\ k > 0
    BY <1>1
  <2>2. a[k] = left[total - k] /\ a[k - 1] = left[total - (k - 1)]
    BY <2>1
  <2>3. left[total - (k - 1)] = IF TakesFirst(dst, src, left[total - k], k - left[total - k])
                                THEN left[total - k] - 1 ELSE left[total - k]
    <3>1. left[total - (k - 1)] = MoveOne(dst, src, total - (k - 1), left[total - k])
      BY <1>2, <2>1
    <3>2. left[total - k] \in 0..D /\ k - left[total - k] \in 0..Len(src)
      BY <1>5, <2>1, <2>2
    <3>3. /\ left[total - k] \in Int /\ k - left[total - k] \in Int /\ total - (k - 1) \in Int
          /\ left[total - k] + (k - left[total - k]) = Len(dst) + Len(src) - ((total - (k - 1)) - 1)
      BY <1>1, <1>4, <2>1, <3>2 DEF D
    <3> QED BY <3>1, <3>3, MoveOneIs
  <2>4. a[k] \in 0..D /\ k - a[k] \in 0..Len(src)
    BY <1>5, <2>1
  <2>5. T(k) => a[k] > 0
    BY DEF TakesFirst
  <2>6. ~T(k) => k - a[k] > 0
    <3> HIDE DEF a
    <3> QED BY <1>1, <2>1, <2>4 DEF TakesFirst
  <2>7. result[k] = IF TakesFirst(dst, src, left[total - k], k - left[total - k])
                    THEN dst[left[total - k]] ELSE src[k - left[total - k]]
    BY <1>3
  <2> QED BY <2>1, <2>2, <2>3, <2>5, <2>6, <2>7
<1> HIDE DEF a, T
<1>8. ASSUME NEW k \in 1..total
      PROVE  /\ T(k) => a[k] \in 1..D /\ result[k] = dst[a[k]]
             /\ ~T(k) => k - a[k] \in 1..Len(src) /\ result[k] = src[k - a[k]]
  BY <1>1, <1>5, <1>7
<1>9. IsList(result) /\ Len(result) = total /\ DOMAIN result = 1..total
  <2>1. \A k \in 1..total : result[k] \in Entries
    BY <1>1, <1>8
  <2>2. result = [k \in 1..total |-> result[k]]
    BY <1>3
  <2> QED BY <1>1, <2>1, <2>2, MakesList
<1>10. \A k \in 1..total : result[k] \in Elements(dst) \cup Elements(src)
  <2> TAKE k \in 1..total
  <2>1. CASE T(k)
    BY <1>1, <1>8, <2>1 DEF Elements
  <2>2. CASE ~T(k)
    BY <1>1, <1>8, <2>2 DEF Elements
  <2> QED BY <2>1, <2>2
<1>11. ASSUME NEW p \in 1..D PROVE \E k \in 1..total : result[k] = dst[p]
  <2> DEFINE bad == {k \in 0..total : a[k] >= p}
  <2>1. bad \in SUBSET (0..total) /\ 0 \notin bad /\ total \in bad
    BY <1>1, <1>6
  <2>2. PICK k \in 0..total - 1 : k \notin bad /\ k + 1 \in bad
    <3>1. bad # {}
      BY <2>1
    <3> HIDE DEF bad
    <3> QED BY <1>1, <2>1, <3>1, FirstFailure
  <2>3. k + 1 \in 1..total /\ (k + 1) - 1 = k /\ k \in 0..total
    BY <1>1, <2>2
  <2>4. ~(a[k] >= p) /\ a[k + 1] >= p
    BY <2>2, <2>3
  <2>5. a[k] = IF T(k + 1) THEN a[k + 1] - 1 ELSE a[k + 1]
    BY <1>7, <2>3
  <2>6. a[k] \in 0..D /\ a[k + 1] \in 0..D
    BY <1>5, <1>7, <2>3
  <2>7. T(k + 1) /\ a[k + 1] = p
    BY <2>4, <2>5, <2>6
  <2> QED BY <1>8, <2>3, <2>7
<1>12. ASSUME NEW p \in 1..Len(src) PROVE \E k \in 1..total : result[k] = src[p]
  <2> DEFINE bad == {k \in 0..total : k - a[k] >= p}
  <2>1. bad \in SUBSET (0..total) /\ 0 \notin bad /\ total \in bad
    BY <1>1, <1>4, <1>6
  <2>2. PICK k \in 0..total - 1 : k \notin bad /\ k + 1 \in bad
    <3>1. bad # {}
      BY <2>1
    <3> HIDE DEF bad
    <3> QED BY <1>1, <2>1, <3>1, FirstFailure
  <2>3. k + 1 \in 1..total /\ (k + 1) - 1 = k /\ k \in 0..total /\ k \in Nat
    BY <1>1, <2>2
  <2>4. ~(k - a[k] >= p) /\ (k + 1) - a[k + 1] >= p
    BY <2>2, <2>3
  <2>5. a[k] = IF T(k + 1) THEN a[k + 1] - 1 ELSE a[k + 1]
    BY <1>7, <2>3
  <2>6. a[k] \in 0..D /\ a[k + 1] \in 0..D
    BY <1>5, <1>7, <2>3
  <2>7. ~T(k + 1) /\ (k + 1) - a[k + 1] = p
    BY <2>3, <2>4, <2>5, <2>6
  <2> QED BY <1>8, <2>3, <2>7
<1>13. Elements(result) = Elements(dst) \cup Elements(src)
  <2>1. Elements(result) = {result[k] : k \in 1..total}
    BY <1>9 DEF Elements
  <2>2. \A x \in Elements(dst) \cup Elements(src) : \E k \in 1..total : result[k] = x
    BY <1>1, <1>11, <1>12 DEF Elements
  <2> QED BY <1>10, <2>1, <2>2
<1>14. ASSUME NEW k \in 1..total - 1
       PROVE  \/ \E p \in 1..D - 1 : result[k] = dst[p] /\ result[k + 1] = dst[p + 1]
              \/ \E p \in 1..Len(src) - 1 : result[k] = src[p] /\ result[k + 1] = src[p + 1]
              \/ \E p \in 1..D, q \in 1..Len(src) :
                   result[k] = src[q] /\ result[k + 1] = dst[p] /\ ~Less(dst[p], src[q])
              \/ \E p \in 1..D, q \in 1..Len(src) :
                   result[k] = dst[p] /\ result[k + 1] = src[q] /\ Less(dst[p], src[q])
  <2> DEFINE i == a[k + 1]
             j == (k + 1) - a[k + 1]
  <2>1. k \in 1..total /\ k + 1 \in 1..total /\ (k + 1) - 1 = k /\ k \in Nat /\ k + 1 \in 0..total
    BY <1>1
  <2>2. i \in 0..D /\ j \in 0..Len(src) /\ i + j = k + 1
    BY <1>5, <2>1
  <2>3. T(k + 1) <=> TakesFirst(dst, src, i, j)
    BY DEF T
  <2>4. /\ T(k + 1) => i \in 1..D /\ result[k + 1] = dst[i] /\ a[k] = i - 1 /\ k - a[k] = j
        /\ ~T(k + 1) => j \in 1..Len(src) /\ result[k + 1] = src[j] /\ a[k] = i /\ k - a[k] = j - 1
    BY <1>1, <1>7, <1>8, <2>1, <2>2
  <2> HIDE DEF i, j
  <2>5. CASE T(k + 1) /\ T(k)
    <3>1. i - 1 \in 1..D - 1 /\ (i - 1) + 1 = i /\ result[k] = dst[i - 1]
      BY <1>1, <1>8, <2>1, <2>2, <2>4, <2>5
    <3> QED BY <2>4, <2>5, <3>1
  <2>6. CASE T(k + 1) /\ ~T(k)
    <3>1. i \in 1..D /\ j \in 1..Len(src) /\ result[k] = src[j]
      BY <1>8, <2>1, <2>4, <2>6
    <3>2. ~Less(dst[i], src[j])
      BY <1>1, <2>3, <2>6, <3>1 DEF TakesFirst
    <3> QED BY <2>4, <2>6, <3>1, <3>2
  <2>7. CASE ~T(k + 1) /\ T(k)
    <3>1. i \in 1..D /\ j \in 1..Len(src) /\ result[k] = dst[i]
      BY <1>8, <2>1, <2>4, <2>7
    <3>2. Less(dst[i], src[j])
      BY <1>1, <2>3, <2>7, <3>1 DEF TakesFirst
    <3> QED BY <2>4, <2>7, <3>1, <3>2
  <2>8. CASE ~T(k + 1) /\ ~T(k)
    <3>1. j - 1 \in 1..Len(src) - 1 /\ (j - 1) + 1 = j /\ result[k] = src[j - 1]
      BY <1>1, <1>8, <2>1, <2>2, <2>4, <2>8
    <3> QED BY <2>4, <2>8, <3>1
  <2> QED BY <2>5, <2>6, <2>7, <2>8
<1>15. ASSUME InOrder(dst), InOrder(src), NEW k \in 1..total - 1
       PROVE  ~Less(result[k + 1], result[k])
  <2>1. /\ \A p \in 1..D - 1 : ~Less(dst[p + 1], dst[p])
        /\ \A p \in 1..Len(src) - 1 : ~Less(src[p + 1], src[p])
    BY <1>15 DEF InOrder, D
  <2>2. \A b, c \in Entries : Less(b, c) => ~Less(c, b)
    BY LessIsTotal
  <2> QED BY <1>1, <1>14, <2>1, <2>2
<1>16. ASSUME Strict(dst), Strict(src), Elements(dst) \cap Elements(src) = {},
              NEW k \in 1..total - 1
       PROVE  Less(result[k], result[k + 1])
  <2>1. /\ \A p \in 1..D - 1 : Less(dst[p], dst[p + 1])
        /\ \A p \in 1..Len(src) - 1 : Less(src[p], src[p + 1])
    BY <1>16 DEF Strict, D
  <2>2. \A p \in 1..D, q \in 1..Len(src) : dst[p] # src[q]
    BY <1>1, <1>16 DEF Elements
  <2>3. \A p \in 1..D, q \in 1..Len(src) : ~Less(dst[p], src[q]) => Less(src[q], dst[p])
    BY <1>1, <2>2, LessIsTotal
  <2> QED BY <1>14, <2>1, <2>3
<1>17. /\ InOrder(dst) /\ InOrder(src) => InOrder(result)
       /\ Strict(dst) /\ Strict(src) /\ Elements(dst) \cap Elements(src) = {} => Strict(result)
  BY <1>9, <1>15, <1>16 DEF InOrder, Strict
<1> QED BY <1>9, <1>13, <1>17 DEF result

(* The search for the first bond to pop that is not before b ends. *)
LEMMA ReachedIs ==
  ASSUME NEW popped, IsList(popped), NEW j \in 1..Len(popped) + 1, NEW b
  PROVE  LET m == Reached(popped, j, b)
         IN  /\ m \in j..Len(popped) + 1
             /\ m > Len(popped) \/ ~Less(popped[m], b)
             /\ \A l \in j..m - 1 : Less(popped[l], b)
<1> DEFINE N == Len(popped) + 1 - j
           stops(m) == m > Len(popped) \/ ~Less(popped[m], b)
           found(m) == stops(m) /\ \A l \in j..m - 1 : Less(popped[l], b)
           late == {d \in 0..N : \E e \in 0..d : stops(j + e)}
<1>1. Len(popped) \in Nat /\ N \in Nat /\ j \in Nat /\ j + N = Len(popped) + 1
  BY ListProperties
<1>2. stops(j + N)
  BY <1>1
<1>3. ASSUME NEW d \in 0..N, stops(j + d), \A e \in 0..d - 1 : ~stops(j + e)
      PROVE  \E m \in j..Len(popped) + 1 : found(m)
  <2>1. j + d \in j..Len(popped) + 1
    BY <1>1
  <2>2. ASSUME NEW l \in j..(j + d) - 1 PROVE Less(popped[l], b)
    <3>1. l - j \in 0..d - 1 /\ j + (l - j) = l
      BY <1>1
    <3>2. ~stops(l)
      <4> HIDE DEF stops
      <4> QED BY <1>3, <3>1
    <3> QED BY <3>2
  <2> QED BY <1>3, <2>1, <2>2
<1> HIDE DEF stops, found, N
<1>4. \E m \in j..Len(popped) + 1 : found(m)
  <2>1. CASE stops(j)
    <3>1. 0 \in 0..N /\ j + 0 = j /\ 0..0 - 1 = {}
      BY <1>1
    <3> QED BY <1>3, <2>1, <3>1
  <2>2. CASE ~stops(j)
    <3>1. late \in SUBSET (0..N) /\ N \in late
      BY <1>1, <1>2
    <3>2. 0 \notin late
      <4>1. \A e \in 0..0 : j + e = j
        BY <1>1
      <4> QED BY <2>2, <4>1
    <3>3. PICK d \in 0..N - 1 : d \notin late /\ d + 1 \in late
      <4>1. late # {}
        BY <3>1
      <4> HIDE DEF late
      <4> QED BY <1>1, <3>1, <3>2, <4>1, FirstFailure
    <3>4. d \in 0..N /\ d + 1 \in 0..N /\ (d + 1) - 1 = d /\ \A e \in 0..d + 1 : e \in 0..d \/ e = d + 1
      BY <1>1, <3>3
    <3>5. stops(j + (d + 1)) /\ \A e \in 0..(d + 1) - 1 : ~stops(j + e)
      BY <3>3, <3>4
    <3> QED BY <1>3, <3>4, <3>5
  <2> QED BY <2>1, <2>2
<1>5. found(Reached(popped, j, b)) /\ Reached(popped, j, b) \in j..Len(popped) + 1
  <2>1. Reached(popped, j, b) = CHOOSE m \in j..Len(popped) + 1 : found(m)
    BY DEF Reached, found, stops
  <2> QED BY <1>4, <2>1
<1> QED BY <1>5 DEF found, stops

(* What each step of set_difference uses up, for any number of steps. *)
LEMMA UsedIs ==
  ASSUME NEW list, NEW popped, IsList(list), IsList(popped)
  PROVE  LET used == Used(list, popped)
         IN  /\ used[0] = 0
             /\ \A i \in 0..Len(list) : used[i] \in 0..Len(popped)
             /\ \A i \in 1..Len(list) : used[i] = UseFor(popped, used[i - 1], list[i])
<1> DEFINE used == Used(list, popped)
           L == Len(list)
           S == 0..Len(popped)
           step == [p \in (1..L) \X S |-> UseFor(popped, p[2], list[p[1]])]
<1>1. L \in Nat /\ Len(popped) \in Nat
  BY ListProperties
<1>2. ASSUME NEW n \in S, NEW b PROVE UseFor(popped, n, b) \in S
  <2>1. n + 1 \in 1..Len(popped) + 1
    BY <1>1
  <2>2. PICK m \in n + 1..Len(popped) + 1 : m = Reached(popped, n + 1, b)
    BY <2>1, ReachedIs
  <2>3. UseFor(popped, n, b) = IF Hit(popped, m, b) THEN m ELSE m - 1
    BY <2>2 DEF UseFor
  <2>4. Hit(popped, m, b) => m =< Len(popped)
    BY DEF Hit
  <2> QED BY <1>1, <2>3, <2>4
<1>3. \A i \in 1..L : \A n \in S :
        step[<<i, n>>] = UseFor(popped, n, list[i]) /\ step[<<i, n>>] \in S
  BY <1>2
<1>4. 0 \in S
  BY <1>1
<1> HIDE DEF L, S, step
<1>5. PICK f : IsTrace(f, L, S, 0, step)
  BY <1>1, <1>3, <1>4, Trace
<1>6. \A i \in 1..L : f[i] = UseFor(popped, f[i - 1], list[i])
  <2> TAKE i \in 1..L
  <2>1. i - 1 \in 0..L
    BY <1>1
  <2> QED BY <1>3, <1>5, <2>1 DEF IsTrace
<1>7. f = [i \in 0..L |-> IF i = 0 THEN 0 ELSE UseFor(popped, f[i - 1], list[i])]
  <2>1. \A i \in 0..L : i = 0 \/ i \in 1..L
    BY <1>1
  <2> QED BY <1>5, <1>6, <2>1 DEF IsTrace
<1>8. used = [i \in 0..L |-> IF i = 0 THEN 0 ELSE UseFor(popped, used[i - 1], list[i])]
  <2>1. used = CHOOSE g : g = [i \in 0..L |-> IF i = 0 THEN 0 ELSE UseFor(popped, g[i - 1], list[i])]
    BY Zenon DEF Used, L
  <2> HIDE DEF used
  <2> QED BY <1>7, <2>1
<1> HIDE DEF used
<1>9. used[0] = 0 /\ \A i \in 1..L : used[i] = UseFor(popped, used[i - 1], list[i])
  BY <1>1, <1>8
<1> DEFINE bad == {i \in 0..L : used[i] \notin S}
<1>10. bad = {}
  <2> SUFFICES ASSUME bad # {} PROVE FALSE
    OBVIOUS
  <2>1. bad \in SUBSET (0..L) /\ 0 \notin bad
    BY <1>4, <1>9
  <2>2. PICK i \in 0..L - 1 : i \notin bad /\ i + 1 \in bad
    <3> HIDE DEF bad
    <3> QED BY <1>1, <2>1, FirstFailure
  <2>3. i \in 0..L /\ i + 1 \in 1..L /\ (i + 1) - 1 = i
    BY <1>1, <2>2
  <2>4. used[i] \in S /\ used[i + 1] \notin S
    BY <2>2, <2>3
  <2> QED BY <1>2, <1>9, <2>3, <2>4
<1> QED BY <1>9, <1>10 DEF used, L, S

(* std::set_difference takes away what it should, and keeps the order. *)
LEMMA SetDifferenceIs ==
  ASSUME NEW list, NEW popped, IsList(list), IsList(popped)
  PROVE  /\ IsList(SetDifference(list, popped))
         /\ InOrder(list) => InOrder(SetDifference(list, popped))
         /\ Strict(list) /\ Strict(popped) =>
              /\ Strict(SetDifference(list, popped))
              /\ Elements(SetDifference(list, popped)) = Elements(list) \ Elements(popped)
<1> DEFINE used == Used(list, popped)
           L == Len(list)
           P == Len(popped)
           at == [i \in 1..L |-> Reached(popped, used[i - 1] + 1, list[i])]
           kept == {i \in 1..L : ~Hit(popped, at[i], list[i])}
           result == SetDifference(list, popped)
<1>1. /\ L \in Nat /\ DOMAIN list = 1..L /\ \A i \in 1..L : list[i] \in Entries
      /\ P \in Nat /\ DOMAIN popped = 1..P /\ \A i \in 1..P : popped[i] \in Entries
  BY ListProperties
<1>2. /\ used[0] = 0
      /\ \A i \in 0..L : used[i] \in 0..P
      /\ \A i \in 1..L : used[i] = UseFor(popped, used[i - 1], list[i])
  BY UsedIs
<1>3. result = Picked(list, kept)
  <2>1. kept = {i \in DOMAIN list :
                  ~Hit(popped, Reached(popped, used[i - 1] + 1, list[i]), list[i])}
    BY <1>1
  <2> HIDE DEF kept
  <2> QED BY <2>1 DEF SetDifference
<1> HIDE DEF used, P
<1>4. ASSUME NEW i \in 1..L
      PROVE  /\ i - 1 \in 0..L /\ used[i - 1] \in 0..P
             /\ at[i] \in used[i - 1] + 1..P + 1
             /\ at[i] > P \/ ~Less(popped[at[i]], list[i])
             /\ \A l \in used[i - 1] + 1..at[i] - 1 : Less(popped[l], list[i])
             /\ used[i] = IF Hit(popped, at[i], list[i]) THEN at[i] ELSE at[i] - 1
  <2>1. i - 1 \in 0..L
    BY <1>1
  <2>2. used[i - 1] \in 0..P
    BY <1>2, <2>1
  <2>3. used[i - 1] + 1 \in 1..P + 1
    BY <1>1, <2>2
  <2>4. at[i] = Reached(popped, used[i - 1] + 1, list[i])
    OBVIOUS
  <2>5. used[i] = IF Hit(popped, at[i], list[i]) THEN at[i] ELSE at[i] - 1
    BY <1>2, <2>4 DEF UseFor
  <2> HIDE DEF at
  <2> QED BY <2>1, <2>2, <2>3, <2>4, <2>5, ReachedIs DEF P
<1> HIDE DEF L, at
<1>5. kept \in SUBSET DOMAIN list
  BY <1>1
<1>6. /\ IsList(result) /\ Elements(result) = {list[i] : i \in kept}
      /\ InOrder(list) => InOrder(result)
      /\ Strict(list) => Strict(result)
  <2> HIDE DEF kept, result
  <2> QED BY <1>3, <1>5, PickedIs
<1>7. ASSUME Strict(list), Strict(popped)
      PROVE  Elements(result) = Elements(list) \ Elements(popped)
  <2> DEFINE passed(i) == \A j \in 1..used[i] : i > 0 /\ ~Less(list[i], popped[j])
             bad == {i \in 0..L : ~passed(i)}
  <2>1. ASSUME NEW i \in 1..L, NEW b \in Entries, i - 1 > 0 => ~Less(list[i - 1], b), i - 1 > 0
        PROVE  Less(b, list[i])
    <3>1. i - 1 \in 1..L /\ i - 1 < i
      BY <1>1, <2>1
    <3>2. Less(list[i - 1], list[i])
      BY <1>1, <1>7, <3>1, StrictIsOrder
    <3> QED BY <1>1, <2>1, <3>1, <3>2, LessIsTotal
  <2>2. ASSUME NEW i \in 1..L, passed(i - 1), NEW j \in 1..P, j =< at[i] - 1
        PROVE  Less(popped[j], list[i])
    <3>1. used[i - 1] \in 0..P
      BY <1>4
    <3>2. CASE j =< used[i - 1]
      <4>1. i - 1 > 0 /\ ~Less(list[i - 1], popped[j])
        BY <2>2, <3>1, <3>2
      <4> QED BY <1>1, <2>1, <4>1
    <3>3. CASE ~(j =< used[i - 1])
      <4>1. at[i] \in Int
        BY <1>1, <1>4, <3>1
      <4>2. j \in used[i - 1] + 1..at[i] - 1
        BY <1>1, <2>2, <3>1, <3>3, <4>1
      <4> QED BY <1>4, <4>2
    <3> QED BY <3>2, <3>3
  <2>3. ASSUME NEW i \in 1..L, passed(i - 1) PROVE passed(i)
    <3> SUFFICES ASSUME NEW j \in 1..used[i] PROVE ~Less(list[i], popped[j])
      BY <1>1
    <3>1. used[i] \in 0..P /\ at[i] \in Int
      BY <1>1, <1>2, <1>4
    <3>2. j \in 1..P
      BY <1>1, <3>1
    <3>3. CASE j =< at[i] - 1
      <4>1. Less(popped[j], list[i])
        <5> HIDE DEF passed
        <5> QED BY <2>2, <2>3, <3>2, <3>3
      <4> QED BY <1>1, <3>2, <4>1, LessIsTotal
    <3>4. CASE ~(j =< at[i] - 1)
      <4>1. Hit(popped, at[i], list[i]) /\ j = at[i]
        BY <1>4, <3>1, <3>4
      <4> QED BY <4>1 DEF Hit
    <3> QED BY <3>3, <3>4
  <2>4. \A i \in 0..L : passed(i)
    <3>1. passed(0)
      BY <1>2
    <3> HIDE DEF passed
    <3> SUFFICES ASSUME bad # {} PROVE FALSE
      OBVIOUS
    <3>2. bad \in SUBSET (0..L) /\ 0 \notin bad
      BY <3>1
    <3>3. PICK i \in 0..L - 1 : i \notin bad /\ i + 1 \in bad
      <4> HIDE DEF bad
      <4> QED BY <1>1, <3>2, FirstFailure
    <3>4. i \in 0..L /\ i + 1 \in 1..L /\ (i + 1) - 1 = i
      BY <1>1, <3>3
    <3> QED BY <2>3, <3>3, <3>4
  <2>5. ASSUME NEW i \in 1..L PROVE Hit(popped, at[i], list[i]) <=> list[i] \in Elements(popped)
    <3>0. passed(i - 1) /\ used[i - 1] \in 0..P /\ at[i] \in Int
      <4> HIDE DEF passed
      <4> QED BY <1>1, <1>4, <2>4
    <3>1. ASSUME Hit(popped, at[i], list[i]) PROVE list[i] \in Elements(popped)
      <4>1. at[i] \in 1..P
        BY <1>1, <1>4, <3>0, <3>1 DEF Hit, P
      <4>2. ~Less(popped[at[i]], list[i]) /\ ~Less(list[i], popped[at[i]])
        <5>1. ~(at[i] > P)
          BY <1>1, <4>1
        <5>2. ~Less(list[i], popped[at[i]])
          BY <3>1 DEF Hit
        <5> QED BY <1>4, <5>1, <5>2
      <4>3. popped[at[i]] = list[i]
        BY <1>1, <4>1, <4>2, LessIsTotal
      <4> QED BY <1>1, <4>1, <4>3 DEF Elements
    <3>2. ASSUME ~Hit(popped, at[i], list[i]), list[i] \in Elements(popped) PROVE FALSE
      <4>1. PICK j \in 1..P : popped[j] = list[i]
        BY <1>1, <3>2 DEF Elements
      <4>2. ~Less(popped[j], list[i])
        BY <1>1, <4>1, LessIsTotal
      <4>3. j >= at[i]
        <5> HIDE DEF passed
        <5> QED BY <1>1, <2>2, <3>0, <4>2
      <4>4. at[i] \in 1..P
        BY <1>1, <1>4, <3>0, <4>3
      <4>5. Less(list[i], popped[at[i]])
        BY <3>2, <4>4 DEF Hit, P
      <4>6. j = at[i] \/ Less(popped[at[i]], popped[j])
        BY <1>1, <1>7, <4>3, <4>4, StrictIsOrder
      <4> QED BY <1>1, <4>1, <4>4, <4>5, <4>6, LessIsTotal
    <3> QED BY <3>1, <3>2
  <2> HIDE DEF passed, bad
  <2>6. kept = {i \in 1..L : list[i] \notin Elements(popped)}
    BY <2>5
  <2>7. Elements(list) = {list[i] : i \in 1..L}
    BY <1>1 DEF Elements
  <2> HIDE DEF kept, result
  <2> QED BY <1>6, <2>6, <2>7
<1> QED BY <1>6, <1>7 DEF result

-----------------------------------------------------------------------------
(* Bonds of a structure.                                                   *)

IsLine(s) ==
  /\ HasSites(s) /\ Frame(s).cell = NoCell
  /\ \A i \in Sites(s) : s.atoms[i].at \in Int

LEMMA StructureIsLine ==
  ASSUME BondAssumption, NEW s \in Structures
  PROVE  IsLine(s)
  BY DEF BondAssumption, IsLine, HasSites

(* What is listed of some bonds. *)
Listing(s, bonds, c) == {EntryFrom(s, v) : v \in Passed(s, bonds, c)}

LEMMA EntryIs ==
  ASSUME NEW s, IsLine(s), NEW v \in AllPairs(s)
  PROVE  /\ EntryFrom(s, v) \in Entries
         /\ EntryFrom(s, v)[2] = v[1] /\ EntryFrom(s, v)[3] = v[2]
         /\ v = <<v[1], v[2]>> /\ v[1] \in Sites(s) /\ v[2] \in Sites(s)
         /\ v[1] \in Int /\ v[2] \in Int
<1>1. v = <<v[1], v[2]>> /\ v[1] \in Sites(s) /\ v[2] \in Sites(s)
  BY DEF AllPairs
<1>2. v[1] \in Int /\ v[2] \in Int
  BY <1>1 DEF IsLine, HasSites
<1>3. Distance(s, v) \in Int
  BY <1>1 DEF IsLine, Distance
<1>4. Direction(s, v) \in {-1, 1}
  BY DEF Direction
<1>5. Distance(s, v) * Direction(s, v) \in Int
  BY <1>3, <1>4
<1>6. EntryFrom(s, v) \in Entries
  BY <1>2, <1>3, <1>5 DEF EntryFrom, Entries
<1>7. EntryFrom(s, v)[2] = v[1] /\ EntryFrom(s, v)[3] = v[2]
  BY DEF EntryFrom
<1> QED BY <1>1, <1>2, <1>6, <1>7

(* Every bond is listed once. *)
LEMMA ListedIs ==
  ASSUME NEW s, IsLine(s), NEW bonds \in SUBSET AllPairs(s), NEW c
  PROVE  /\ IsList(Listed(s, bonds, c))
         /\ Elements(Listed(s, bonds, c)) = Listing(s, bonds, c)
         /\ Injective(Listed(s, bonds, c))
<1> DEFINE X == Passed(s, bonds, c)
           R == {p \in X \X X : Precedes(p[1], p[2])}
           n == Cardinality(X)
           q == [k \in 1..n |-> CHOOSE v \in X : BondPosition(X, v) = k - 1]
           result == Listed(s, bonds, c)
<1>1. X \in SUBSET AllPairs(s)
  BY DEF Passed
<1>2. IsFiniteSet(X)
  <2>1. IsFiniteSet(Sites(s))
    BY FS_Interval DEF IsLine, HasSites
  <2>2. IsFiniteSet(AllPairs(s))
    BY <2>1, FS_Product DEF AllPairs
  <2> HIDE DEF X
  <2> QED BY <1>1, <2>2, FS_Subset
<1>3. result = [k \in 1..n |-> EntryFrom(s, q[k])]
  BY DEF Listed
<1>4. \A v, w \in X : <<v, w>> \in R <=> Precedes(v, w)
  OBVIOUS
<1> HIDE DEF X, R, result
<1>5. \A v \in X : BondPosition(X, v) = Before(X, R, v)
  <2> TAKE v \in X
  <2>1. {w \in X : Precedes(w, v)} = {w \in X : <<w, v>> \in R}
    BY <1>4
  <2> QED BY <2>1 DEF BondPosition, Before
<1>6. \A v \in X : v = <<v[1], v[2]>> /\ v[1] \in Int /\ v[2] \in Int
  BY <1>1, EntryIs
<1>7. /\ \A v \in X : <<v, v>> \notin R
      /\ \A v, w \in X : v # w => <<v, w>> \in R \/ <<w, v>> \in R
      /\ \A v, w, u \in X : <<v, w>> \in R /\ <<w, u>> \in R => <<v, u>> \in R
  <2>1. \A v \in X : ~Precedes(v, v)
    BY <1>6 DEF Precedes
  <2>2. \A v, w \in X : v # w => Precedes(v, w) \/ Precedes(w, v)
    <3> TAKE v, w \in X
    <3>1. v[1] = w[1] /\ v[2] = w[2] => v = w
      BY <1>6
    <3> QED BY <1>6, <3>1 DEF Precedes
  <2>3. \A v, w, u \in X : Precedes(v, w) /\ Precedes(w, u) => Precedes(v, u)
    BY <1>6 DEF Precedes
  <2> QED BY <1>4, <2>1, <2>2, <2>3
<1>8. /\ n \in Nat
      /\ \A v \in X : BondPosition(X, v) \in 0..n - 1
      /\ \A k \in 0..n - 1 : \E v \in X : BondPosition(X, v) = k
      /\ \A v, w \in X : BondPosition(X, v) = BondPosition(X, w) => v = w
  <2>1. /\ Cardinality(X) \in Nat
        /\ \A v \in X : Before(X, R, v) \in 0..Cardinality(X) - 1
        /\ \A v, w \in X : Before(X, R, v) = Before(X, R, w) => v = w
        /\ \A k \in 0..Cardinality(X) - 1 : \E v \in X : Before(X, R, v) = k
    <3> HIDE DEF n
    <3> QED BY <1>2, <1>7, Ranked
  <2> QED BY <1>5, <2>1
<1>9. ASSUME NEW k \in 1..n PROVE q[k] \in X /\ BondPosition(X, q[k]) = k - 1
  <2>1. k - 1 \in 0..n - 1
    BY <1>8
  <2>2. \E v \in X : BondPosition(X, v) = k - 1
    BY <1>8, <2>1
  <2> HIDE DEF n
  <2> QED BY <2>2
<1>10. \A v \in X : \E k \in 1..n : q[k] = v
  <2> TAKE v \in X
  <2>1. BondPosition(X, v) + 1 \in 1..n /\ (BondPosition(X, v) + 1) - 1 = BondPosition(X, v)
    BY <1>8
  <2>2. /\ BondPosition(X, q[BondPosition(X, v) + 1]) = BondPosition(X, v)
        /\ q[BondPosition(X, v) + 1] \in X
    BY <1>9, <2>1
  <2>3. q[BondPosition(X, v) + 1] = v
    BY <1>8, <2>2
  <2> QED BY <2>1, <2>3
<1> HIDE DEF n, q
<1>11. result = [k \in 1..n |-> result[k]] /\ \A k \in 1..n : result[k] = EntryFrom(s, q[k])
  BY <1>3
<1>12. \A v \in X : EntryFrom(s, v) \in Entries
  BY <1>1, EntryIs
<1>13. IsList(result) /\ Len(result) = n /\ DOMAIN result = 1..n
  <2>1. \A k \in 1..n : result[k] \in Entries
    BY <1>9, <1>11, <1>12
  <2>2. result = [k \in 1..n |-> result[k]]
    BY <1>11
  <2>3. n \in Nat
    BY <1>8
  <2> QED BY <2>1, <2>2, <2>3, MakesList
<1>14. Elements(result) = Listing(s, bonds, c)
  <2>1. Listing(s, bonds, c) = {EntryFrom(s, v) : v \in X}
    BY DEF Listing, X
  <2>2. Elements(result) = {result[k] : k \in 1..n}
    BY <1>13 DEF Elements
  <2>3. \A k \in 1..n : result[k] \in {EntryFrom(s, v) : v \in X}
    BY <1>9, <1>11
  <2>4. \A v \in X : EntryFrom(s, v) \in {result[k] : k \in 1..n}
    <3> TAKE v \in X
    <3>1. PICK k \in 1..n : q[k] = v
      BY <1>10
    <3> QED BY <1>11, <3>1
  <2> QED BY <2>1, <2>2, <2>3, <2>4
<1>15. Injective(result)
  <2> SUFFICES ASSUME NEW k \in 1..n, NEW l \in 1..n, result[k] = result[l] PROVE k = l
    BY <1>13 DEF Injective
  <2>1. EntryFrom(s, q[k]) = EntryFrom(s, q[l])
    BY <1>11
  <2>2. q[k] \in AllPairs(s) /\ q[l] \in AllPairs(s)
    BY <1>1, <1>9
  <2>3. q[k][1] = q[l][1] /\ q[k][2] = q[l][2]
    BY <2>1, <2>2, EntryIs
  <2>4. q[k] = q[l]
    BY <2>2, <2>3, EntryIs
  <2>5. k - 1 = l - 1
    BY <1>9, <2>4
  <2> QED BY <1>8, <2>5
<1> QED BY <1>13, <1>14, <1>15 DEF result

LEMMA InRangeIs ==
  ASSUME NEW s, NEW visits \in SUBSET AllPairs(s), NEW c
  PROVE  InRange(s, visits, c) \in SUBSET AllPairs(s)
  BY DEF InRange, Seen

LEMMA VisitsArePairs ==
  ASSUME FullSum, NEW s, NEW set \in SUBSET Sites(s)
  PROVE  /\ AllVisits(s) = AllPairs(s)
         /\ PopVisits(s, set) = {v \in AllPairs(s) : Touches(v, set)}
         /\ AddVisits(s, set) = {v \in AllPairs(s) : Touches(v, set)}
  BY DEF AllVisits, PopVisits, AddVisits, AllPairs, Touches

(* The list that the others are compared with has each bond once, in order. *)
LEMMA AllBondsIs ==
  ASSUME NEW s, IsLine(s), NEW c
  PROVE  /\ IsList(AllBonds(s, c)) /\ Strict(AllBonds(s, c))
         /\ Elements(AllBonds(s, c)) = Listing(s, InRange(s, AllVisits(s), c), c)
<1>1. InRange(s, AllVisits(s), c) \in SUBSET AllPairs(s)
  BY InRangeIs DEF AllVisits, AllPairs
<1> QED BY <1>1, ListedIs, SortedIs DEF AllBonds

(* The bonds that do not end at some sites. *)
Apart(s, set, c) == Listing(s, InRange(s, {v \in AllPairs(s) : ~Touches(v, set)}, c), c)

Near(s, set, c) == Listing(s, InRange(s, {v \in AllPairs(s) : Touches(v, set)}, c), c)

LEMMA ListingIs ==
  ASSUME NEW s, NEW V \in SUBSET AllPairs(s), NEW c
  PROVE  Listing(s, InRange(s, V, c), c)
           = {EntryFrom(s, v) : v \in {u \in V : /\ Bonded(s, u) /\ Distance(s, u) =< c.rmax
                                                 /\ CheckConeFilters(c.cones, Direction(s, u))}}
<1>1. \A v : ~Hidden(NoMask, s, v)
  BY DEF Hidden, NoMask
<1>2. Passed(s, InRange(s, V, c), c)
        = {u \in V : /\ Bonded(s, u) /\ Distance(s, u) =< c.rmax
                     /\ CheckConeFilters(c.cones, Direction(s, u))}
  BY <1>1 DEF Passed, InRange, Seen
<1> QED BY <1>2 DEF Listing

(* A bond either touches one of some sites or does not. *)
LEMMA NearOrApart ==
  ASSUME NEW s, IsLine(s), NEW set \in SUBSET Sites(s), NEW c
  PROVE  /\ Listing(s, InRange(s, AllPairs(s), c), c) = Near(s, set, c) \cup Apart(s, set, c)
         /\ Near(s, set, c) \cap Apart(s, set, c) = {}
<1> DEFINE listed(u) == /\ Bonded(s, u) /\ Distance(s, u) =< c.rmax
                        /\ CheckConeFilters(c.cones, Direction(s, u))
           near == {v \in AllPairs(s) : Touches(v, set)}
           apart == {v \in AllPairs(s) : ~Touches(v, set)}
           from(V) == {EntryFrom(s, v) : v \in {u \in V : listed(u)}}
<1>1. /\ Listing(s, InRange(s, AllPairs(s), c), c) = from(AllPairs(s))
      /\ Near(s, set, c) = from(near)
      /\ Apart(s, set, c) = from(apart)
  <2>1. \A V \in SUBSET AllPairs(s) : Listing(s, InRange(s, V, c), c) = from(V)
    BY ListingIs
  <2> HIDE DEF from
  <2> QED BY <2>1 DEF Near, Apart
<1>2. \A v, u \in AllPairs(s) : EntryFrom(s, v) = EntryFrom(s, u) => v = u
  <2> TAKE v, u \in AllPairs(s)
  <2> HAVE EntryFrom(s, v) = EntryFrom(s, u)
  <2>1. v[1] = u[1] /\ v[2] = u[2]
    BY EntryIs
  <2>2. v = <<v[1], v[2]>> /\ u = <<u[1], u[2]>>
    BY EntryIs
  <2> QED BY <2>1, <2>2
<1> HIDE DEF listed
<1>3. from(AllPairs(s)) = from(near) \cup from(apart)
  OBVIOUS
<1>4. from(near) \cap from(apart) = {}
  BY <1>2
<1> QED BY <1>1, <1>3, <1>4

(* The sites that keep their atoms keep their bonds. *)
LEMMA KeptBonds ==
  ASSUME NEW s, IsLine(s), NEW t, IsLine(t), NEW c
  PROVE  Apart(s, Mismatched(s, t), c) = Apart(t, Mismatched(t, s), c)
<1> DEFINE listed(x, u) == /\ Bonded(x, u) /\ Distance(x, u) =< c.rmax
                           /\ CheckConeFilters(c.cones, Direction(x, u))
           kept(x, set) == {v \in AllPairs(x) : ~Touches(v, set)}
<1>1. ASSUME NEW x, IsLine(x), NEW y, IsLine(y), NEW v \in kept(x, Mismatched(x, y))
      PROVE  /\ v \in kept(y, Mismatched(y, x))
             /\ listed(x, v) <=> listed(y, v)
             /\ EntryFrom(x, v) = EntryFrom(y, v)
  <2>1. /\ v = <<v[1], v[2]>>
        /\ v[1] \in Sites(x) /\ v[1] \in Sites(y) /\ x.atoms[v[1]] = y.atoms[v[1]]
        /\ v[2] \in Sites(x) /\ v[2] \in Sites(y) /\ x.atoms[v[2]] = y.atoms[v[2]]
    BY DEF AllPairs, Touches, Mismatched
  <2>2. v \in kept(y, Mismatched(y, x))
    BY <2>1 DEF AllPairs, Touches, Mismatched
  <2>3. Distance(x, v) = Distance(y, v) /\ Direction(x, v) = Direction(y, v)
    BY <2>1 DEF Distance, Direction
  <2>4. Bonded(x, v) <=> Bonded(y, v)
    BY <1>1, <2>1 DEF Bonded, IsLine
  <2>5. EntryFrom(x, v) = EntryFrom(y, v)
    BY <2>3 DEF EntryFrom
  <2> QED BY <2>2, <2>3, <2>4, <2>5
<1>2. /\ Apart(s, Mismatched(s, t), c)
           = {EntryFrom(s, v) : v \in {u \in kept(s, Mismatched(s, t)) : listed(s, u)}}
      /\ Apart(t, Mismatched(t, s), c)
           = {EntryFrom(t, v) : v \in {u \in kept(t, Mismatched(t, s)) : listed(t, u)}}
  BY ListingIs DEF Apart
<1> HIDE DEF listed, kept
<1>3. \A v \in kept(s, Mismatched(s, t)) :
        /\ v \in kept(t, Mismatched(t, s)) /\ (listed(s, v) <=> listed(t, v))
        /\ EntryFrom(s, v) = EntryFrom(t, v)
  BY <1>1
<1>4. \A v \in kept(t, Mismatched(t, s)) : v \in kept(s, Mismatched(s, t))
  BY <1>1
<1> QED BY <1>2, <1>3, <1>4

(***************************************************************************)
(* Popping the bonds of the sites that went and adding those of the sites  *)
(* that came turns the bonds of s into the bonds of t.                     *)
(***************************************************************************)
LEMMA UpdateOfBonds ==
  ASSUME FullSum, NEW s, IsLine(s), NEW t, IsLine(t), NEW c,
         NEW d, d = Diff(s, t), d.method = "SIDEBYSIDE"
  PROVE  LET old == Listing(s, InRange(s, AllVisits(s), c), c)
             gone == Listing(s, InRange(s, PopVisits(s, d.pop), c), c)
             new == Listing(t, InRange(t, AddVisits(t, d.add), c), c)
         IN  /\ d.pop \in SUBSET Sites(s) /\ d.add \in SUBSET Sites(t)
             /\ gone \subseteq old /\ (old \ gone) \cap new = {}
             /\ Listing(t, InRange(t, AllVisits(t), c), c) = (old \ gone) \cup new
<1>1. d.pop = Mismatched(s, t) /\ d.add = Mismatched(t, s)
  BY DEF Diff
<1>2. Mismatched(s, t) \in SUBSET Sites(s) /\ Mismatched(t, s) \in SUBSET Sites(t)
  BY DEF Mismatched
<1>3. /\ Listing(s, InRange(s, AllVisits(s), c), c)
           = Near(s, d.pop, c) \cup Apart(s, d.pop, c)
      /\ Listing(s, InRange(s, PopVisits(s, d.pop), c), c) = Near(s, d.pop, c)
      /\ Near(s, d.pop, c) \cap Apart(s, d.pop, c) = {}
  BY <1>1, <1>2, NearOrApart, VisitsArePairs DEF Near
<1>4. /\ Listing(t, InRange(t, AllVisits(t), c), c)
           = Near(t, d.add, c) \cup Apart(t, d.add, c)
      /\ Listing(t, InRange(t, AddVisits(t, d.add), c), c) = Near(t, d.add, c)
      /\ Near(t, d.add, c) \cap Apart(t, d.add, c) = {}
  BY <1>1, <1>2, NearOrApart, VisitsArePairs DEF Near
<1>5. Apart(s, d.pop, c) = Apart(t, d.add, c)
  BY <1>1, KeptBonds
<1> QED BY <1>1, <1>2, <1>3, <1>4, <1>5

(* A calculator on its own goes through all bonds. *)
LEMMA OwnShares ==
  ASSUME NEW s, IsLine(s), NEW t, IsLine(t), NEW pop \in SUBSET Sites(s), NEW add \in SUBSET Sites(t),
         NEW bonds, NEW w \in Nat
  PROVE  /\ ShareOfAll(s, bonds, w, 1) = bonds
         /\ ShareOfPopped(s, pop, bonds, w, 1) = bonds
         /\ ShareOfAdded(s, pop, t, add, bonds, w, 1) = bonds
<1>1. \A p \in Nat : Mine(w, 1, p)
  BY DEF Mine
<1>2. \A i : PopPosition(s, pop, i) \in Nat /\ AddPosition(s, pop, t, add, i) \in Nat
  BY PositionTypes DEF IsLine
<1> QED BY <1>1, <1>2 DEF ShareOfAll, ShareOfPopped, ShareOfAdded

-----------------------------------------------------------------------------
(* What finishValue makes of the lists.                                    *)

LEMMA NothingIsList ==
  /\ IsList(<<>>) /\ Len(<<>>) = 0 /\ Elements(<<>>) = {}
  /\ Strict(<<>>) /\ Injective(<<>>) /\ InOrder(<<>>)
<1>1. IsList(<<>>) /\ Len(<<>>) = 0 /\ DOMAIN <<>> = {}
  BY DEF IsList
<1>2. Elements(<<>>) = {} /\ Injective(<<>>)
  BY <1>1 DEF Elements, Injective
<1>3. \A k : k \notin 1..Len(<<>>) - 1
  BY <1>1
<1>4. Strict(<<>>) /\ InOrder(<<>>)
  BY <1>3 DEF Strict, InOrder
<1> QED BY <1>1, <1>2, <1>4

LEMMA EmptyIsNothing ==
  ASSUME NEW list, IsList(list), Elements(list) = {}
  PROVE  Strict(list) /\ Injective(list) /\ InOrder(list)
<1>1. Len(list) \in Nat /\ DOMAIN list = 1..Len(list)
  BY ListProperties
<1>2. DOMAIN list = {}
  BY DEF Elements
<1>3. Len(list) = 0
  BY <1>1, <1>2
<1>4. \A k : k \notin 1..Len(list) - 1
  BY <1>3
<1> QED BY <1>2, <1>4 DEF Strict, Injective, InOrder

(* finishValue of a calculator that is not parallel, over whole lists. *)
LEMMA FinishedIs ==
  ASSUME NEW l, IsList(l.bonds), IsList(l.add), IsList(l.pop)
  PROVE  LET f == Finished(l, FALSE)
         IN  /\ f = [NoLists EXCEPT !.bonds = f.bonds]
             /\ IsList(f.bonds)
             /\ InOrder(l.bonds) => InOrder(f.bonds)
             /\ (/\ Strict(l.bonds) /\ Injective(l.add) /\ Injective(l.pop)
                 /\ (Elements(l.bonds) \ Elements(l.pop)) \cap Elements(l.add) = {})
                  => /\ Strict(f.bonds)
                     /\ Elements(f.bonds) = (Elements(l.bonds) \ Elements(l.pop)) \cup Elements(l.add)
<1> DEFINE f == Finished(l, FALSE)
           rest == SetDifference(l.bonds, Sorted(l.pop))
           new == Sorted(l.add)
<1>1. f = [NoLists EXCEPT !.bonds = Merge(rest, new)]
  BY DEF Finished
<1>2. f.bonds = Merge(rest, new) /\ f = [NoLists EXCEPT !.bonds = f.bonds]
  BY <1>1 DEF NoLists
<1>3. /\ IsList(Sorted(l.pop)) /\ Elements(Sorted(l.pop)) = Elements(l.pop)
      /\ Injective(l.pop) => Strict(Sorted(l.pop))
  BY SortedIs
<1>4. /\ IsList(new) /\ Elements(new) = Elements(l.add) /\ InOrder(new)
      /\ Injective(l.add) => Strict(new)
  BY SortedIs
<1>5. /\ IsList(rest) /\ (InOrder(l.bonds) => InOrder(rest))
      /\ Strict(l.bonds) /\ Injective(l.pop) =>
           Strict(rest) /\ Elements(rest) = Elements(l.bonds) \ Elements(l.pop)
  BY <1>3, SetDifferenceIs
<1> HIDE DEF f, rest, new
<1>6. /\ IsList(f.bonds) /\ (InOrder(l.bonds) => InOrder(f.bonds))
      /\ Elements(f.bonds) = Elements(rest) \cup Elements(new)
      /\ Strict(rest) /\ Strict(new) /\ Elements(rest) \cap Elements(new) = {} => Strict(f.bonds)
  BY <1>2, <1>4, <1>5, MergeIs
<1> QED BY <1>2, <1>4, <1>5, <1>6 DEF f

(* A list without repetitions is as long as it has elements. *)
LEMMA LengthIs ==
  ASSUME NEW list, IsList(list), Injective(list)
  PROVE  IsFiniteSet(Elements(list)) /\ Cardinality(Elements(list)) = Len(list)
<1>1. Len(list) \in Nat /\ DOMAIN list = 1..Len(list)
  BY ListProperties
<1> DEFINE X == DOMAIN list
<1>2. IsFiniteSet(X) /\ Cardinality(X) = Len(list)
  <2>1. PICK n \in Nat : n = Len(list)
    BY <1>1
  <2>2. IsFiniteSet(1..n) /\ Cardinality(1..n) = n
    BY FS_Interval
  <2> QED BY <1>1, <2>1, <2>2
<1>3. \A k \in X : list[k] \in Elements(list)
  BY DEF Elements
<1>4. \A k, m \in X : list[k] = list[m] => k = m
  BY DEF Injective
<1>5. \A x \in Elements(list) : \E k \in X : list[k] = x
  BY DEF Elements
<1> HIDE DEF X
<1>6. IsFiniteSet(Elements(list)) /\ Cardinality(X) = Cardinality(Elements(list))
  BY <1>2, <1>3, <1>4, <1>5, MatchedCount
<1> QED BY <1>2, <1>6

(* There are not more bonds to pop than bonds, if they are all among them. *)
LEMMA ShorterList ==
  ASSUME NEW one, NEW two, IsList(one), IsList(two), Injective(one), Injective(two),
         Elements(one) \subseteq Elements(two)
  PROVE  Len(one) =< Len(two)
<1>1. /\ IsFiniteSet(Elements(two))
      /\ Cardinality(Elements(one)) = Len(one) /\ Cardinality(Elements(two)) = Len(two)
  BY LengthIs
<1> QED BY <1>1, FS_Subset

-----------------------------------------------------------------------------
(* The invariant.                                                          *)

Lists == [bonds : Seq(Entries), add : Seq(Entries), pop : Seq(Entries)]

(* What the w-th of n calculators lists of s. *)
ShareList(n, w, s, c) == Listed(s, ShareOfAll(s, InRange(s, AllVisits(s), c), w, n), c)

(* Lists that hold nothing but bonds to add, or nothing but bonds. *)
ToAdd(list) == [NoLists EXCEPT !.add = list]

OnlyBonds(list) == [NoLists EXCEPT !.bonds = list]

CalculatorsType ==
  /\ ncpu \in 1..Cardinality(Cpus)
  /\ config \in [Cpus -> Configs]
  /\ fresh \in [Cpus -> BOOLEAN]
  /\ evtype \in [Cpus -> {"BASIC", "OPTIMIZED", "CHECK"}]
  /\ mlast \in [Cpus -> Structures \cup {NoLast}]
  /\ lists \in [Cpus -> Lists]
  /\ thrown \in [Cpus -> BOOLEAN]
  /\ aborted \in [Cpus -> BOOLEAN]
  /\ whole \in [Cpus -> BOOLEAN]

Ordered(w) ==
  /\ InOrder(lists[w].bonds) /\ InOrder(lists[w].pop)
  /\ Parallel => InOrder(lists[w].add)

(* Which evaluators have a last structure, and which have failed a check. *)
Evaluators(w) ==
  /\ evtype[w] = "BASIC" => mlast[w] = NoLast
  /\ evtype[w] = "OPTIMIZED" /\ mlast[w] # NoLast => ~thrown[w]
  /\ Parallel => evtype[w] = "OPTIMIZED"

Settled(w) == fresh[w] /\ mlast[w] # NoLast /\ ~thrown[w]

ListsAll(w) ==
  ~Parallel /\ w \in Active /\ Settled(w) =>
    lists[w] = OnlyBonds(AllBonds(mlast[w], config[w]))

ListsShare(w) ==
  Parallel /\ w \in Active /\ whole[w] /\ mlast[w] # NoLast =>
    /\ lists[w].add = Sorted(ShareList(ncpu, w, mlast[w], config[w]))
    /\ lists[w].pop = <<>>

Good(w) == Ordered(w) /\ Evaluators(w) /\ ListsAll(w) /\ ListsShare(w)

CalculatorsInv == CalculatorsType /\ \A w \in Cpus : Good(w)

(* The share that is merged with others is told by its origin. *)
Origins == [cpu : Cpus, structure : Structures, config : Configs, whole : BOOLEAN]

MasterType ==
  /\ master \in [structure : Structures \cup {NoLast}, lists : Lists,
                 count : 0..ncpu, from : SUBSET Origins]
  /\ InOrder(master.lists.bonds) /\ InOrder(master.lists.add) /\ InOrder(master.lists.pop)
  /\ \A x \in master.from : x.cpu \in Active /\ x.structure = master.structure

(* Complete shares of different calculators, by the same configuration. *)
Similar(from) == \A x, y \in from : x.whole /\ x.config = y.config

OfShare(n, x) == Elements(ShareList(n, x.cpu, x.structure, x.config))

MasterInv ==
  /\ MasterType
  /\ IsFiniteSet(master.from) /\ Cardinality(master.from) =< master.count
  /\ Similar(master.from) /\ Cardinality(master.from) = master.count =>
       LET merged == IF master.count = ncpu THEN master.lists.bonds ELSE master.lists.add
       IN  /\ Strict(merged)
           /\ Elements(merged) = UNION {OfShare(ncpu, x) : x \in master.from}
           /\ master.count < ncpu => master.lists.bonds = <<>> /\ master.lists.pop = <<>>

Inv == CalculatorsInv /\ MasterInv

LEMMA ListsAre ==
  ASSUME NEW l
  PROVE  l \in Lists <=> /\ l = [bonds |-> l.bonds, add |-> l.add, pop |-> l.pop]
                         /\ IsList(l.bonds) /\ IsList(l.add) /\ IsList(l.pop)
  BY DEF Lists, IsList

LEMMA NoListsType ==
  NoLists \in Lists /\ NoLists.bonds = <<>> /\ NoLists.add = <<>> /\ NoLists.pop = <<>>
  BY DEF NoLists, Lists

LEMMA CpusAre ==
  ASSUME BondAssumption
  PROVE  /\ Cardinality(Cpus) \in Nat /\ Cpus = 0..Cardinality(Cpus) - 1
         /\ FullSum /\ NoLast \notin Structures
  BY FS_CardinalityType DEF BondAssumption

LEMMA AskedType ==
  ASSUME BondAssumption, NEW s, NEW c \in Configs
  PROVE  Asked(s, c) \in Configs
  BY DEF BondAssumption, Asked

(* What a CPU lists is what it was dealt. *)
LEMMA ShareListIs ==
  ASSUME NEW s, IsLine(s), NEW n, NEW w, NEW c
  PROVE  /\ IsList(ShareList(n, w, s, c)) /\ Injective(ShareList(n, w, s, c))
         /\ Elements(ShareList(n, w, s, c))
              = Listing(s, ShareOfAll(s, InRange(s, AllVisits(s), c), w, n), c)
<1>1. InRange(s, AllVisits(s), c) \in SUBSET AllPairs(s)
  BY InRangeIs DEF AllVisits, AllPairs
<1>2. ShareOfAll(s, InRange(s, AllVisits(s), c), w, n) \in SUBSET AllPairs(s)
  <2> DEFINE bonds == InRange(s, AllVisits(s), c)
  <2>1. ShareOfAll(s, bonds, w, n) \subseteq bonds
    <3> HIDE DEF bonds
    <3> QED BY DEF ShareOfAll
  <2> QED BY <1>1, <2>1
<1> QED BY <1>2, ListedIs DEF ShareList

(* Finished lists of a worker. *)
LEMMA FinishedShare ==
  ASSUME NEW l \in Lists
  PROVE  LET f == Finished(l, TRUE)
         IN  /\ f \in Lists /\ f.bonds = l.bonds
             /\ f.add = Sorted(l.add) /\ f.pop = Sorted(l.pop)
             /\ InOrder(f.add) /\ InOrder(f.pop)
<1>1. Finished(l, TRUE) = [l EXCEPT !.add = Sorted(l.add), !.pop = Sorted(l.pop)]
  BY DEF Finished
<1>2. IsList(l.bonds) /\ IsList(l.add) /\ IsList(l.pop) /\ l = [bonds |-> l.bonds, add |-> l.add, pop |-> l.pop]
  BY ListsAre
<1>3. IsList(Sorted(l.add)) /\ IsList(Sorted(l.pop)) /\ InOrder(Sorted(l.add)) /\ InOrder(Sorted(l.pop))
  BY <1>2, SortedIs
<1>4. Finished(l, TRUE) = [bonds |-> l.bonds, add |-> Sorted(l.add), pop |-> Sorted(l.pop)]
  BY <1>1, <1>2
<1> DEFINE f == Finished(l, TRUE)
<1>5. f = [bonds |-> l.bonds, add |-> Sorted(l.add), pop |-> Sorted(l.pop)]
  BY <1>4
<1> HIDE DEF f
<1>6. f.bonds = l.bonds /\ f.add = Sorted(l.add) /\ f.pop = Sorted(l.pop)
  BY <1>5
<1>7. f \in Lists
  BY <1>2, <1>3, <1>5, <1>6, ListsAre
<1> QED BY <1>3, <1>6, <1>7 DEF f

LEMMA SortedNothing == Sorted(<<>>) = <<>>
<1>1. IsList(Sorted(<<>>)) /\ Len(Sorted(<<>>)) = 0 /\ IsList(<<>>) /\ Len(<<>>) = 0
  BY NothingIsList, SortedIs
<1>2. \A k : k \notin 1..0
  OBVIOUS
<1> QED BY <1>1, <1>2, EqualLists

(* Finished lists of a calculator on its own. *)
LEMMA FinishedOwn ==
  ASSUME NEW l \in Lists
  PROVE  LET f == Finished(l, FALSE)
         IN  /\ f \in Lists /\ f = OnlyBonds(f.bonds)
             /\ f.add = <<>> /\ f.pop = <<>>
             /\ InOrder(l.bonds) => InOrder(f.bonds)
<1> DEFINE f == Finished(l, FALSE)
<1>1. IsList(l.bonds) /\ IsList(l.add) /\ IsList(l.pop)
  BY ListsAre
<1>2. f = [NoLists EXCEPT !.bonds = f.bonds] /\ IsList(f.bonds) /\ (InOrder(l.bonds) => InOrder(f.bonds))
  BY <1>1, FinishedIs
<1> HIDE DEF f
<1>3. f = [bonds |-> f.bonds, add |-> <<>>, pop |-> <<>>]
  BY <1>2 DEF NoLists
<1>4. f.add = <<>> /\ f.pop = <<>>
  BY <1>3
<1>5. f \in Lists
  BY <1>2, <1>3, <1>4, ListsAre, NothingIsList
<1> QED BY <1>2, <1>4, <1>5 DEF f, OnlyBonds

(* The lists a complete sum fills. *)
LEMMA CompleteLists ==
  ASSUME NEW s, IsLine(s), NEW n, NEW w, NEW c
  PROVE  LET l == ToAdd(ShareList(n, w, s, c))
         IN  /\ l \in Lists /\ l.bonds = <<>> /\ l.pop = <<>> /\ l.add = ShareList(n, w, s, c)
             /\ ~AssertionFails(l)
             /\ n = 1 => Finished(l, FALSE) = OnlyBonds(AllBonds(s, c))
<1> DEFINE l == [NoLists EXCEPT !.add = ShareList(n, w, s, c)]
           f == Finished(l, FALSE)
<1>1. /\ l.bonds = <<>> /\ l.pop = <<>> /\ l.add = ShareList(n, w, s, c)
      /\ l = [bonds |-> l.bonds, add |-> l.add, pop |-> l.pop]
  BY DEF NoLists
<1>2. IsList(l.add) /\ Injective(l.add)
  BY <1>1, ShareListIs
<1>3. l \in Lists
  <2> HIDE DEF l
  <2> QED BY <1>1, <1>2, ListsAre, NothingIsList
<1>4. ~AssertionFails(l)
  <2> HIDE DEF l
  <2> QED BY <1>1, NothingIsList DEF AssertionFails
<1>5. ASSUME n = 1 PROVE f = [NoLists EXCEPT !.bonds = AllBonds(s, c)]
  <2>1. ShareOfAll(s, InRange(s, AllVisits(s), c), w, n) = InRange(s, AllVisits(s), c)
    BY <1>5 DEF ShareOfAll
  <2>2. Elements(l.add) = Elements(AllBonds(s, c))
    BY <1>1, <2>1, ShareListIs, AllBondsIs
  <2> HIDE DEF l
  <2>3. /\ IsList(l.bonds) /\ IsList(l.add) /\ IsList(l.pop)
        /\ Strict(l.bonds) /\ Injective(l.pop) /\ Elements(l.bonds) = {} /\ Elements(l.pop) = {}
    BY <1>1, <1>2, NothingIsList
  <2>4. (Elements(l.bonds) \ Elements(l.pop)) \cap Elements(l.add) = {}
    BY <2>3
  <2>5. /\ f = [NoLists EXCEPT !.bonds = f.bonds] /\ IsList(f.bonds) /\ Strict(f.bonds)
        /\ Elements(f.bonds) = (Elements(l.bonds) \ Elements(l.pop)) \cup Elements(l.add)
    BY <1>2, <2>3, <2>4, FinishedIs
  <2> HIDE DEF f
  <2>6. Elements(f.bonds) = Elements(AllBonds(s, c))
    BY <2>2, <2>3, <2>5
  <2>7. f.bonds = AllBonds(s, c)
    BY <2>5, <2>6, AllBondsIs, StrictIsUnique
  <2> QED BY <2>5, <2>7
<1> QED BY <1>1, <1>3, <1>4, <1>5 DEF ToAdd, OnlyBonds

-----------------------------------------------------------------------------
(* Evaluations and settings keep the invariant.                            *)

LEMMA ActiveAre ==
  ASSUME BondAssumption, CalculatorsType
  PROVE  /\ ncpu \in Nat \ {0} /\ Active = 0..ncpu - 1 /\ Active \subseteq Cpus
         /\ ~Parallel => ncpu = 1
         /\ \A w \in Active : w \in Nat
<1>1. Cardinality(Cpus) \in Nat /\ Cpus = 0..Cardinality(Cpus) - 1 /\ ncpu \in 1..Cardinality(Cpus)
  BY CpusAre DEF CalculatorsType
<1>2. ncpu \in Nat \ {0} /\ (~Parallel => ncpu = 1)
  BY <1>1 DEF Parallel
<1>3. Active = 0..ncpu - 1
  BY <1>1, <1>2 DEF Active
<1> QED BY <1>1, <1>2, <1>3 DEF Active

(* A calculator stays good while nothing of it changes. *)
LEMMA OtherGood ==
  ASSUME NEW v, Good(v), ncpu' = ncpu, lists'[v] = lists[v], config'[v] = config[v],
         fresh'[v] = fresh[v], evtype'[v] = evtype[v], mlast'[v] = mlast[v],
         thrown'[v] = thrown[v], whole'[v] = whole[v]
  PROVE  Good(v)'
<1>1. Ordered(v)'
  BY DEF Good, Ordered, Parallel
<1>2. Evaluators(v)'
  BY DEF Good, Evaluators, Parallel
<1>3. ListsAll(v)'
  BY DEF Good, ListsAll, Settled, Parallel, Active
<1>4. ListsShare(v)'
  BY DEF Good, ListsShare, Parallel, Active
<1> QED BY <1>1, <1>2, <1>3, <1>4 DEF Good

(* A complete sum of the structure, with the configuration that it asks for. *)
LEMMA SumCompletelyInv ==
  ASSUME BondAssumption, CalculatorsInv, NEW w \in Active, NEW s \in Structures,
         SumCompletely(w, s)
  PROVE  CalculatorsInv' /\ \A v \in Cpus : aborted'[v] = aborted[v]
<1> DEFINE c == Asked(s, config[w])
           l == ToAdd(ShareList(ncpu, w, s, c))
<1>1. /\ CalculatorsType /\ Good(w) /\ w \in Cpus /\ IsLine(s)
      /\ ncpu \in Nat \ {0} /\ (~Parallel => ncpu = 1)
  BY ActiveAre, StructureIsLine DEF CalculatorsInv
<1>2. config'[w] = c /\ c \in Configs
  <2>1. config[w] \in Configs
    BY <1>1 DEF CalculatorsType
  <2> QED BY <1>1, <2>1, AskedType DEF SumCompletely, CalculatorsType
<1>3. CompleteList(w, s, config'[w]) = ShareList(ncpu, w, s, c)
  BY <1>2 DEF CompleteList, ShareList
<1> HIDE DEF c
<1>4. Finish(w, l)
  BY <1>3 DEF SumCompletely, ToAdd
<1>5. /\ l \in Lists /\ l.bonds = <<>> /\ l.pop = <<>> /\ l.add = ShareList(ncpu, w, s, c)
      /\ ~AssertionFails(l)
      /\ ncpu = 1 => Finished(l, FALSE) = OnlyBonds(AllBonds(s, c))
  BY <1>1, CompleteLists
<1> HIDE DEF l
<1>6. /\ lists' = [lists EXCEPT ![w] = Finished(l, Parallel)]
      /\ aborted' = [aborted EXCEPT ![w] = aborted[w] \/ AssertionFails(l)]
  BY <1>4 DEF Finish
<1>7. \A v \in Cpus : aborted'[v] = aborted[v]
  BY <1>1, <1>5, <1>6 DEF CalculatorsType
<1>8. /\ ncpu' = ncpu /\ evtype' = evtype /\ thrown' = [thrown EXCEPT ![w] = FALSE]
      /\ whole' = [whole EXCEPT ![w] = TRUE] /\ fresh' = [fresh EXCEPT ![w] = TRUE]
      /\ mlast' = [mlast EXCEPT ![w] = IF evtype[w] = "BASIC" THEN mlast[w] ELSE s]
      /\ config' = [config EXCEPT ![w] = c]
  BY DEF SumCompletely, c
<1>9. Parallel \in BOOLEAN /\ (Parallel' <=> Parallel)
  BY <1>8 DEF Parallel
<1>10. Finished(l, Parallel) \in Lists
  <2>1. CASE Parallel
    BY <1>5, <2>1, FinishedShare
  <2>2. CASE ~Parallel
    <3>1. Parallel = FALSE
      BY <2>2 DEF Parallel
    <3> QED BY <1>5, <3>1, FinishedOwn
  <2> QED BY <2>1, <2>2
<1>11. CalculatorsType'
  <2>1. lists' \in [Cpus -> Lists] /\ config' \in [Cpus -> Configs]
    BY <1>1, <1>2, <1>6, <1>8, <1>10 DEF CalculatorsType
  <2>2. /\ fresh' \in [Cpus -> BOOLEAN] /\ thrown' \in [Cpus -> BOOLEAN]
        /\ whole' \in [Cpus -> BOOLEAN]
    BY <1>1, <1>8 DEF CalculatorsType
  <2>3. aborted' \in [Cpus -> BOOLEAN]
    BY <1>1, <1>6, <1>7 DEF CalculatorsType
  <2>4. mlast' \in [Cpus -> Structures \cup {NoLast}]
    BY <1>1, <1>8 DEF CalculatorsType
  <2> QED BY <1>1, <1>8, <2>1, <2>2, <2>3, <2>4 DEF CalculatorsType
<1>12. ASSUME NEW v \in Cpus, v # w PROVE Good(v)'
  <2>1. /\ lists'[v] = lists[v] /\ config'[v] = config[v] /\ fresh'[v] = fresh[v]
        /\ evtype'[v] = evtype[v] /\ mlast'[v] = mlast[v] /\ thrown'[v] = thrown[v]
        /\ whole'[v] = whole[v]
    BY <1>1, <1>6, <1>8, <1>12 DEF CalculatorsType
  <2> QED BY <1>8, <2>1, OtherGood DEF CalculatorsInv
<1>13. /\ lists'[w] = Finished(l, Parallel) /\ mlast'[w] = IF evtype[w] = "BASIC" THEN mlast[w] ELSE s
       /\ thrown'[w] = FALSE /\ evtype'[w] = evtype[w]
  BY <1>1, <1>6, <1>8 DEF CalculatorsType
<1>14. Evaluators(w)'
  BY <1>1, <1>9, <1>13 DEF Good, Evaluators
<1>15. mlast'[w] # NoLast => mlast'[w] = s
  BY <1>1, <1>13 DEF Good, Evaluators
<1>16. CASE Parallel
  <2>1. /\ lists'[w].bonds = <<>> /\ lists'[w].pop = <<>>
        /\ lists'[w].add = Sorted(ShareList(ncpu, w, s, c))
        /\ InOrder(lists'[w].add)
    BY <1>5, <1>13, <1>16, FinishedShare, SortedNothing
  <2>2. Ordered(w)'
    BY <2>1, NothingIsList DEF Ordered
  <2>3. ListsShare(w)'
    BY <1>2, <1>8, <1>15, <2>1 DEF ListsShare
  <2>4. ListsAll(w)'
    BY <1>9, <1>16 DEF ListsAll
  <2> QED BY <1>11, <1>12, <1>14, <1>7, <2>2, <2>3, <2>4 DEF CalculatorsInv, Good
<1>17. CASE ~Parallel
  <2>1. lists'[w] = OnlyBonds(AllBonds(s, c))
    <3>1. Parallel = FALSE
      BY <1>17 DEF Parallel
    <3> QED BY <1>1, <1>5, <1>13, <1>17, <3>1
  <2>2. lists'[w].bonds = AllBonds(s, c) /\ lists'[w].pop = <<>>
    BY <2>1 DEF NoLists, OnlyBonds
  <2>3. InOrder(AllBonds(s, c))
    BY <1>1, AllBondsIs, StrictIsInjective
  <2>4. Ordered(w)'
    BY <1>9, <1>17, <2>2, <2>3, NothingIsList DEF Ordered
  <2>5. ListsAll(w)'
    BY <1>2, <1>15, <2>1 DEF ListsAll, Settled
  <2>6. ListsShare(w)'
    BY <1>9, <1>17 DEF ListsShare
  <2> QED BY <1>11, <1>12, <1>14, <1>7, <2>4, <2>5, <2>6 DEF CalculatorsInv, Good
<1> QED BY <1>16, <1>17

(* What is left in the lists by the loops of an update. *)
LEMMA UpdatedListsAre ==
  ASSUME BondAssumption, CalculatorsInv, NEW w \in Active, NEW s \in Structures, FastPath(w, s)
  PROVE  LET l == UpdatedLists(w, s)
         IN  /\ l \in Lists /\ l.bonds = lists[w].bonds
             /\ ~Parallel /\ Settled(w) =>
                  /\ ~AssertionFails(l)
                  /\ Finished(l, FALSE) = OnlyBonds(AllBonds(s, config[w]))
<1> DEFINE c == config[w]
           last == mlast[w]
           d == Diff(last, s)
           P == InRange(last, PopVisits(last, d.pop), c)
           A == InRange(s, AddVisits(s, d.add), c)
           popped == ShareOfPopped(last, d.pop, P, w, ncpu)
           added == ShareOfAdded(last, d.pop, s, d.add, A, w, ncpu)
           l == UpdatedLists(w, s)
<1>1. /\ CalculatorsType /\ Good(w) /\ w \in Cpus /\ w \in Nat
      /\ ncpu \in Nat \ {0} /\ (~Parallel => ncpu = 1)
  BY ActiveAre DEF CalculatorsInv
<1>2. last \in Structures /\ d.method = "SIDEBYSIDE"
  BY <1>1 DEF CalculatorsType, FastPath
<1>3. IsLine(last) /\ IsLine(s) /\ FullSum
  BY <1>2, StructureIsLine, CpusAre
<1>4. l = [bonds |-> lists[w].bonds, pop |-> lists[w].pop \o Listed(last, popped, c),
           add |-> Listed(s, added, c)]
  BY DEF UpdatedLists
<1> HIDE DEF last, c, l
<1>5. d.pop \in SUBSET Sites(last) /\ d.add \in SUBSET Sites(s)
  BY <1>2, <1>3, UpdateOfBonds
<1> HIDE DEF d
<1>6. P \in SUBSET AllPairs(last) /\ A \in SUBSET AllPairs(s)
  <2>1. PopVisits(last, d.pop) \in SUBSET AllPairs(last) /\ AddVisits(s, d.add) \in SUBSET AllPairs(s)
    BY <1>3, <1>5, VisitsArePairs
  <2> QED BY <2>1, InRangeIs
<1> HIDE DEF P, A
<1>7. popped \in SUBSET AllPairs(last) /\ added \in SUBSET AllPairs(s)
  BY <1>6 DEF ShareOfPopped, ShareOfAdded
<1> HIDE DEF popped, added
<1>8. /\ IsList(Listed(last, popped, c)) /\ IsList(Listed(s, added, c))
      /\ Injective(Listed(last, popped, c)) /\ Injective(Listed(s, added, c))
      /\ Elements(Listed(last, popped, c)) = Listing(last, popped, c)
      /\ Elements(Listed(s, added, c)) = Listing(s, added, c)
  BY <1>3, <1>7, ListedIs
<1>9. IsList(lists[w].bonds) /\ IsList(lists[w].pop)
  BY <1>1, ListsAre DEF CalculatorsType
<1>10. /\ l.bonds = lists[w].bonds /\ l.pop = lists[w].pop \o Listed(last, popped, c)
       /\ l.add = Listed(s, added, c)
  BY <1>4
<1>11. l \in Lists
  <2>1. IsList(l.pop)
    BY <1>8, <1>9, <1>10 DEF IsList
  <2>2. l = [bonds |-> l.bonds, add |-> l.add, pop |-> l.pop]
    BY <1>4, <1>10
  <2> QED BY <1>8, <1>9, <1>10, <2>1, <2>2, ListsAre
<1>12. ASSUME ~Parallel, Settled(w)
       PROVE  ~AssertionFails(l) /\ Finished(l, FALSE) = OnlyBonds(AllBonds(s, c))
  <2> DEFINE old == Listing(last, InRange(last, AllVisits(last), c), c)
             gone == Listing(last, InRange(last, PopVisits(last, d.pop), c), c)
             new == Listing(s, InRange(s, AddVisits(s, d.add), c), c)
  <2>1. lists[w] = OnlyBonds(AllBonds(last, c))
    BY <1>1, <1>12 DEF Good, ListsAll, last, c
  <2>2. lists[w].bonds = AllBonds(last, c) /\ lists[w].pop = <<>>
    BY <2>1 DEF OnlyBonds, NoLists
  <2>3. popped = P /\ added = A
    BY <1>1, <1>3, <1>5, <1>12, OwnShares DEF popped, added
  <2>4. l.pop = Listed(last, popped, c)
    BY <1>8, <1>10, <2>2 DEF IsList
  <2>5. IsList(l.bonds) /\ IsList(l.add) /\ IsList(l.pop)
    BY <1>11, ListsAre
  <2>6. /\ Strict(l.bonds) /\ Elements(l.bonds) = old
        /\ Injective(l.pop) /\ Elements(l.pop) = gone
        /\ Injective(l.add) /\ Elements(l.add) = new
    BY <1>3, <1>8, <1>10, <2>2, <2>3, <2>4, AllBondsIs DEF P, A
  <2>7. /\ gone \subseteq old /\ (old \ gone) \cap new = {}
        /\ Listing(s, InRange(s, AllVisits(s), c), c) = (old \ gone) \cup new
    BY <1>2, <1>3, UpdateOfBonds DEF d
  <2> HIDE DEF old, gone, new
  <2>8. ~AssertionFails(l)
    <3>1. Len(l.pop) =< Len(l.bonds)
      BY <2>5, <2>6, <2>7, StrictIsInjective, ShorterList
    <3>2. Len(l.pop) \in Nat /\ Len(l.bonds) \in Nat
      BY <2>5, ListProperties
    <3> QED BY <3>1, <3>2 DEF AssertionFails
  <2> DEFINE f == Finished(l, FALSE)
  <2>9. /\ f = OnlyBonds(f.bonds) /\ IsList(f.bonds) /\ Strict(f.bonds)
        /\ Elements(f.bonds) = (old \ gone) \cup new
    BY <2>5, <2>6, <2>7, FinishedIs DEF OnlyBonds
  <2> HIDE DEF f
  <2>10. f.bonds = AllBonds(s, c)
    <3>1. Elements(f.bonds) = Elements(AllBonds(s, c))
      BY <1>3, <2>7, <2>9, AllBondsIs
    <3> QED BY <1>3, <2>9, <3>1, AllBondsIs, StrictIsUnique
  <2> QED BY <2>8, <2>9, <2>10 DEF f
<1> QED BY <1>10, <1>11, <1>12 DEF l, c

LEMMA FinishedType ==
  ASSUME NEW l \in Lists, InOrder(l.bonds)
  PROVE  LET f == Finished(l, Parallel)
         IN  /\ f \in Lists /\ InOrder(f.bonds) /\ InOrder(f.pop)
             /\ Parallel => InOrder(f.add)
             /\ ~Parallel => f = Finished(l, FALSE)
<1>1. CASE Parallel
  BY <1>1, FinishedShare
<1>2. CASE ~Parallel
  <2>1. Parallel = FALSE
    BY <1>2 DEF Parallel
  <2>2. /\ Finished(l, FALSE) \in Lists /\ InOrder(Finished(l, FALSE).bonds)
        /\ Finished(l, FALSE).pop = <<>>
    BY FinishedOwn
  <2> QED BY <1>2, <2>1, <2>2, NothingIsList
<1> QED BY <1>1, <1>2

(* An update: what is popped is listed, what is kept touches no popped site. *)
LEMMA EvalUpdatedInv ==
  ASSUME BondAssumption, CalculatorsInv, NEW w \in Active, NEW s \in Structures,
         EvalUpdated(w, s)
  PROVE  /\ CalculatorsInv'
         /\ \A v \in Cpus : aborted'[v] /\ ~aborted[v] => Parallel
<1> DEFINE l == UpdatedLists(w, s)
<1>1. /\ CalculatorsType /\ Good(w) /\ w \in Cpus /\ FastPath(w, s)
      /\ evtype[w] = "OPTIMIZED" /\ fresh[w] /\ mlast[w] # NoLast
  BY ActiveAre DEF CalculatorsInv, EvalUpdated, FastPath
<1>2. Settled(w)
  BY <1>1 DEF Good, Evaluators, Settled
<1>3. /\ l \in Lists /\ l.bonds = lists[w].bonds
      /\ ~Parallel => /\ ~AssertionFails(l)
                      /\ Finished(l, FALSE) = OnlyBonds(AllBonds(s, config[w]))
  BY <1>1, <1>2, UpdatedListsAre
<1>4. /\ ncpu' = ncpu /\ evtype' = evtype /\ config' = config /\ fresh' = fresh
      /\ thrown' = [thrown EXCEPT ![w] = FALSE] /\ whole' = [whole EXCEPT ![w] = FALSE]
      /\ mlast' = [mlast EXCEPT ![w] = s]
      /\ lists' = [lists EXCEPT ![w] = Finished(l, Parallel)]
      /\ aborted' = [aborted EXCEPT ![w] = aborted[w] \/ AssertionFails(l)]
  BY DEF EvalUpdated, Finish
<1> HIDE DEF l
<1>5. AssertionFails(l) \in BOOLEAN
  BY DEF AssertionFails
<1>6. InOrder(l.bonds)
  BY <1>1, <1>3 DEF Good, Ordered
<1>7. /\ Finished(l, Parallel) \in Lists
      /\ InOrder(Finished(l, Parallel).bonds) /\ InOrder(Finished(l, Parallel).pop)
      /\ Parallel => InOrder(Finished(l, Parallel).add)
      /\ ~Parallel => Finished(l, Parallel) = Finished(l, FALSE)
  BY <1>3, <1>6, FinishedType
<1>8. Parallel' <=> Parallel
  BY <1>4 DEF Parallel
<1>9. CalculatorsType'
  <2>1. lists' \in [Cpus -> Lists]
    BY <1>1, <1>4, <1>7 DEF CalculatorsType
  <2>2. thrown' \in [Cpus -> BOOLEAN] /\ whole' \in [Cpus -> BOOLEAN]
    BY <1>1, <1>4 DEF CalculatorsType
  <2>3. aborted' \in [Cpus -> BOOLEAN]
    BY <1>1, <1>4, <1>5 DEF CalculatorsType
  <2>4. mlast' \in [Cpus -> Structures \cup {NoLast}]
    BY <1>1, <1>4 DEF CalculatorsType
  <2> QED BY <1>1, <1>4, <2>1, <2>2, <2>3, <2>4 DEF CalculatorsType
<1>10. ASSUME NEW v \in Cpus, v # w PROVE Good(v)'
  <2>1. /\ lists'[v] = lists[v] /\ config'[v] = config[v] /\ fresh'[v] = fresh[v]
        /\ evtype'[v] = evtype[v] /\ mlast'[v] = mlast[v] /\ thrown'[v] = thrown[v]
        /\ whole'[v] = whole[v]
    BY <1>1, <1>4, <1>10 DEF CalculatorsType
  <2> QED BY <1>4, <2>1, OtherGood DEF CalculatorsInv
<1>11. /\ lists'[w] = Finished(l, Parallel) /\ mlast'[w] = s /\ config'[w] = config[w]
       /\ thrown'[w] = FALSE /\ evtype'[w] = "OPTIMIZED" /\ whole'[w] = FALSE
  BY <1>1, <1>4 DEF CalculatorsType
<1>12. Ordered(w)'
  BY <1>7, <1>8, <1>11 DEF Ordered
<1>13. Evaluators(w)'
  BY <1>11 DEF Evaluators
<1>14. ListsAll(w)'
  BY <1>3, <1>7, <1>8, <1>11 DEF ListsAll
<1>15. ListsShare(w)'
  BY <1>11 DEF ListsShare
<1>16. Good(w)'
  BY <1>12, <1>13, <1>14, <1>15 DEF Good
<1>17. ASSUME NEW v \in Cpus, aborted'[v], ~aborted[v] PROVE Parallel
  <2>1. v = w /\ AssertionFails(l)
    BY <1>1, <1>4, <1>17 DEF CalculatorsType
  <2> QED BY <1>3, <2>1
<1> QED BY <1>9, <1>10, <1>16, <1>17 DEF CalculatorsInv

(* A check, which sums completely and throws unless the list was empty. *)
LEMMA EvalCheckedInv ==
  ASSUME BondAssumption, CalculatorsInv, NEW w \in Active, NEW s \in Structures,
         EvalChecked(w, s)
  PROVE  CalculatorsInv' /\ \A v \in Cpus : aborted'[v] = aborted[v]
<1> DEFINE c == config[w]
           l == ToAdd(ShareList(ncpu, w, s, c))
<1>1. /\ CalculatorsType /\ Good(w) /\ w \in Cpus /\ IsLine(s)
      /\ ncpu \in Nat \ {0} /\ (~Parallel => ncpu = 1) /\ evtype[w] = "CHECK"
  BY ActiveAre, StructureIsLine DEF CalculatorsInv, EvalChecked
<1>2. ~Parallel /\ ncpu = 1 /\ Parallel = FALSE
  <2>1. ~Parallel
    BY <1>1 DEF Good, Evaluators
  <2> QED BY <1>1, <2>1 DEF Parallel
<1>3. l = [NoLists EXCEPT !.add = CompleteList(w, s, config[w])]
  BY DEF CompleteList, ShareList, ToAdd
<1> HIDE DEF c
<1>4. \/ Finish(w, l) /\ thrown' = [thrown EXCEPT ![w] = FALSE]
      \/ /\ lists' = [lists EXCEPT ![w] = l]
         /\ thrown' = [thrown EXCEPT ![w] = TRUE]
         /\ aborted' = aborted
  BY <1>3 DEF EvalChecked
<1>5. /\ l \in Lists /\ l.bonds = <<>> /\ l.pop = <<>> /\ ~AssertionFails(l)
      /\ Finished(l, FALSE) = OnlyBonds(AllBonds(s, c))
  <2>1. /\ l \in Lists /\ l.bonds = <<>> /\ l.pop = <<>> /\ l.add = ShareList(ncpu, w, s, c)
        /\ ~AssertionFails(l)
        /\ ncpu = 1 => Finished(l, FALSE) = OnlyBonds(AllBonds(s, c))
    BY <1>1, CompleteLists
  <2> QED BY <1>2, <2>1
<1> HIDE DEF l
<1>6. PICK r : lists' = [lists EXCEPT ![w] = r] /\ (r = l \/ r = Finished(l, FALSE))
  BY <1>2, <1>4 DEF Finish
<1>7. \A v \in Cpus : aborted'[v] = aborted[v]
  <2>1. CASE Finish(w, l)
    BY <1>1, <1>5, <2>1 DEF CalculatorsType, Finish
  <2> QED BY <1>4, <2>1
<1>8. /\ ncpu' = ncpu /\ evtype' = evtype /\ config' = config /\ fresh' = fresh
      /\ whole' = [whole EXCEPT ![w] = TRUE] /\ mlast' = [mlast EXCEPT ![w] = s]
  BY DEF EvalChecked
<1>9. Parallel' <=> Parallel
  BY <1>8 DEF Parallel
<1>10. r \in Lists /\ InOrder(r.bonds) /\ InOrder(r.pop)
  <2>1. InOrder(l.bonds) /\ InOrder(l.pop)
    BY <1>5, NothingIsList
  <2>2. /\ Finished(l, FALSE) \in Lists /\ InOrder(Finished(l, FALSE).bonds)
        /\ Finished(l, FALSE).pop = <<>>
    BY <1>5, <2>1, FinishedOwn
  <2> QED BY <1>5, <1>6, <2>1, <2>2, NothingIsList
<1>11. CalculatorsType'
  <2>1. lists' \in [Cpus -> Lists]
    BY <1>1, <1>6, <1>10 DEF CalculatorsType
  <2>2. thrown' \in [Cpus -> BOOLEAN] /\ whole' \in [Cpus -> BOOLEAN]
    BY <1>1, <1>4, <1>8 DEF CalculatorsType
  <2>3. aborted' \in [Cpus -> BOOLEAN]
    <3>1. CASE Finish(w, l)
      BY <1>1, <1>5, <3>1 DEF CalculatorsType, Finish
    <3> QED BY <1>1, <1>4, <3>1 DEF CalculatorsType
  <2>4. mlast' \in [Cpus -> Structures \cup {NoLast}]
    BY <1>1, <1>8 DEF CalculatorsType
  <2> QED BY <1>1, <1>8, <2>1, <2>2, <2>3, <2>4 DEF CalculatorsType
<1>12. ASSUME NEW v \in Cpus, v # w PROVE Good(v)'
  <2>1. /\ lists'[v] = lists[v] /\ config'[v] = config[v] /\ fresh'[v] = fresh[v]
        /\ evtype'[v] = evtype[v] /\ mlast'[v] = mlast[v] /\ whole'[v] = whole[v]
    BY <1>1, <1>6, <1>8, <1>12 DEF CalculatorsType
  <2>2. thrown'[v] = thrown[v]
    BY <1>1, <1>4, <1>12 DEF CalculatorsType
  <2> QED BY <1>8, <2>1, <2>2, OtherGood DEF CalculatorsInv
<1>13. lists'[w] = r /\ mlast'[w] = s /\ config'[w] = c /\ evtype'[w] = "CHECK"
  BY <1>1, <1>6, <1>8 DEF CalculatorsType, c
<1>14. Ordered(w)' /\ Evaluators(w)' /\ ListsShare(w)'
  BY <1>2, <1>9, <1>10, <1>13 DEF Ordered, Evaluators, ListsShare
<1>15. ListsAll(w)'
  <2>1. ASSUME ~thrown'[w] PROVE lists'[w] = OnlyBonds(AllBonds(s, c))
    <3>1. thrown' # [thrown EXCEPT ![w] = TRUE]
      BY <1>1, <2>1 DEF CalculatorsType
    <3>2. Finish(w, l)
      BY <1>4, <3>1
    <3> QED BY <1>1, <1>2, <1>5, <3>2 DEF CalculatorsType, Finish
  <2> QED BY <1>13, <2>1 DEF ListsAll, Settled
<1>16. Good(w)'
  BY <1>14, <1>15 DEF Good
<1> QED BY <1>7, <1>11, <1>12, <1>16 DEF CalculatorsInv

LEMMA SetConfigInv ==
  ASSUME CalculatorsInv, NEW w \in Cpus, NEW c \in Configs, NEW clicks \in BOOLEAN,
         ~clicks => c = config[w], SetConfig(w, c, clicks)
  PROVE  CalculatorsInv' /\ UNCHANGED <<aborted, master>>
<1>1. /\ ~Parallel /\ ncpu' = ncpu /\ evtype' = evtype /\ mlast' = mlast /\ lists' = lists
      /\ thrown' = thrown /\ aborted' = aborted /\ whole' = whole /\ master' = master
      /\ config' = [config EXCEPT ![w] = c] /\ fresh' = [fresh EXCEPT ![w] = fresh[w] /\ ~clicks]
  BY DEF SetConfig, history
<1>2. CalculatorsType /\ Good(w)
  BY DEF CalculatorsInv
<1>3. CalculatorsType'
  <2>1. config' \in [Cpus -> Configs] /\ fresh' \in [Cpus -> BOOLEAN]
    BY <1>1, <1>2 DEF CalculatorsType
  <2> QED BY <1>1, <1>2, <2>1 DEF CalculatorsType
<1>4. ASSUME NEW v \in Cpus, v # w PROVE Good(v)'
  <2>1. config'[v] = config[v] /\ fresh'[v] = fresh[v]
    BY <1>1, <1>2, <1>4 DEF CalculatorsType
  <2> QED BY <1>1, <2>1, OtherGood DEF CalculatorsInv
<1>5. Good(w)'
  <2>1. config'[w] = c /\ (fresh'[w] <=> fresh[w] /\ ~clicks)
    BY <1>1, <1>2 DEF CalculatorsType
  <2>2. Parallel' <=> Parallel
    BY <1>1 DEF Parallel
  <2>3. Ordered(w)' /\ Evaluators(w)' /\ ListsShare(w)'
    BY <1>1, <1>2, <2>2 DEF Good, Ordered, Evaluators, ListsShare
  <2>4. ListsAll(w)'
    BY <1>1, <1>2, <2>1 DEF Good, ListsAll, Settled, Active, Parallel
  <2> QED BY <2>3, <2>4 DEF Good
<1> QED BY <1>1, <1>3, <1>4, <1>5 DEF CalculatorsInv

(* Filters and ranges make what is listed stale, unless they change nothing. *)
LEMMA SettersInv ==
  ASSUME BondAssumption, CalculatorsInv, NEW w \in Active,
         \/ \E r \in Ranges : SetRmax(w, r)
         \/ \E cone \in Cones : FilterCone(w, cone)
         \/ FilterOff(w)
  PROVE  CalculatorsInv' /\ UNCHANGED <<aborted, master>>
<1>1. w \in Cpus /\ config[w] \in Configs
  BY ActiveAre DEF CalculatorsInv, CalculatorsType
<1>2. config[w] = [rmax |-> config[w].rmax, cones |-> config[w].cones]
      /\ config[w].rmax \in Ranges /\ config[w].cones \in SUBSET Cones
  BY <1>1 DEF Configs
<1>3. ASSUME NEW r \in Ranges, SetRmax(w, r) PROVE CalculatorsInv' /\ UNCHANGED <<aborted, master>>
  <2> DEFINE c == [config[w] EXCEPT !.rmax = r]
             clicks == r # config[w].rmax
  <2>1. c = [rmax |-> r, cones |-> config[w].cones]
    BY <1>2
  <2>2. c \in Configs /\ clicks \in BOOLEAN /\ (~clicks => c = config[w])
    BY <1>2, <2>1 DEF Configs
  <2>3. SetConfig(w, c, clicks)
    BY <1>3 DEF SetRmax
  <2> HIDE DEF c, clicks
  <2> QED BY <1>1, <2>2, <2>3, SetConfigInv
<1>4. ASSUME NEW cone \in Cones, FilterCone(w, cone)
      PROVE  CalculatorsInv' /\ UNCHANGED <<aborted, master>>
  <2> DEFINE c == [config[w] EXCEPT !.cones = config[w].cones \cup {cone}]
  <2>1. c = [rmax |-> config[w].rmax, cones |-> config[w].cones \cup {cone}]
    BY <1>2
  <2>2. c \in Configs
    BY <1>2, <2>1 DEF Configs
  <2>3. SetConfig(w, c, TRUE)
    BY <1>4 DEF FilterCone
  <2> HIDE DEF c
  <2> QED BY <1>1, <2>2, <2>3, SetConfigInv
<1>5. ASSUME FilterOff(w) PROVE CalculatorsInv' /\ UNCHANGED <<aborted, master>>
  <2> DEFINE c == [config[w] EXCEPT !.cones = {}]
             clicks == config[w].cones # {}
  <2>1. c = [rmax |-> config[w].rmax, cones |-> {}]
    BY <1>2
  <2>2. c \in Configs /\ clicks \in BOOLEAN /\ (~clicks => c = config[w])
    BY <1>2, <2>1 DEF Configs
  <2>3. SetConfig(w, c, clicks)
    BY <1>5 DEF FilterOff
  <2> HIDE DEF c, clicks
  <2> QED BY <1>1, <2>2, <2>3, SetConfigInv
<1> QED BY <1>3, <1>4, <1>5

(* A new evaluator remembers no structure. *)
LEMMA SetEvaluatorTypeInv ==
  ASSUME BondAssumption, CalculatorsInv, NEW w \in Active, NEW e \in {"BASIC", "OPTIMIZED", "CHECK"},
         SetEvaluatorType(w, e)
  PROVE  CalculatorsInv' /\ UNCHANGED <<aborted, master>>
<1>1. /\ ~Parallel /\ ncpu' = ncpu /\ config' = config /\ fresh' = fresh
      /\ thrown' = thrown /\ aborted' = aborted /\ whole' = whole /\ master' = master
      /\ evtype' = [evtype EXCEPT ![w] = e] /\ mlast' = [mlast EXCEPT ![w] = NoLast]
      /\ lists' = [lists EXCEPT ![w] = NoLists]
  BY DEF SetEvaluatorType, history
<1>2. CalculatorsType /\ w \in Cpus
  BY ActiveAre DEF CalculatorsInv
<1>3. CalculatorsType'
  <2>1. lists' \in [Cpus -> Lists]
    BY <1>1, <1>2, NoListsType DEF CalculatorsType
  <2>2. evtype' \in [Cpus -> {"BASIC", "OPTIMIZED", "CHECK"}] /\ mlast' \in [Cpus -> Structures \cup {NoLast}]
    BY <1>1, <1>2 DEF CalculatorsType
  <2> QED BY <1>1, <1>2, <2>1, <2>2 DEF CalculatorsType
<1>4. ASSUME NEW v \in Cpus, v # w PROVE Good(v)'
  <2>1. lists'[v] = lists[v] /\ evtype'[v] = evtype[v] /\ mlast'[v] = mlast[v]
    BY <1>1, <1>2, <1>4 DEF CalculatorsType
  <2> QED BY <1>1, <2>1, OtherGood DEF CalculatorsInv
<1>5. Good(w)'
  <2>1. lists'[w] = NoLists /\ mlast'[w] = NoLast
    BY <1>1, <1>2 DEF CalculatorsType
  <2>2. Parallel' <=> Parallel
    BY <1>1 DEF Parallel
  <2>3. Ordered(w)'
    BY <1>1, <2>1, <2>2, NoListsType, NothingIsList DEF Ordered
  <2> QED BY <1>1, <2>1, <2>2, <2>3 DEF Good, Evaluators, ListsAll, ListsShare, Settled
<1> QED BY <1>1, <1>3, <1>4, <1>5 DEF CalculatorsInv

(* Any evaluation; the assertion only fails in a parallel run. *)
LEMMA EvalInv ==
  ASSUME BondAssumption, CalculatorsInv, NEW w \in Active, NEW s \in Structures, Eval(w, s)
  PROVE  /\ CalculatorsInv' /\ UNCHANGED master
         /\ \A v \in Cpus : aborted'[v] /\ ~aborted[v] => Parallel
<1>1. CASE EvalCompletely(w, s)
  <2>1. SumCompletely(w, s)
    BY <1>1 DEF EvalCompletely
  <2>2. UNCHANGED master
    BY <2>1 DEF SumCompletely
  <2> QED BY <2>1, <2>2, SumCompletelyInv
<1>2. CASE EvalReverted(w, s)
  <2>1. SumCompletely(w, s)
    BY <1>2 DEF EvalReverted
  <2>2. UNCHANGED master
    BY <2>1 DEF SumCompletely
  <2> QED BY <2>1, <2>2, SumCompletelyInv
<1>3. CASE EvalUpdated(w, s)
  <2>1. UNCHANGED master
    BY <1>3 DEF EvalUpdated
  <2> QED BY <1>3, <2>1, EvalUpdatedInv
<1>4. CASE EvalChecked(w, s)
  <2>1. UNCHANGED master
    BY <1>4 DEF EvalChecked
  <2> QED BY <1>4, <2>1, EvalCheckedInv
<1> QED BY <1>1, <1>2, <1>3, <1>4 DEF Eval
-----------------------------------------------------------------------------
(* The master.                                                             *)

(* All shares of the bonds of a structure, which have no bond in common. *)
LEMMA AllShares ==
  ASSUME NEW s, IsLine(s), NEW n \in Nat \ {0}, NEW c
  PROVE  LET listed(i) == Elements(ShareList(n, i, s, c))
         IN  /\ UNION {listed(i) : i \in 0..n - 1} = Elements(AllBonds(s, c))
             /\ \A i, j \in 0..n - 1 : i # j => listed(i) \cap listed(j) = {}
<1> DEFINE bonds == InRange(s, AllVisits(s), c)
           share(i) == ShareOfAll(s, bonds, i, n)
           listed(i) == Elements(ShareList(n, i, s, c))
<1>1. bonds \in SUBSET AllPairs(s)
  BY InRangeIs DEF AllVisits, AllPairs
<1>2. \A i : listed(i) = Listing(s, share(i), c)
  BY ShareListIs
<1>3. Elements(AllBonds(s, c)) = Listing(s, bonds, c)
  BY AllBondsIs
<1> HIDE DEF bonds, listed
<1>4. /\ UNION {share(i) : i \in 0..n - 1} = bonds
      /\ \A i, j \in 0..n - 1 : i # j => share(i) \cap share(j) = {}
  BY <1>1, SharesPartition DEF IsLine
<1> HIDE DEF share
<1>5. UNION {listed(i) : i \in 0..n - 1} = Elements(AllBonds(s, c))
  <2>1. \A e : e \in Listing(s, bonds, c) <=> \E i \in 0..n - 1 : e \in Listing(s, share(i), c)
    BY <1>4 DEF Listing, Passed
  <2> QED BY <1>2, <1>3, <2>1
<1>6. ASSUME NEW i \in 0..n - 1, NEW j \in 0..n - 1, i # j PROVE listed(i) \cap listed(j) = {}
  <2>1. ASSUME NEW e, e \in listed(i), e \in listed(j) PROVE FALSE
    <3>1. PICK v \in share(i) : e = EntryFrom(s, v)
      BY <1>2, <2>1 DEF Listing, Passed
    <3>2. PICK u \in share(j) : e = EntryFrom(s, u)
      BY <1>2, <2>1 DEF Listing, Passed
    <3>3. v \in AllPairs(s) /\ u \in AllPairs(s)
      BY <1>1, <1>4, <3>1, <3>2
    <3>4. e[2] = v[1] /\ e[3] = v[2] /\ v = <<v[1], v[2]>>
      BY <3>1, <3>3, EntryIs
    <3>5. e[2] = u[1] /\ e[3] = u[2] /\ u = <<u[1], u[2]>>
      BY <3>2, <3>3, EntryIs
    <3>6. v = u
      BY <3>4, <3>5
    <3> QED BY <1>4, <1>6, <3>1, <3>2, <3>6
  <2> QED BY <2>1
<1> QED BY <1>5, <1>6 DEF listed

(* The last merge leaves nothing but bonds. *)
LEMMA FinishedMaster ==
  ASSUME NEW l \in Lists, l.bonds = <<>>, Elements(l.pop) = {}, Strict(l.add)
  PROVE  /\ Strict(Finished(l, FALSE).bonds)
         /\ Elements(Finished(l, FALSE).bonds) = Elements(l.add)
<1>1. IsList(l.bonds) /\ IsList(l.add) /\ IsList(l.pop)
  BY ListsAre
<1>2. Strict(l.bonds) /\ Elements(l.bonds) = {} /\ Injective(l.add) /\ Injective(l.pop)
  BY <1>1, NothingIsList, EmptyIsNothing, StrictIsInjective
<1>3. (Elements(l.bonds) \ Elements(l.pop)) \cap Elements(l.add) = {}
  BY <1>2
<1>4. /\ Strict(Finished(l, FALSE).bonds)
      /\ Elements(Finished(l, FALSE).bonds)
           = (Elements(l.bonds) \ Elements(l.pop)) \cup Elements(l.add)
  BY <1>1, <1>2, <1>3, FinishedIs
<1> QED BY <1>2, <1>4

(* One share more. *)
LEMMA SetMasterStructureInv ==
  ASSUME BondAssumption, CalculatorsInv, NEW s \in Shared, SetMasterStructure(s)
  PROVE  MasterInv'
<1>1. /\ master' = [structure |-> s, lists |-> NoLists, count |-> 0, from |-> {}]
      /\ ncpu' = ncpu
  BY DEF SetMasterStructure
<1>2. s \in Structures /\ ncpu \in Nat \ {0}
  BY ActiveAre DEF BondAssumption, CalculatorsInv
<1>3. /\ master'.structure = s /\ master'.lists = NoLists /\ master'.count = 0
      /\ master'.from = {}
  BY <1>1
<1>4. /\ NoLists.bonds = <<>> /\ NoLists.add = <<>> /\ NoLists.pop = <<>>
      /\ NoLists \in Lists
  BY NoListsType
<1>5. MasterType'
  <2>1. InOrder(<<>>)
    BY NothingIsList
  <2> QED BY <1>1, <1>2, <1>3, <1>4, <2>1 DEF MasterType
<1>6. IsFiniteSet(master'.from) /\ Cardinality(master'.from) = 0
  BY <1>3, FS_EmptySet
<1>7. Strict(<<>>) /\ Elements(<<>>) = {}
  BY NothingIsList
<1> QED BY <1>1, <1>2, <1>3, <1>4, <1>5, <1>6, <1>7 DEF MasterInv

LEMMA MergedNothing == Merge(<<>>, <<>>) = <<>>
<1> DEFINE m == Merge(<<>>, <<>>)
<1>1. IsList(m) /\ Elements(m) = {} /\ IsList(<<>>) /\ Len(<<>>) = 0
  BY NothingIsList, MergeIs
<1> HIDE DEF m
<1>2. Len(m) \in Nat /\ DOMAIN m = 1..Len(m)
  BY <1>1, ListProperties
<1>3. Len(m) = 0
  <2>1. 1 \notin DOMAIN m
    BY <1>1 DEF Elements
  <2> QED BY <1>2, <2>1
<1> QED BY <1>1, <1>3, EqualLists DEF m

(* The lists of one more share. *)
LEMMA OneMoreShare ==
  ASSUME NEW from, NEW o, NEW n, NEW add, NEW own, IsList(add), IsList(own),
         Strict(add), Elements(add) = UNION {OfShare(n, x) : x \in from},
         Strict(own), Elements(own) = OfShare(n, o),
         \A x \in from : OfShare(n, x) \cap OfShare(n, o) = {}
  PROVE  /\ Strict(Merge(add, own))
         /\ Elements(Merge(add, own)) = UNION {OfShare(n, x) : x \in from \cup {o}}
<1>1. Elements(add) \cap Elements(own) = {}
  OBVIOUS
<1>2. /\ Strict(Merge(add, own))
      /\ Elements(Merge(add, own)) = Elements(add) \cup Elements(own)
  BY <1>1, MergeIs
<1> QED BY <1>2

(* A record with two fields replaced. *)
LEMMA ReplacedLists ==
  ASSUME NEW l \in Lists, NEW add, NEW pop
  PROVE  [l EXCEPT !.pop = pop, !.add = add] = [bonds |-> l.bonds, add |-> add, pop |-> pop]
<1> DEFINE r == [l EXCEPT !.pop = pop, !.add = add]
<1>1. r = [l EXCEPT !.pop = pop, !.add = add]
  OBVIOUS
<1> HIDE DEF r
<1>2. r = [bonds |-> l.bonds, add |-> add, pop |-> pop]
  BY <1>1 DEF Lists
<1> QED BY <1>1, <1>2

(* One more share, the last of them included. *)
LEMMA MergeParallelDataInv ==
  ASSUME BondAssumption, CalculatorsInv, MasterInv, NEW w \in Active, MergeParallelData(w)
  PROVE  MasterInv'
<1> DEFINE m == master
           o == Origin(w)
           add == Merge(m.lists.add, lists[w].add)
           pop == Merge(m.lists.pop, lists[w].pop)
           l == [bonds |-> m.lists.bonds, add |-> add, pop |-> pop]
           f == IF m.count + 1 = ncpu THEN Finished(l, FALSE) ELSE l
<1>1. /\ Parallel /\ w \in Cpus /\ Good(w) /\ CalculatorsType
      /\ ncpu \in Nat \ {0} /\ Active = 0..ncpu - 1 /\ ncpu' = ncpu
  BY ActiveAre DEF CalculatorsInv, MergeParallelData
<1>2. /\ MasterType /\ m.count \in 0..ncpu /\ m.count < ncpu /\ m.lists \in Lists
      /\ mlast[w] = m.structure /\ mlast[w] \in Structures /\ m.from \in SUBSET Origins
      /\ IsFiniteSet(m.from) /\ Cardinality(m.from) =< m.count
  BY <1>1 DEF MasterInv, MasterType, MergeParallelData, CalculatorsType
<1>3. /\ m.lists = [bonds |-> m.lists.bonds, add |-> m.lists.add, pop |-> m.lists.pop]
      /\ IsList(m.lists.bonds) /\ IsList(m.lists.add) /\ IsList(m.lists.pop)
      /\ InOrder(m.lists.bonds) /\ InOrder(m.lists.add) /\ InOrder(m.lists.pop)
  BY <1>2, ListsAre DEF MasterType
<1>4. lists[w] \in Lists
  BY <1>1 DEF CalculatorsType
<1>5. /\ IsList(lists[w].add) /\ IsList(lists[w].pop)
      /\ InOrder(lists[w].add) /\ InOrder(lists[w].pop)
  BY <1>1, <1>4, ListsAre DEF Good, Ordered
<1>6. /\ IsList(add) /\ IsList(pop) /\ InOrder(add) /\ InOrder(pop)
      /\ Elements(pop) = Elements(m.lists.pop) \cup Elements(lists[w].pop)
  BY <1>3, <1>5, MergeIs
<1>7. [m.lists EXCEPT !.pop = pop, !.add = add] = l
  BY <1>2, ReplacedLists
<1>8. master' = [m EXCEPT !.lists = f, !.count = m.count + 1, !.from = m.from \cup {o}]
  BY <1>7 DEF MergeParallelData
<1>9. o \in Origins /\ o.cpu = w /\ o.structure = m.structure /\ o.config = config[w]
      /\ o.whole = whole[w]
  BY <1>1, <1>2 DEF Origin, Origins, CalculatorsType
<1> HIDE DEF add, pop, o
<1>10. /\ l.bonds = m.lists.bonds /\ l.add = add /\ l.pop = pop
       /\ l = [bonds |-> l.bonds, add |-> l.add, pop |-> l.pop]
  OBVIOUS
<1>11. l \in Lists
  <2> HIDE DEF l
  <2> QED BY <1>3, <1>6, <1>10, ListsAre
<1> HIDE DEF l
<1>12. /\ Finished(l, FALSE) \in Lists /\ InOrder(Finished(l, FALSE).bonds)
       /\ Finished(l, FALSE).add = <<>> /\ Finished(l, FALSE).pop = <<>>
  BY <1>3, <1>10, <1>11, FinishedOwn
<1>13. f \in Lists /\ InOrder(f.bonds) /\ InOrder(f.add) /\ InOrder(f.pop)
  BY <1>3, <1>6, <1>10, <1>11, <1>12, NothingIsList
<1> HIDE DEF f
<1>14. /\ master'.lists = f /\ master'.count = m.count + 1 /\ master'.from = m.from \cup {o}
       /\ master'.structure = m.structure
  BY <1>2, <1>8 DEF MasterType
<1>15. MasterType'
  <2>1. \A x \in m.from : x.cpu \in Active /\ x.structure = m.structure
    BY <1>2 DEF MasterType
  <2>2. Active' = Active
    BY <1>1 DEF Active
  <2>3. \A x \in m.from \cup {o} : x.cpu \in Active' /\ x.structure = m.structure
    BY <1>9, <2>1, <2>2
  <2>4. m.count + 1 \in 0..ncpu /\ m.from \cup {o} \in SUBSET Origins
    BY <1>1, <1>2, <1>9
  <2>5. master' \in [structure : Structures \cup {NoLast}, lists : Lists,
                     count : 0..ncpu, from : SUBSET Origins]
    BY <1>2, <1>8, <1>13, <2>4 DEF MasterType
  <2> QED BY <1>1, <1>13, <1>14, <2>3, <2>5 DEF MasterType
<1>16. /\ IsFiniteSet(m.from \cup {o}) /\ Cardinality(m.from \cup {o}) =< m.count + 1
       /\ Cardinality(m.from \cup {o}) = m.count + 1 =>
            o \notin m.from /\ Cardinality(m.from) = m.count
  <2>1. Cardinality(m.from) \in Nat
    BY <1>2, FS_CardinalityType
  <2>2. CASE o \in m.from
    <3>1. m.from \cup {o} = m.from
      BY <2>2
    <3> QED BY <1>2, <2>1, <3>1
  <2>3. CASE o \notin m.from
    <3>1. /\ IsFiniteSet(m.from \cup {o})
          /\ Cardinality(m.from \cup {o}) = Cardinality(m.from) + 1
      BY <1>2, <2>3, FS_AddElement
    <3> QED BY <1>2, <2>1, <2>3, <3>1
  <2> QED BY <2>2, <2>3
<1>17. ASSUME Similar(m.from \cup {o}), Cardinality(m.from \cup {o}) = m.count + 1
       PROVE  /\ Strict(add)
              /\ Elements(add) = UNION {OfShare(ncpu, x) : x \in m.from \cup {o}}
              /\ m.lists.bonds = <<>> /\ m.lists.pop = <<>> /\ lists[w].pop = <<>>
  <2>1. o \notin m.from /\ Cardinality(m.from) = m.count
    BY <1>16, <1>17
  <2>2. Similar(m.from)
    BY <1>17 DEF Similar
  <2>3. /\ Strict(m.lists.add)
        /\ Elements(m.lists.add) = UNION {OfShare(ncpu, x) : x \in m.from}
        /\ m.lists.bonds = <<>> /\ m.lists.pop = <<>>
    <3>1. m.count # ncpu
      BY <1>2
    <3> QED BY <1>2, <2>1, <2>2, <3>1 DEF MasterInv
  <2>4. whole[w] = TRUE
    BY <1>1, <1>9, <1>17 DEF Similar, CalculatorsType
  <2>5. /\ lists[w].add = Sorted(ShareList(ncpu, w, mlast[w], config[w]))
        /\ lists[w].pop = <<>>
    <3>1. mlast[w] # NoLast
      BY DEF MergeParallelData
    <3> QED BY <1>1, <2>4, <3>1 DEF Good, ListsShare
  <2>6. IsLine(m.structure)
    BY <1>2, StructureIsLine
  <2>7. Strict(lists[w].add) /\ Elements(lists[w].add) = OfShare(ncpu, o)
    <3>1. /\ IsList(ShareList(ncpu, w, m.structure, config[w]))
          /\ Injective(ShareList(ncpu, w, m.structure, config[w]))
      BY <2>6, ShareListIs
    <3> QED BY <1>2, <1>9, <2>5, <3>1, SortedIs DEF OfShare
  <2>8. ASSUME NEW x \in m.from PROVE OfShare(ncpu, x) \cap OfShare(ncpu, o) = {}
    <3>1. /\ x \in Origins /\ x.structure = o.structure /\ x.cpu \in 0..ncpu - 1
      BY <1>1, <1>2, <1>9 DEF MasterType
    <3>2. x.config = o.config /\ x.whole = o.whole
      <4>1. x \in m.from \cup {o} /\ o \in m.from \cup {o}
        OBVIOUS
      <4>2. x.config = o.config /\ x.whole /\ o.whole
        BY <1>17, <4>1 DEF Similar
      <4>3. x.whole \in BOOLEAN /\ o.whole \in BOOLEAN
        BY <1>9, <3>1 DEF Origins
      <4> QED BY <4>2, <4>3
    <3>3. x.cpu # o.cpu
      <4>1. x = [cpu |-> x.cpu, structure |-> x.structure, config |-> x.config, whole |-> x.whole]
        BY <3>1 DEF Origins
      <4>2. o = [cpu |-> o.cpu, structure |-> o.structure, config |-> o.config, whole |-> o.whole]
        BY <1>9 DEF Origins
      <4> QED BY <2>1, <3>1, <3>2, <4>1, <4>2
    <3>4. o.cpu \in 0..ncpu - 1
      BY <1>1, <1>9
    <3>5. \A i, j \in 0..ncpu - 1 : i # j =>
            Elements(ShareList(ncpu, i, m.structure, o.config))
              \cap Elements(ShareList(ncpu, j, m.structure, o.config)) = {}
      BY <1>1, <2>6, AllShares
    <3> QED BY <1>9, <3>1, <3>2, <3>3, <3>4, <3>5 DEF OfShare
  <2>9. /\ Strict(Merge(m.lists.add, lists[w].add))
        /\ Elements(Merge(m.lists.add, lists[w].add))
             = UNION {OfShare(ncpu, x) : x \in m.from \cup {o}}
    <3>1. \A x \in m.from : OfShare(ncpu, x) \cap OfShare(ncpu, o) = {}
      BY <2>8
    <3> DEFINE own == lists[w].add
               before == m.lists.add
               from == m.from
    <3>2. /\ IsList(before) /\ IsList(own) /\ Strict(before) /\ Strict(own)
          /\ Elements(before) = UNION {OfShare(ncpu, x) : x \in from}
          /\ Elements(own) = OfShare(ncpu, o)
      BY <1>3, <1>5, <2>3, <2>7
    <3> HIDE DEF own, before, from
    <3>3. \A x \in from : OfShare(ncpu, x) \cap OfShare(ncpu, o) = {}
      BY <3>1 DEF from
    <3>4. /\ Strict(Merge(before, own))
          /\ Elements(Merge(before, own)) = UNION {OfShare(ncpu, x) : x \in from \cup {o}}
      BY <3>2, <3>3, OneMoreShare
    <3> QED BY <3>4 DEF own, before, from
  <2> QED BY <2>3, <2>5, <2>9 DEF add
<1>18. ASSUME Similar(master'.from), Cardinality(master'.from) = master'.count
       PROVE  LET merged == IF master'.count = ncpu THEN master'.lists.bonds ELSE master'.lists.add
              IN  /\ Strict(merged)
                  /\ Elements(merged) = UNION {OfShare(ncpu, x) : x \in master'.from}
                  /\ master'.count < ncpu => master'.lists.bonds = <<>> /\ master'.lists.pop = <<>>
  <2>1. /\ Strict(add)
        /\ Elements(add) = UNION {OfShare(ncpu, x) : x \in m.from \cup {o}}
        /\ m.lists.bonds = <<>> /\ m.lists.pop = <<>> /\ lists[w].pop = <<>>
    BY <1>14, <1>17, <1>18
  <2>2. CASE m.count + 1 = ncpu
    <3>1. f = Finished(l, FALSE)
      BY <2>2 DEF f
    <3>2. Elements(l.pop) = {} /\ l.bonds = <<>> /\ Strict(l.add)
      BY <1>6, <1>10, <2>1, NothingIsList
    <3>3. Strict(f.bonds) /\ Elements(f.bonds) = Elements(add)
      BY <1>10, <1>11, <3>1, <3>2, FinishedMaster
    <3> QED BY <1>14, <2>1, <2>2, <3>3, <1>1
  <2>3. CASE m.count + 1 # ncpu
    <3>1. f = l
      BY <2>3 DEF f
    <3>2. l.pop = <<>>
      BY <1>10, <2>1, MergedNothing DEF pop
    <3> QED BY <1>10, <1>14, <2>1, <2>3, <3>1, <3>2
  <2> QED BY <2>2, <2>3
<1> QED BY <1>1, <1>14, <1>15, <1>16, <1>18 DEF MasterInv

(* Calculators do not disturb the master. *)
LEMMA MasterKept ==
  ASSUME MasterInv, master' = master, ncpu' = ncpu
  PROVE  MasterInv'
  BY DEF MasterInv, MasterType, Active

LEMMA CalculatorsKept ==
  ASSUME CalculatorsInv, UNCHANGED <<ncpu, calculator, history>>
  PROVE  CalculatorsInv'
<1>1. CalculatorsType'
  BY DEF CalculatorsInv, CalculatorsType, calculator, history
<1>2. ASSUME NEW v \in Cpus PROVE Good(v)'
  <2>1. Good(v)
    BY DEF CalculatorsInv
  <2> QED BY <2>1, OtherGood DEF calculator, history
<1> QED BY <1>1, <1>2 DEF CalculatorsInv

-----------------------------------------------------------------------------
(* The invariant.                                                          *)

LEMMA InitInv ==
  ASSUME BondAssumption, Init
  PROVE  Inv
<1>1. Cardinality(Cpus) \in Nat /\ ncpu \in 1..Cardinality(Cpus) /\ ncpu \in Nat \ {0}
  BY CpusAre DEF Init
<1>2. /\ NoLists.bonds = <<>> /\ NoLists.add = <<>> /\ NoLists.pop = <<>>
      /\ NoLists \in Lists
  BY NoListsType
<1>3. PICK f \in SUBSET Cones : config = [w \in Cpus |-> [rmax |-> DefaultRmax, cones |-> f]]
  BY DEF Init
<1>4. [rmax |-> DefaultRmax, cones |-> f] \in Configs
  BY DEF BondAssumption, Configs
<1>5. CalculatorsType
  BY <1>1, <1>2, <1>3, <1>4 DEF Init, CalculatorsType
<1>6. ASSUME NEW w \in Cpus PROVE Good(w)
  <2>1. /\ lists[w] = NoLists /\ fresh[w] = FALSE /\ evtype[w] = "OPTIMIZED"
        /\ mlast[w] = NoLast /\ thrown[w] = FALSE /\ whole[w] = FALSE
    BY DEF Init
  <2>2. Ordered(w)
    BY <1>2, <2>1, NothingIsList DEF Ordered
  <2>3. Evaluators(w)
    BY <2>1 DEF Evaluators
  <2>4. ListsAll(w) /\ ListsShare(w)
    BY <2>1 DEF ListsAll, ListsShare, Settled
  <2> QED BY <2>2, <2>3, <2>4 DEF Good
<1>7. MasterInv
  <2>1. /\ master.structure = NoLast /\ master.lists = NoLists /\ master.count = 0
        /\ master.from = {}
    BY DEF Init
  <2>2. MasterType
    BY <1>1, <1>2, <2>1, NothingIsList DEF MasterType, Init
  <2>3. IsFiniteSet(master.from) /\ Cardinality(master.from) = 0
    BY <2>1, FS_EmptySet
  <2> QED BY <1>1, <1>2, <2>1, <2>2, <2>3, NothingIsList DEF MasterInv
<1> QED BY <1>5, <1>6, <1>7 DEF Inv, CalculatorsInv

(* Every step keeps the invariant, and only a worker fails the assertion. *)
LEMMA NextInv ==
  ASSUME BondAssumption, Inv, [Next]_vars
  PROVE  /\ Inv' /\ ncpu' = ncpu
         /\ \A v \in Cpus : aborted'[v] /\ ~aborted[v] => Parallel
<1>1. CalculatorsInv /\ MasterInv
  BY DEF Inv
<1>2. CASE \E w \in Active, s \in IF Parallel THEN Shared ELSE Structures : Eval(w, s)
  <2>1. PICK w \in Active, s \in IF Parallel THEN Shared ELSE Structures : Eval(w, s)
    BY <1>2
  <2>2. s \in Structures
    BY DEF BondAssumption
  <2>3. ncpu' = ncpu
    BY <2>1 DEF Eval, EvalCompletely, EvalReverted, SumCompletely, EvalUpdated, EvalChecked
  <2>4. /\ CalculatorsInv' /\ master' = master
        /\ \A v \in Cpus : aborted'[v] /\ ~aborted[v] => Parallel
    BY <1>1, <2>1, <2>2, EvalInv
  <2> QED BY <1>1, <2>3, <2>4, MasterKept DEF Inv
<1>3. CASE \E w \in Active : \/ \E r \in Ranges : SetRmax(w, r)
                             \/ \E cone \in Cones : FilterCone(w, cone)
                             \/ FilterOff(w)
  <2>1. PICK w \in Active : \/ \E r \in Ranges : SetRmax(w, r)
                            \/ \E cone \in Cones : FilterCone(w, cone)
                            \/ FilterOff(w)
    BY <1>3
  <2>2. ncpu' = ncpu
    BY <2>1 DEF SetRmax, FilterCone, FilterOff, SetConfig
  <2>3. CalculatorsInv' /\ aborted' = aborted /\ master' = master
    BY <1>1, <2>1, SettersInv
  <2> QED BY <1>1, <2>2, <2>3, MasterKept DEF Inv
<1>4. CASE \E w \in Active, e \in {"BASIC", "OPTIMIZED", "CHECK"} : SetEvaluatorType(w, e)
  <2>1. PICK w \in Active, e \in {"BASIC", "OPTIMIZED", "CHECK"} : SetEvaluatorType(w, e)
    BY <1>4
  <2>2. ncpu' = ncpu
    BY <2>1 DEF SetEvaluatorType
  <2>3. CalculatorsInv' /\ aborted' = aborted /\ master' = master
    BY <1>1, <2>1, SetEvaluatorTypeInv
  <2> QED BY <1>1, <2>2, <2>3, MasterKept DEF Inv
<1>5. CASE \E s \in Shared : SetMasterStructure(s)
  <2>1. PICK s \in Shared : SetMasterStructure(s)
    BY <1>5
  <2>2. MasterInv'
    BY <1>1, <2>1, SetMasterStructureInv
  <2>3. UNCHANGED <<ncpu, calculator, history>>
    BY <2>1 DEF SetMasterStructure
  <2>4. CalculatorsInv' /\ aborted' = aborted
    BY <1>1, <2>3, CalculatorsKept DEF history
  <2> QED BY <2>2, <2>3, <2>4 DEF Inv
<1>6. CASE \E w \in Active : MergeParallelData(w)
  <2>1. PICK w \in Active : MergeParallelData(w)
    BY <1>6
  <2>2. MasterInv'
    BY <1>1, <2>1, MergeParallelDataInv
  <2>3. UNCHANGED <<ncpu, calculator, history>>
    BY <2>1 DEF MergeParallelData
  <2>4. CalculatorsInv' /\ aborted' = aborted
    BY <1>1, <2>3, CalculatorsKept DEF history
  <2> QED BY <2>2, <2>3, <2>4 DEF Inv
<1>7. CASE UNCHANGED vars
  <2>1. UNCHANGED <<ncpu, calculator, history>> /\ master' = master
    BY <1>7 DEF vars
  <2>2. CalculatorsInv' /\ aborted' = aborted
    BY <1>1, <2>1, CalculatorsKept DEF history
  <2> QED BY <1>1, <2>1, <2>2, MasterKept DEF Inv
<1> QED BY <1>2, <1>3, <1>4, <1>5, <1>6, <1>7 DEF Next

LEMMA InvTypeOK ==
  ASSUME BondAssumption, Inv
  PROVE  TypeOK
<1>1. CalculatorsType /\ MasterType /\ \A w \in Cpus : Good(w)
  BY DEF Inv, CalculatorsInv, MasterInv
<1> QED BY <1>1 DEF CalculatorsType, MasterType, Good, Ordered, TypeOK

LEMMA InvListsAllBonds ==
  ASSUME BondAssumption, Inv
  PROVE  ListsAllBonds
<1>1. /\ CalculatorsType /\ MasterInv /\ MasterType
      /\ ncpu \in Nat \ {0} /\ Active = 0..ncpu - 1
      /\ \A w \in Active : w \in Cpus /\ Good(w)
  BY ActiveAre DEF Inv, CalculatorsInv, MasterInv
<1>2. ASSUME ~Parallel, NEW w \in Active, fresh[w], mlast[w] # NoLast, ~thrown[w]
      PROVE  lists[w] = [NoLists EXCEPT !.bonds = AllBonds(mlast[w], config[w])]
  BY <1>1, <1>2 DEF Good, ListsAll, Settled, OnlyBonds
<1>3. ASSUME Parallel, NEW x \in master.from, master.count = ncpu, AllLike(x)
      PROVE  master.lists.bonds = AllBonds(x.structure, x.config)
  <2> DEFINE other(w) == [x EXCEPT !.cpu = w]
             s == x.structure
             c == x.config
  <2>1. /\ x \in Origins /\ s = master.structure /\ x.whole
        /\ master.from = {other(w) : w \in Active}
    BY <1>1, <1>3 DEF MasterType, AllLike
  <2>2. s \in Structures /\ IsLine(s)
    BY <2>1, StructureIsLine DEF Origins
  <2>3. ASSUME NEW w \in Active
        PROVE  other(w).cpu = w /\ other(w).structure = s /\ other(w).config = c
               /\ other(w).whole
    BY <2>1 DEF Origins
  <2> HIDE DEF other, s, c
  <2>4. Similar(master.from)
    BY <2>1, <2>3 DEF Similar
  <2>5. Cardinality(master.from) = master.count
    <3>1. \A w, v \in Active : other(w) = other(v) => w = v
      BY <2>3
    <3> DEFINE g == [w \in Active |-> other(w)]
    <3>2. g \in Bijection(Active, master.from)
      BY <2>1, <3>1 DEF Bijection, Injection, Surjection, IsInjective
    <3>3. IsFiniteSet(Active) /\ Cardinality(Active) = ncpu
      <4>1. 0 \in Int /\ ncpu - 1 \in Int /\ 0 =< ncpu - 1
        BY <1>1
      <4>2. IsFiniteSet(0..ncpu - 1) /\ Cardinality(0..ncpu - 1) = (ncpu - 1) - 0 + 1
        BY <4>1, FS_Interval
      <4> QED BY <1>1, <4>2
    <3> HIDE DEF g
    <3>4. ExistsBijection(Active, master.from)
      BY <3>2 DEF ExistsBijection
    <3>5. Cardinality(Active) = Cardinality(master.from)
      BY <3>3, <3>4, FS_Bijection
    <3> QED BY <1>3, <3>3, <3>5
  <2>6. /\ Strict(master.lists.bonds)
        /\ Elements(master.lists.bonds) = UNION {OfShare(ncpu, y) : y \in master.from}
    BY <1>1, <1>3, <2>4, <2>5 DEF MasterInv
  <2>7. UNION {OfShare(ncpu, y) : y \in master.from}
          = UNION {Elements(ShareList(ncpu, w, s, c)) : w \in 0..ncpu - 1}
    <3>1. \A w \in Active : OfShare(ncpu, other(w)) = Elements(ShareList(ncpu, w, s, c))
      BY <2>3 DEF OfShare
    <3> QED BY <1>1, <2>1, <3>1
  <2>8. UNION {Elements(ShareList(ncpu, w, s, c)) : w \in 0..ncpu - 1} = Elements(AllBonds(s, c))
    BY <1>1, <2>2, AllShares
  <2>9. IsList(AllBonds(s, c)) /\ Strict(AllBonds(s, c))
    BY <2>2, AllBondsIs
  <2>10. IsList(master.lists.bonds)
    BY <1>1, ListsAre DEF MasterType
  <2>11. master.lists.bonds = AllBonds(s, c)
    BY <2>6, <2>7, <2>8, <2>9, <2>10, StrictIsUnique
  <2> QED BY <2>11 DEF s, c
<1> QED BY <1>2, <1>3 DEF ListsAllBonds

-----------------------------------------------------------------------------
(***************************************************************************)
(* Calculators keep the lists that the next update starts from, workers the *)
(* shares that they were dealt, and a master what it has merged of them.   *)
(***************************************************************************)
THEOREM Safe ==
  ASSUME BondAssumption
  PROVE  Spec => []Inv
<1>1. Init => Inv
  BY InitInv
<1>2. Inv /\ [Next]_vars => Inv'
  BY NextInv
<1> QED BY <1>1, <1>2, PTL DEF Spec

(***************************************************************************)
(* Configurations, structures and counts keep their types, and lists that  *)
(* an update or a merge starts from are in order: sorted by finishValue,   *)
(* kept in order by set_difference and by bmerge (BondCalculator.cpp:233). *)
(***************************************************************************)
THEOREM TypesAreRight ==
  ASSUME BondAssumption
  PROVE  Spec => []TypeOK
<1>1. Inv => TypeOK
  BY InvTypeOK
<1> QED BY <1>1, Safe, PTL

(***************************************************************************)
(* The list that the next update would start from holds each bond of the   *)
(* remembered structure once and in order, for structures of any size and  *)
(* after any history; and so does the list of a master that has merged the *)
(* complete shares of any number of workers, in any order                  *)
(* (BondCalculator.cpp:222, 233-252).                                      *)
(***************************************************************************)
THEOREM BondsAreListed ==
  ASSUME BondAssumption
  PROVE  Spec => []ListsAllBonds
<1>1. Inv => ListsAllBonds
  BY InvListsAllBonds
<1> QED BY <1>1, Safe, PTL

(***************************************************************************)
(* finishValue of a calculator that is not parallel never has more bonds   *)
(* to pop than bonds, so its assertion holds, whatever has been evaluated, *)
(* set or thrown before (BondCalculator.cpp:237).                          *)
(***************************************************************************)
THEOREM AssertionHolds ==
  ASSUME BondAssumption
  PROVE  Spec => []PopsWhatItHas
<1>1. Init => PopsWhatItHas
  BY DEF Init, PopsWhatItHas, Active
<1>2. Inv /\ PopsWhatItHas /\ [Next]_vars => PopsWhatItHas'
  <2> SUFFICES ASSUME Inv, PopsWhatItHas, [Next]_vars, ~Parallel', NEW w \in Active'
               PROVE  ~aborted'[w]
    BY DEF PopsWhatItHas
  <2>1. ncpu' = ncpu /\ \A v \in Cpus : aborted'[v] /\ ~aborted[v] => Parallel
    BY NextInv
  <2>2. w \in Cpus /\ w \in Active /\ ~Parallel
    BY <2>1 DEF Active, Parallel
  <2> QED BY <2>1, <2>2 DEF PopsWhatItHas
<1> QED BY <1>1, <1>2, Safe, PTL DEF Spec
=============================================================================
