---------------------------- MODULE PairSum_proofs ----------------------------
(***************************************************************************)
(* Why removing the sites that went and adding those that came gives the   *)
(* complete sum, for structures of any size, with equal atoms or without.  *)
(***************************************************************************)
EXTENDS Shares, FiniteSetTheorems, TLAPS

HasSites(s) == CountSites(s) \in Nat /\ Sites(s) = 1..CountSites(s)

-----------------------------------------------------------------------------
(* Ledgers.                                                                *)

IsLedger(f) ==
  /\ f = [k \in DOMAIN f |-> f[k]]
  /\ \A k \in DOMAIN f : f[k] \in Int \ {0}

LEMMA AmountType ==
  ASSUME NEW f, IsLedger(f), NEW k
  PROVE  Amount(f, k) \in Int
  BY DEF IsLedger, Amount

(* Ledgers with equal amounts are equal. *)
LEMMA LedgerExtensionality ==
  ASSUME NEW f, NEW g, IsLedger(f), IsLedger(g), \A k : Amount(f, k) = Amount(g, k)
  PROVE  f = g
<1>1. \A k : k \in DOMAIN f <=> k \in DOMAIN g
  BY DEF IsLedger, Amount
<1>2. DOMAIN f = DOMAIN g
  BY <1>1
<1>3. \A k \in DOMAIN f : f[k] = g[k]
  BY <1>2 DEF Amount
<1> QED BY <1>2, <1>3 DEF IsLedger

LEMMA CombineAmount ==
  ASSUME NEW f, NEW g, IsLedger(f), IsLedger(g), NEW sign \in {-1, 1}
  PROVE  /\ IsLedger(Combine(f, sign, g))
         /\ \A k : Amount(Combine(f, sign, g), k) = Amount(f, k) + sign * Amount(g, k)
<1> DEFINE sum(k) == Amount(f, k) + sign * Amount(g, k)
           both == DOMAIN f \cup DOMAIN g
<1>1. \A k : sum(k) \in Int
  BY AmountType
<1>2. Combine(f, sign, g) = [k \in {c \in both : sum(c) # 0} |-> sum(k)]
  BY DEF Combine
<1>3. \A k : k \notin both => sum(k) = 0
  BY DEF Amount
<1> HIDE DEF sum, both
<1>4. IsLedger(Combine(f, sign, g))
  BY <1>1, <1>2 DEF IsLedger
<1>5. \A k : Amount(Combine(f, sign, g), k) = sum(k)
  BY <1>1, <1>2, <1>3 DEF Amount
<1> QED BY <1>4, <1>5 DEF sum

-----------------------------------------------------------------------------
(* Counting.                                                               *)

LEMMA DisjointCount ==
  ASSUME NEW A, NEW B, IsFiniteSet(A), IsFiniteSet(B), A \cap B = {}
  PROVE  /\ IsFiniteSet(A \cup B)
         /\ Cardinality(A \cup B) = Cardinality(A) + Cardinality(B)
<1>1. Cardinality(A \cup B) = Cardinality(A) + Cardinality(B) - Cardinality(A \cap B)
  BY FS_Union
<1>2. Cardinality(A \cap B) = 0
  BY FS_EmptySet
<1>3. Cardinality(A) \in Nat /\ Cardinality(B) \in Nat
  BY FS_CardinalityType
<1> QED BY <1>1, <1>2, <1>3, FS_Union

(* Sets whose elements can be matched have equally many. *)
LEMMA MatchedCount ==
  ASSUME NEW S, NEW T, IsFiniteSet(S), NEW f,
         \A x \in S : f[x] \in T,
         \A x, y \in S : f[x] = f[y] => x = y,
         \A y \in T : \E x \in S : f[x] = y
  PROVE  IsFiniteSet(T) /\ Cardinality(S) = Cardinality(T)
<1> DEFINE g == [x \in S |-> f[x]]
<1>1. g \in Bijection(S, T)
  BY DEF Bijection, Injection, Surjection, IsInjective
<1>2. ExistsBijection(S, T)
  BY <1>1 DEF ExistsBijection
<1> QED BY <1>2, FS_Bijection

(* How many of the visits contribute k, weighed by their scales. *)
Weight(s, cached, config, visits, k) ==
  LET hits == {v \in visits : Contribution(s, cached, config, v) = k}
  IN  Cardinality(hits) + Cardinality({v \in hits : Scale(v) = 2})

LEMMA WeightType ==
  ASSUME NEW s, NEW cached, NEW config, NEW V, IsFiniteSet(V), NEW k
  PROVE  /\ Weight(s, cached, config, V, k) \in Nat
         /\ Weight(s, cached, config, V, k) = 0
              <=> \A v \in V : Contribution(s, cached, config, v) # k
<1> DEFINE hits == {v \in V : Contribution(s, cached, config, v) = k}
           twice == {v \in hits : Scale(v) = 2}
<1>1. IsFiniteSet(hits) /\ IsFiniteSet(twice) /\ twice \subseteq hits
  BY FS_Subset
<1>2. hits = {} <=> \A v \in V : Contribution(s, cached, config, v) # k
  OBVIOUS
<1>3. Weight(s, cached, config, V, k) = Cardinality(hits) + Cardinality(twice)
  BY DEF Weight
<1> HIDE DEF hits, twice
<1>4. Cardinality(hits) \in Nat /\ Cardinality(twice) \in Nat
  BY <1>1, FS_CardinalityType
<1>5. (Cardinality(hits) = 0 <=> hits = {}) /\ (Cardinality(twice) = 0 <=> twice = {})
  BY <1>1, FS_EmptySet
<1>6. hits = {} => twice = {}
  BY <1>1
<1> QED BY <1>2, <1>3, <1>4, <1>5, <1>6

LEMMA TallyCount ==
  ASSUME NEW s, NEW cached, NEW config, NEW V, IsFiniteSet(V)
  PROVE  /\ IsLedger(Tally(s, cached, config, V))
         /\ \A k : Amount(Tally(s, cached, config, V), k) = Weight(s, cached, config, V, k)
<1> DEFINE T == Tally(s, cached, config, V)
           K(v) == Contribution(s, cached, config, v)
           keys == {K(v) : v \in V}
           count(k) == Weight(s, cached, config, V, k)
<1>1. T = [k \in keys |-> count(k)]
  BY DEF Tally, Weight
<1>2. \A k : count(k) \in Nat /\ (count(k) = 0 <=> k \notin keys)
  BY WeightType
<1> HIDE DEF T, K, keys, count
<1>3. IsLedger(T)
  BY <1>1, <1>2 DEF IsLedger
<1>4. \A k : Amount(T, k) = count(k)
  BY <1>1, <1>2 DEF Amount
<1> QED BY <1>3, <1>4 DEF T, count

LEMMA WeightOfUnion ==
  ASSUME NEW s, NEW cached, NEW config, NEW V, NEW W, IsFiniteSet(V), IsFiniteSet(W),
         V \cap W = {}, NEW k
  PROVE  Weight(s, cached, config, V \cup W, k)
           = Weight(s, cached, config, V, k) + Weight(s, cached, config, W, k)
<1> DEFINE hits(U) == {v \in U : Contribution(s, cached, config, v) = k}
           twice(U) == {v \in hits(U) : Scale(v) = 2}
<1>1. /\ hits(V \cup W) = hits(V) \cup hits(W) /\ hits(V) \cap hits(W) = {}
      /\ twice(V \cup W) = twice(V) \cup twice(W) /\ twice(V) \cap twice(W) = {}
  OBVIOUS
<1>2. /\ IsFiniteSet(hits(V)) /\ IsFiniteSet(hits(W))
      /\ IsFiniteSet(twice(V)) /\ IsFiniteSet(twice(W))
  BY FS_Subset
<1>3. \A U : Weight(s, cached, config, U, k) = Cardinality(hits(U)) + Cardinality(twice(U))
  BY DEF Weight
<1> HIDE DEF hits, twice
<1>4. /\ Cardinality(hits(V)) \in Nat /\ Cardinality(hits(W)) \in Nat
      /\ Cardinality(twice(V)) \in Nat /\ Cardinality(twice(W)) \in Nat
  BY <1>2, FS_CardinalityType
<1>5. /\ Cardinality(hits(V \cup W)) = Cardinality(hits(V)) + Cardinality(hits(W))
      /\ Cardinality(twice(V \cup W)) = Cardinality(twice(V)) + Cardinality(twice(W))
  BY <1>1, <1>2, DisjointCount
<1> QED BY <1>3, <1>4, <1>5

(* Visits weigh the same as those they are matched with. *)
LEMMA WeightOfMatch ==
  ASSUME NEW s, NEW t, NEW cached, NEW other, NEW config, NEW V, NEW W, IsFiniteSet(V), NEW f,
         \A v \in V : f[v] \in W,
         \A v, u \in V : f[v] = f[u] => v = u,
         \A w \in W : \E v \in V : f[v] = w,
         \A v \in V : /\ Contribution(t, other, config, f[v]) = Contribution(s, cached, config, v)
                      /\ Scale(f[v]) = Scale(v),
         NEW k
  PROVE  Weight(s, cached, config, V, k) = Weight(t, other, config, W, k)
<1> DEFINE KS(v) == Contribution(s, cached, config, v)
           KT(v) == Contribution(t, other, config, v)
           left == {v \in V : KS(v) = k}
           came == {v \in W : KT(v) = k}
           twiceleft == {v \in left : Scale(v) = 2}
           twicecame == {v \in came : Scale(v) = 2}
<1>1. /\ Weight(s, cached, config, V, k) = Cardinality(left) + Cardinality(twiceleft)
      /\ Weight(t, other, config, W, k) = Cardinality(came) + Cardinality(twicecame)
  BY DEF Weight
<1>2. IsFiniteSet(left) /\ IsFiniteSet(twiceleft)
  BY FS_Subset
<1>3. \A v \in V : KT(f[v]) = KS(v)
  OBVIOUS
<1> HIDE DEF KS, KT
<1>4. /\ \A v \in left : f[v] \in came
      /\ \A v, u \in left : f[v] = f[u] => v = u
      /\ \A w \in came : \E v \in left : f[v] = w
  BY <1>3
<1>5. /\ \A v \in twiceleft : f[v] \in twicecame
      /\ \A v, u \in twiceleft : f[v] = f[u] => v = u
      /\ \A w \in twicecame : \E v \in twiceleft : f[v] = w
  BY <1>3
<1> HIDE DEF left, came, twiceleft, twicecame
<1>6. Cardinality(left) = Cardinality(came)
  BY <1>2, <1>4, MatchedCount
<1>7. Cardinality(twiceleft) = Cardinality(twicecame)
  BY <1>2, <1>5, MatchedCount
<1> QED BY <1>1, <1>6, <1>7

LEMMA SeenIsFinite ==
  ASSUME NEW s, HasSites(s), NEW shown, NEW mask,
         NEW V, V \subseteq Sites(s) \X Sites(s)
  PROVE  IsFiniteSet(Seen(s, shown, mask, V)) /\ IsFiniteSet(V)
<1>1. IsFiniteSet(Sites(s))
  BY FS_Interval DEF HasSites
<1>2. IsFiniteSet(Sites(s) \X Sites(s))
  BY <1>1, FS_Product
<1>3. Seen(s, shown, mask, V) \subseteq Sites(s) \X Sites(s)
  BY DEF Seen
<1> QED BY <1>2, <1>3, FS_Subset

-----------------------------------------------------------------------------
(* The loops visit each pair once, in one or the other direction.          *)

Flip(v) == <<v[2], v[1]>>

Touches(v, set) == v[1] \in set \/ v[2] \in set

AllPairs(s) == Sites(s) \X Sites(s)

(* No pair is visited from both its ends unless the sum is full. *)
OneDirection(s, visits) ==
  /\ visits \subseteq AllPairs(s)
  /\ ~FullSum => \A v \in visits : Flip(v) \in visits => v[1] = v[2]

(* The visits are those of the pairs with an end in a set of sites. *)
Covers(s, set, visits) ==
  /\ OneDirection(s, visits)
  /\ \A v \in visits : Touches(v, set)
  /\ \A v \in AllPairs(s) :
       Touches(v, set) => v \in visits \/ (~FullSum /\ Flip(v) \in visits)

LEMMA LoopsCover ==
  ASSUME NEW s, HasSites(s), NEW set \in SUBSET Sites(s)
  PROVE  /\ OneDirection(s, AllVisits(s))
         /\ Covers(s, set, PopVisits(s, set))
         /\ Covers(s, set, AddVisits(s, set))
<1>1. Sites(s) \subseteq Int
  BY DEF HasSites
<1> USE FlagsAssumption
<1>2. OneDirection(s, AllVisits(s))
  BY <1>1 DEF OneDirection, AllVisits, AllPairs, Flip
<1>3. Covers(s, set, PopVisits(s, set))
  BY <1>1 DEF Covers, OneDirection, PopVisits, AllPairs, Flip, Touches
<1>4. Covers(s, set, AddVisits(s, set))
  BY <1>1 DEF Covers, OneDirection, AddVisits, AllPairs, Flip, Touches
<1> QED BY <1>2, <1>3, <1>4

(* With the half sum the two directions of a pair contribute the same. *)
LEMMA FlipIsSame ==
  ASSUME ~FullSum, NEW s, NEW cached, NEW config, NEW shown, NEW mask,
         NEW v \in AllPairs(s)
  PROVE  /\ Contribution(s, cached, config, Flip(v)) = Contribution(s, cached, config, v)
         /\ Scale(Flip(v)) = Scale(v)
         /\ Bonded(s, Flip(v)) <=> Bonded(s, v)
         /\ Hidden(mask, shown, Flip(v)) <=> Hidden(mask, shown, v)
         /\ Flip(v) \in AllPairs(s)
         /\ \A set : Touches(Flip(v), set) <=> Touches(v, set)
<1>1. Flip(v)[1] = v[2] /\ Flip(v)[2] = v[1]
  BY DEF Flip
<1>2. {v[2], v[1]} = {v[1], v[2]}
  OBVIOUS
<1>3. \A a, b : {a, b} = {b, a}
  OBVIOUS
<1>4. Contribution(s, cached, config, Flip(v)) = Contribution(s, cached, config, v)
  BY <1>1, <1>3 DEF Contribution
<1>5. Scale(Flip(v)) = Scale(v)
  BY <1>1 DEF Scale
<1>6. Bonded(s, Flip(v)) <=> Bonded(s, v)
  BY <1>1 DEF Bonded
<1>7. Hidden(mask, shown, Flip(v)) <=> Hidden(mask, shown, v)
  BY <1>1, <1>2, <1>3 DEF Hidden
<1>8. Flip(v) \in AllPairs(s) /\ \A set : Touches(Flip(v), set) <=> Touches(v, set)
  BY <1>1 DEF AllPairs, Touches, Flip
<1> QED BY <1>4, <1>5, <1>6, <1>7, <1>8

(* Every pair is in a complete loop, one way round or both. *)
LEMMA AnyWay ==
  ASSUME NEW s, HasSites(s), NEW v \in AllPairs(s)
  PROVE  v \in AllVisits(s) \/ (~FullSum /\ Flip(v) \in AllVisits(s))
<1>1. v[1] \in Int /\ v[2] \in Int
  BY DEF AllPairs, HasSites
<1> QED BY <1>1, FlagsAssumption DEF AllVisits, AllPairs, Flip

(* Loops that come to the same pairs, whichever way round, sum up the same. *)
LEMMA SamePairs ==
  ASSUME NEW s, HasSites(s), NEW cached, NEW config, NEW shown, NEW mask, NEW V, NEW W,
         OneDirection(s, V), OneDirection(s, W),
         \A v \in V : v \in W \/ (~FullSum /\ Flip(v) \in W),
         \A w \in W : w \in V \/ (~FullSum /\ Flip(w) \in V),
         NEW k
  PROVE  Weight(s, cached, config, Seen(s, shown, mask, V), k)
           = Weight(s, cached, config, Seen(s, shown, mask, W), k)
<1> DEFINE K(v) == Contribution(s, cached, config, v)
           shows(v) == Bonded(s, v) /\ ~Hidden(mask, shown, v)
           from == Seen(s, shown, mask, V)
           to == Seen(s, shown, mask, W)
           f == [v \in from |-> IF v \in W THEN v ELSE Flip(v)]
<1>1. /\ \A v : v \in from <=> v \in V /\ shows(v)
      /\ \A v : v \in to <=> v \in W /\ shows(v)
  BY DEF Seen
<1>2. \A v \in AllPairs(s) : Flip(Flip(v)) = v /\ (v[1] = v[2] => Flip(v) = v)
  BY DEF AllPairs, Flip
<1>3. ~FullSum => \A v \in AllPairs(s) :
        K(Flip(v)) = K(v) /\ Scale(Flip(v)) = Scale(v) /\ (shows(Flip(v)) <=> shows(v))
  BY FlipIsSame
<1>4. /\ \A v \in V : v \in AllPairs(s)
      /\ \A w \in W : w \in AllPairs(s)
      /\ ~FullSum => /\ \A v \in V : Flip(v) \in V => Flip(v) = v
                     /\ \A w \in W : Flip(w) \in W => Flip(w) = w
  BY <1>2 DEF OneDirection
<1>5. IsFiniteSet(from)
  BY SeenIsFinite DEF OneDirection, AllPairs
<1>6. \A v \in from : f[v] = IF v \in W THEN v ELSE Flip(v)
  OBVIOUS
<1> HIDE DEF K, shows, from, to, f
<1>7. \A v \in from : f[v] \in to /\ K(f[v]) = K(v) /\ Scale(f[v]) = Scale(v)
  BY <1>1, <1>3, <1>4, <1>6
<1>8. \A v, u \in from : f[v] = f[u] => v = u
  <2> SUFFICES ASSUME NEW v \in from, NEW u \in from, f[v] = f[u]
               PROVE  v = u
    OBVIOUS
  <2>1. v \in V /\ u \in V /\ v \in AllPairs(s) /\ u \in AllPairs(s)
    BY <1>1, <1>4
  <2>2. CASE v \in W /\ u \in W
    BY <1>6, <2>2
  <2>3. CASE v \notin W /\ u \notin W
    BY <1>2, <1>6, <2>1, <2>3
  <2>4. CASE v \in W /\ u \notin W
    <3>1. v = Flip(u) /\ ~FullSum
      BY <1>6, <2>1, <2>4
    <3> QED BY <1>4, <2>1, <3>1
  <2>5. CASE v \notin W /\ u \in W
    <3>1. u = Flip(v) /\ ~FullSum
      BY <1>6, <2>1, <2>5
    <3> QED BY <1>4, <2>1, <3>1
  <2> QED BY <2>2, <2>3, <2>4, <2>5
<1>9. \A w \in to : \E v \in from : f[v] = w
  <2> SUFFICES ASSUME NEW w \in to
               PROVE  \E v \in from : f[v] = w
    OBVIOUS
  <2>1. w \in W /\ w \in AllPairs(s) /\ shows(w)
    BY <1>1, <1>4
  <2>2. CASE w \in V
    BY <1>1, <1>6, <2>1, <2>2
  <2>3. CASE ~FullSum /\ Flip(w) \in V
    <3>1. Flip(w) \in from /\ Flip(Flip(w)) = w
      BY <1>1, <1>2, <1>3, <2>1, <2>3
    <3>2. Flip(w) \in W => Flip(w) = w
      BY <1>4, <2>1, <2>3
    <3> QED BY <1>6, <3>1, <3>2
  <2> QED BY <2>1, <2>2, <2>3
<1>10. \A v \in from : /\ Contribution(s, cached, config, f[v]) = Contribution(s, cached, config, v)
                       /\ Scale(f[v]) = Scale(v)
  BY <1>7 DEF K
<1>11. Weight(s, cached, config, from, k) = Weight(s, cached, config, to, k)
  <2>1. \A v \in from : f[v] \in to
    BY <1>7
  <2> QED BY <1>5, <1>8, <1>9, <1>10, <2>1, WeightOfMatch
<1> QED BY <1>11 DEF from, to

-----------------------------------------------------------------------------
(* A complete sum is what touches a set of sites and the rest.             *)

Kept(s, set) == {v \in AllVisits(s) : ~Touches(v, set)}

LEMMA Remainder ==
  ASSUME NEW s, HasSites(s), NEW set \in SUBSET Sites(s), NEW W, Covers(s, set, W),
         NEW cached, NEW config, NEW shown, NEW mask
  PROVE  LET sum(V) == Tally(s, cached, config, Seen(s, shown, mask, V))
         IN  /\ IsLedger(sum(AllVisits(s))) /\ IsLedger(sum(W)) /\ IsLedger(sum(Kept(s, set)))
             /\ \A k : Amount(sum(AllVisits(s)), k)
                         = Amount(sum(W), k) + Amount(sum(Kept(s, set)), k)
<1> DEFINE seen(V) == Seen(s, shown, mask, V)
           sum(V) == Tally(s, cached, config, seen(V))
           weight(V, k) == Weight(s, cached, config, seen(V), k)
           all == AllVisits(s)
           rest == Kept(s, set)
           near == {v \in all : Touches(v, set)}
<1>1. OneDirection(s, all) /\ OneDirection(s, W)
  BY LoopsCover DEF Covers
<1>2. OneDirection(s, near) /\ OneDirection(s, rest)
  BY <1>1 DEF OneDirection, Kept
<1>3. \A V : OneDirection(s, V) =>
        /\ IsFiniteSet(seen(V)) /\ IsLedger(sum(V))
        /\ \A k : Amount(sum(V), k) = weight(V, k)
  BY SeenIsFinite, TallyCount DEF OneDirection, AllPairs
<1>4. seen(all) = seen(near) \cup seen(rest) /\ seen(near) \cap seen(rest) = {}
  BY DEF Seen, Kept
<1>5. \A k : weight(all, k) = weight(near, k) + weight(rest, k)
  BY <1>2, <1>3, <1>4, WeightOfUnion
<1>6. \A k : weight(near, k) = weight(W, k)
  <2>1. \A v \in near : v \in W \/ (~FullSum /\ Flip(v) \in W)
    BY <1>1 DEF Covers, OneDirection
  <2>2. \A w \in W : w \in near \/ (~FullSum /\ Flip(w) \in near)
    <3> SUFFICES ASSUME NEW w \in W
                 PROVE  w \in near \/ (~FullSum /\ Flip(w) \in near)
      OBVIOUS
    <3>1. w \in AllPairs(s) /\ Touches(w, set)
      BY DEF Covers, OneDirection
    <3>2. w \in all \/ (~FullSum /\ Flip(w) \in all)
      BY <3>1, AnyWay
    <3>3. Touches(Flip(w), set)
      BY <3>1 DEF Touches, Flip
    <3> QED BY <3>1, <3>2, <3>3
  <2> HIDE DEF near
  <2> QED BY <1>1, <1>2, <2>1, <2>2, SamePairs
<1> HIDE DEF seen, sum, weight, all, rest, near
<1> QED BY <1>1, <1>2, <1>3, <1>5, <1>6 DEF sum, seen, all, rest

-----------------------------------------------------------------------------
(* What a difference says about the sites it leaves alone.                 *)

(***************************************************************************)
(* The sites of s but those in pop can be matched one to one with those of *)
(* t but those in add so that each has its atom, at the same site where    *)
(* that matters.                                                           *)
(***************************************************************************)
Matches(match, s, pop, t, add, fixed) ==
  /\ \A i \in Sites(s) \ pop : /\ match[i] \in Sites(t) \ add
                               /\ t.atoms[match[i]] = s.atoms[i]
                               /\ fixed => match[i] = i
  /\ \A i, j \in Sites(s) \ pop : match[i] = match[j] => i = j
  /\ \A j \in Sites(t) \ add : \E i \in Sites(s) \ pop : match[i] = j

(* The sites that hold an atom are its first, second, ... occurrence. *)
LEMMA OccurrencesCount ==
  ASSUME NEW t, HasSites(t), NEW a
  PROVE  LET n == Cardinality(Holding(t, a))
         IN  /\ n \in Nat
             /\ \A i \in Holding(t, a) : Occurrence(t, i) \in 1..n
             /\ \A i, j \in Holding(t, a) : Occurrence(t, i) = Occurrence(t, j) => i = j
             /\ \A k \in 1..n : \E i \in Holding(t, a) : Occurrence(t, i) = k
<1> DEFINE H == Holding(t, a)
           upto(i) == {j \in 1..i : t.atoms[j] = t.atoms[i]}
           n == Cardinality(H)
           f == [i \in H |-> Occurrence(t, i)]
<1>1. /\ CountSites(t) \in Nat /\ Sites(t) = 1..CountSites(t)
      /\ H \subseteq Sites(t) /\ \A i \in H : t.atoms[i] = a
  BY DEF HasSites, Holding
<1>2. IsFiniteSet(H) /\ n \in Nat
  <2>1. IsFiniteSet(Sites(t))
    BY <1>1, FS_Interval
  <2>2. IsFiniteSet(H)
    BY <1>1, <2>1, FS_Subset
  <2> QED BY <2>2, FS_CardinalityType
<1>3. ASSUME NEW i \in H
      PROVE  upto(i) \subseteq H /\ i \in upto(i) /\ Occurrence(t, i) = Cardinality(upto(i))
  BY <1>1 DEF Holding, Occurrence
<1>4. ASSUME NEW i \in H, NEW j \in H, i < j
      PROVE  upto(i) \subseteq upto(j) /\ j \notin upto(i)
  <2>1. i \in Nat /\ j \in Nat /\ t.atoms[i] = a /\ t.atoms[j] = a
    BY <1>1
  <2>2. 1..i \subseteq 1..j /\ j \notin 1..i
    BY <1>4, <2>1
  <2> QED BY <2>1, <2>2
<1> HIDE DEF H, upto, n
<1>5. \A i \in H : IsFiniteSet(upto(i)) /\ Occurrence(t, i) \in 1..n
  <2> SUFFICES ASSUME NEW i \in H
               PROVE  IsFiniteSet(upto(i)) /\ Occurrence(t, i) \in 1..n
    OBVIOUS
  <2>1. IsFiniteSet(upto(i)) /\ Cardinality(upto(i)) =< n
    BY <1>2, <1>3, FS_Subset DEF n
  <2>2. Cardinality(upto(i)) \in Nat /\ Cardinality(upto(i)) # 0
    BY <1>3, <2>1, FS_CardinalityType, FS_EmptySet
  <2> QED BY <1>2, <1>3, <2>1, <2>2
<1>6. ASSUME NEW i \in H, NEW j \in H, i < j PROVE Occurrence(t, i) # Occurrence(t, j)
  <2>1. Cardinality(upto(j)) = Cardinality(upto(i)) => upto(j) = upto(i)
    BY <1>4, <1>5, <1>6, FS_Subset
  <2> QED BY <1>3, <1>4, <1>6, <2>1
<1>7. \A i, j \in H : Occurrence(t, i) = Occurrence(t, j) => i = j
  <2> SUFFICES ASSUME NEW i \in H, NEW j \in H, Occurrence(t, i) = Occurrence(t, j)
               PROVE  i = j
    OBVIOUS
  <2>1. i \in Int /\ j \in Int
    BY <1>1
  <2> QED BY <1>6, <2>1
<1>8. f \in Injection(H, 1..n)
  BY <1>5, <1>7 DEF Injection, IsInjective
<1>9. IsFiniteSet(1..n) /\ Cardinality(1..n) = n
  BY <1>2, FS_Interval
<1>10. f \in Surjection(H, 1..n)
  BY <1>8, <1>9, FS_Injection DEF n
<1>11. \A k \in 1..n : \E i \in H : Occurrence(t, i) = k
  BY <1>10 DEF Surjection
<1> QED BY <1>2, <1>5, <1>7, <1>11 DEF n, H

(* Equal atoms are matched in the order of their sites. *)
LEMMA SortedMatch ==
  ASSUME NEW s, HasSites(s), NEW t, HasSites(t)
  PROVE  \E match : Matches(match, s, Surplus(s, t), t, Surplus(t, s), FALSE)
<1> DEFINE left == Sites(s) \ Surplus(s, t)
           came == Sites(t) \ Surplus(t, s)
           like(i, j) == t.atoms[j] = s.atoms[i] /\ Occurrence(t, j) = Occurrence(s, i)
           match == [i \in left |-> CHOOSE j \in came : like(i, j)]
<1>1. ASSUME NEW x, HasSites(x), NEW y, HasSites(y), NEW i \in Sites(x) \ Surplus(x, y)
      PROVE  \E j \in Sites(y) \ Surplus(y, x) :
               y.atoms[j] = x.atoms[i] /\ Occurrence(y, j) = Occurrence(x, i)
  <2> DEFINE a == x.atoms[i]
             m == Cardinality(Holding(x, a))
             n == Cardinality(Holding(y, a))
  <2>1. i \in Holding(x, a)
    BY <1>1 DEF Holding
  <2>2. m \in Nat /\ n \in Nat /\ Occurrence(x, i) \in 1..m
    BY <1>1, <2>1, OccurrencesCount
  <2>3. Occurrence(x, i) =< n
    BY <1>1, <2>2 DEF Surplus
  <2>4. PICK j \in Holding(y, a) : Occurrence(y, j) = Occurrence(x, i)
    <3>1. Occurrence(x, i) \in 1..n
      BY <2>2, <2>3
    <3> HIDE DEF a
    <3> QED BY <1>1, <3>1, OccurrencesCount
  <2>5. j \in Sites(y) /\ y.atoms[j] = a
    BY <2>4 DEF Holding
  <2>6. j \notin Surplus(y, x)
    BY <2>2, <2>4, <2>5 DEF Surplus
  <2> QED BY <2>4, <2>5, <2>6
<1>2. \A i \in left : match[i] \in came /\ like(i, match[i])
  <2> SUFFICES ASSUME NEW i \in left
               PROVE  match[i] \in came /\ like(i, match[i])
    OBVIOUS
  <2>1. \E j \in came : like(i, j)
    BY <1>1
  <2> HIDE DEF came, like
  <2> QED BY <2>1
<1>3. \A i, k \in Sites(s) :
        s.atoms[i] = s.atoms[k] /\ Occurrence(s, i) = Occurrence(s, k) => i = k
  <2> SUFFICES ASSUME NEW i \in Sites(s), NEW k \in Sites(s), s.atoms[i] = s.atoms[k],
                      Occurrence(s, i) = Occurrence(s, k)
               PROVE  i = k
    OBVIOUS
  <2>1. i \in Holding(s, s.atoms[i]) /\ k \in Holding(s, s.atoms[i])
    BY DEF Holding
  <2> QED BY <2>1, OccurrencesCount
<1>4. \A j, k \in Sites(t) :
        t.atoms[j] = t.atoms[k] /\ Occurrence(t, j) = Occurrence(t, k) => j = k
  <2> SUFFICES ASSUME NEW i \in Sites(t), NEW k \in Sites(t), t.atoms[i] = t.atoms[k],
                      Occurrence(t, i) = Occurrence(t, k)
               PROVE  i = k
    OBVIOUS
  <2>1. i \in Holding(t, t.atoms[i]) /\ k \in Holding(t, t.atoms[i])
    BY DEF Holding
  <2> QED BY <2>1, OccurrencesCount
<1>5. \A j \in came : \E i \in left : like(i, j)
  <2> SUFFICES ASSUME NEW j \in came
               PROVE  \E i \in left : like(i, j)
    OBVIOUS
  <2>1. \E i \in left : s.atoms[i] = t.atoms[j] /\ Occurrence(s, i) = Occurrence(t, j)
    BY <1>1
  <2> QED BY <2>1
<1>6. left \subseteq Sites(s) /\ came \subseteq Sites(t)
  OBVIOUS
<1> HIDE DEF left, came, match
<1>7. \A i, k \in left : match[i] = match[k] => i = k
  BY <1>2, <1>3, <1>6
<1>8. \A j \in came : \E i \in left : match[i] = j
  BY <1>2, <1>4, <1>5, <1>6
<1>9. Matches(match, s, Surplus(s, t), t, Surplus(t, s), FALSE)
  BY <1>2, <1>7, <1>8 DEF Matches, left, came
<1> QED BY <1>9

LEMMA DiffMatches ==
  ASSUME NEW s, HasSites(s), NEW t, HasSites(t), NEW d, d = Diff(s, t), d.method # "NONE"
  PROVE  /\ d.pop \in SUBSET Sites(s) /\ d.add \in SUBSET Sites(t)
         /\ \E match : Matches(match, s, d.pop, t, d.add, d.method = "SIDEBYSIDE")
<1>1. Comparable(s, t)
  BY DEF Diff
<1>2. CASE SideBySide(s, t)
  <2>1. d = [method |-> "SIDEBYSIDE", pop |-> Mismatched(s, t), add |-> Mismatched(t, s)]
    BY <1>1, <1>2 DEF Diff
  <2> DEFINE match == [i \in Sites(s) |-> i]
  <2>2. Matches(match, s, d.pop, t, d.add, d.method = "SIDEBYSIDE")
    BY <2>1 DEF Mismatched, Matches
  <2> QED BY <2>1, <2>2 DEF Mismatched
<1>3. CASE ~SideBySide(s, t)
  <2>1. d = [method |-> "SORTED", pop |-> Surplus(s, t), add |-> Surplus(t, s)]
    BY <1>1, <1>3 DEF Diff
  <2>2. (d.method = "SIDEBYSIDE") = FALSE /\ d.pop = Surplus(s, t) /\ d.add = Surplus(t, s)
    BY <2>1
  <2>3. d.pop \in SUBSET Sites(s) /\ d.add \in SUBSET Sites(t)
    BY <2>1 DEF Surplus
  <2> QED BY <2>2, <2>3, SortedMatch
<1> QED BY <1>2, <1>3

(* A difference without comparison pops every site, which is too many. *)
LEMMA FastDiffCompares ==
  ASSUME NEW s, HasSites(s), NEW t,
         AllowsFastUpdate(CountSites(s), Cardinality(Diff(s, t).pop))
  PROVE  Diff(s, t).method # "NONE"
<1> SUFFICES ASSUME Diff(s, t).method = "NONE" PROVE FALSE
  OBVIOUS
<1>1. ~Comparable(s, t)
  BY DEF Diff
<1>2. Diff(s, t).pop = 1..CountSites(s)
  BY <1>1 DEF Diff, HasSites
<1>3. Cardinality(1..CountSites(s)) = CountSites(s) /\ CountSites(s) \in Nat
  BY FS_Interval DEF HasSites
<1> DEFINE n == CountSites(s)
<1>4. 2 * (n - n) * (n - n) > n * n
  BY <1>2, <1>3 DEF AllowsFastUpdate
<1>5. n * n >= 0
  BY <1>3
<1> QED BY <1>3, <1>4, <1>5

-----------------------------------------------------------------------------
(* The kept pairs of both structures contribute the same.                  *)

(***************************************************************************)
(* Pairs of sites that keep their atoms turn up in the other structure with *)
(* the same contribution and scale, seen or hidden there as here, and      *)
(* nothing else does.                                                      *)
(***************************************************************************)
LEMMA KeptPairsAgree ==
  ASSUME NEW s, HasSites(s), NEW pop \in SUBSET Sites(s),
         NEW t, HasSites(t), NEW add \in SUBSET Sites(t), Frame(s) = Frame(t),
         NEW fixed \in BOOLEAN, NEW match, Matches(match, s, pop, t, add, fixed),
         NEW mask, mask.pairs = {} \/ fixed, FixedSites => fixed,
         NEW config, NEW k
  PROVE  Weight(s, SiteData(s), config, Seen(s, s, mask, Kept(s, pop)), k)
           = Weight(t, SiteData(t), config, Seen(t, t, mask, Kept(t, add)), k)
<1> DEFINE left == Kept(s, pop)
           came == Kept(t, add)
           moved(v) == <<match[v[1]], match[v[2]]>>
           image == {moved(v) : v \in left}
           KS(v) == Contribution(s, SiteData(s), config, v)
           KT(v) == Contribution(t, SiteData(t), config, v)
           f == [v \in Seen(s, s, mask, left) |-> moved(v)]
<1>1. /\ \A i \in Sites(s) \ pop :
           match[i] \in Sites(t) \ add /\ t.atoms[match[i]] = s.atoms[i]
      /\ \A i, j \in Sites(s) \ pop : match[i] = match[j] => i = j
      /\ \A j \in Sites(t) \ add : \E i \in Sites(s) \ pop : match[i] = j
  BY DEF Matches
<1>2. /\ OneDirection(s, AllVisits(s)) /\ OneDirection(s, left)
      /\ OneDirection(t, AllVisits(t)) /\ OneDirection(t, came)
  BY LoopsCover DEF OneDirection, Kept
<1>3. \A v \in left : /\ v = <<v[1], v[2]>> /\ v \in AllPairs(s)
                      /\ v[1] \in Sites(s) \ pop /\ v[2] \in Sites(s) \ pop
  BY <1>2 DEF OneDirection, AllPairs, Kept, Touches
<1>4. \A v, u \in left : moved(v) = moved(u) => v = u
  <2> SUFFICES ASSUME NEW v \in left, NEW u \in left, moved(v) = moved(u)
               PROVE  v = u
    OBVIOUS
  <2>1. match[v[1]] = match[u[1]] /\ match[v[2]] = match[u[2]]
    OBVIOUS
  <2>2. v[1] = u[1] /\ v[2] = u[2]
    BY <1>1, <1>3, <2>1
  <2> QED BY <1>3, <2>2
<1>5. ASSUME NEW v \in left
      PROVE  /\ KT(moved(v)) = KS(v) /\ Scale(moved(v)) = Scale(v)
             /\ Bonded(t, moved(v)) <=> Bonded(s, v)
             /\ Hidden(mask, t, moved(v)) <=> Hidden(mask, s, v)
             /\ moved(v) \in AllPairs(t) /\ ~Touches(moved(v), add)
  <2> DEFINE w == moved(v)
  <2>1. w = <<match[v[1]], match[v[2]]>> /\ w[1] = match[v[1]] /\ w[2] = match[v[2]]
    OBVIOUS
  <2> HIDE DEF w
  <2>2. /\ w[1] \in Sites(t) \ add /\ t.atoms[w[1]] = s.atoms[v[1]] /\ (fixed => w[1] = v[1])
        /\ w[2] \in Sites(t) \ add /\ t.atoms[w[2]] = s.atoms[v[2]] /\ (fixed => w[2] = v[2])
        /\ w[1] = w[2] <=> v[1] = v[2]
        /\ v[1] \in Sites(s) /\ v[2] \in Sites(s)
    <3>1. v[1] \in Sites(s) \ pop /\ v[2] \in Sites(s) \ pop
      BY <1>3
    <3>2. w[1] = w[2] <=> v[1] = v[2]
      BY <1>1, <2>1, <3>1
    <3>3. \A i \in Sites(s) \ pop : fixed => match[i] = i
      BY DEF Matches
    <3>4. (fixed => w[1] = v[1]) /\ (fixed => w[2] = v[2])
      BY <2>1, <3>1, <3>3
    <3>5. /\ w[1] \in Sites(t) \ add /\ t.atoms[w[1]] = s.atoms[v[1]]
          /\ w[2] \in Sites(t) \ add /\ t.atoms[w[2]] = s.atoms[v[2]]
      BY <1>1, <2>1, <3>1
    <3> QED BY <3>1, <3>2, <3>4, <3>5
  <2>3. w \in AllPairs(t) /\ ~Touches(w, add)
    BY <2>1, <2>2 DEF AllPairs, Touches
  <2>4. Scale(w) = Scale(v)
    BY <2>2 DEF Scale
  <2>5. /\ Site(t, SiteData(t), w[1]) = Site(s, SiteData(s), v[1])
        /\ Site(t, SiteData(t), w[2]) = Site(s, SiteData(s), v[2])
    BY <2>2 DEF Site, SiteData
  <2>6. KT(w) = KS(v)
    BY <2>5 DEF Contribution
  <2>7. Bonded(t, w) <=> Bonded(s, v)
    BY <2>2 DEF Bonded
  <2>8. Hidden(mask, t, w) <=> Hidden(mask, s, v)
    BY <2>2 DEF Hidden
  <2> QED BY <2>3, <2>4, <2>6, <2>7, <2>8 DEF w
<1>6. OneDirection(t, image)
  <2>1. image \subseteq AllPairs(t)
    BY <1>5
  <2>2. ASSUME ~FullSum, NEW w \in image, Flip(w) \in image PROVE w[1] = w[2]
    <3>1. PICK v \in left : w = moved(v)
      OBVIOUS
    <3>2. PICK u \in left : Flip(w) = moved(u)
      BY <2>2
    <3>3. match[u[1]] = match[v[2]] /\ match[u[2]] = match[v[1]]
      BY <3>1, <3>2 DEF Flip
    <3>4. u = Flip(v)
      BY <1>1, <1>3, <3>3 DEF Flip
    <3>5. v[1] = v[2]
      BY <1>2, <2>2, <3>4 DEF OneDirection
    <3> QED BY <3>1, <3>5
  <2> QED BY <2>1, <2>2 DEF OneDirection
<1>7. \A w \in image : w \in came \/ (~FullSum /\ Flip(w) \in came)
  <2> SUFFICES ASSUME NEW w \in image
               PROVE  w \in came \/ (~FullSum /\ Flip(w) \in came)
    OBVIOUS
  <2>1. w \in AllPairs(t) /\ ~Touches(w, add) /\ ~Touches(Flip(w), add)
    BY <1>5 DEF Touches, Flip
  <2>2. w \in AllVisits(t) \/ (~FullSum /\ Flip(w) \in AllVisits(t))
    BY <2>1, AnyWay
  <2> QED BY <2>1, <2>2 DEF Kept
<1>8. \A w \in came : w \in image \/ (~FullSum /\ Flip(w) \in image)
  <2> SUFFICES ASSUME NEW w \in came
               PROVE  w \in image \/ (~FullSum /\ Flip(w) \in image)
    OBVIOUS
  <2>1. w = <<w[1], w[2]>> /\ w[1] \in Sites(t) \ add /\ w[2] \in Sites(t) \ add
    BY <1>2 DEF OneDirection, AllPairs, Kept, Touches
  <2>2. PICK i \in Sites(s) \ pop : match[i] = w[1]
    BY <1>1, <2>1
  <2>3. PICK j \in Sites(s) \ pop : match[j] = w[2]
    BY <1>1, <2>1
  <2>4. <<i, j>> \in AllPairs(s) /\ ~Touches(<<i, j>>, pop) /\ ~Touches(<<j, i>>, pop)
    BY DEF AllPairs, Touches
  <2>5. Flip(<<i, j>>) = <<j, i>>
    BY DEF Flip
  <2>6. <<i, j>> \in left \/ (~FullSum /\ <<j, i>> \in left)
    BY <2>4, <2>5, AnyWay DEF Kept
  <2>7. moved(<<i, j>>) = w /\ moved(<<j, i>>) = Flip(w)
    BY <2>1, <2>2, <2>3 DEF Flip
  <2> QED BY <2>6, <2>7
<1>9. Weight(t, SiteData(t), config, Seen(t, t, mask, image), k)
        = Weight(t, SiteData(t), config, Seen(t, t, mask, came), k)
  <2> HIDE DEF image, came
  <2> QED BY <1>2, <1>6, <1>7, <1>8, SamePairs
<1>10. Weight(s, SiteData(s), config, Seen(s, s, mask, left), k)
         = Weight(t, SiteData(t), config, Seen(t, t, mask, image), k)
  <2> DEFINE S == Seen(s, s, mask, left)
             T == Seen(t, t, mask, image)
  <2>1. IsFiniteSet(S)
    BY <1>2, SeenIsFinite DEF OneDirection, AllPairs
  <2>2. /\ \A v : v \in S <=> v \in left /\ Bonded(s, v) /\ ~Hidden(mask, s, v)
        /\ \A w : w \in T <=> w \in image /\ Bonded(t, w) /\ ~Hidden(mask, t, w)
    BY DEF Seen
  <2>3. \A v \in S : f[v] = moved(v) /\ v \in left
    BY <2>2
  <2>4. \A v \in left : moved(v) \in image
    OBVIOUS
  <2>5. \A w \in image : \E v \in left : w = moved(v)
    OBVIOUS
  <2> HIDE DEF S, T, left, image, moved, KS, KT, f
  <2>6. \A v \in S : f[v] \in T /\ KT(f[v]) = KS(v) /\ Scale(f[v]) = Scale(v)
    BY <1>5, <2>2, <2>3, <2>4
  <2>7. \A v, u \in S : f[v] = f[u] => v = u
    BY <1>4, <2>3
  <2>8. \A w \in T : \E v \in S : f[v] = w
    <3> SUFFICES ASSUME NEW w \in T
                 PROVE  \E v \in S : f[v] = w
      OBVIOUS
    <3>1. PICK v \in left : w = moved(v)
      BY <2>2, <2>5
    <3>2. v \in S
      BY <1>5, <2>2, <3>1
    <3> QED BY <2>3, <3>1, <3>2
  <2>9. \A v \in S : /\ Contribution(t, SiteData(t), config, f[v])
                           = Contribution(s, SiteData(s), config, v)
                     /\ Scale(f[v]) = Scale(v)
    BY <2>6 DEF KS, KT
  <2>10. \A v \in S : f[v] \in T
    BY <2>6
  <2>11. Weight(s, SiteData(s), config, S, k) = Weight(t, SiteData(t), config, T, k)
    BY <2>1, <2>7, <2>8, <2>9, <2>10, WeightOfMatch
  <2> QED BY <2>11 DEF S, T
<1> QED BY <1>9, <1>10

-----------------------------------------------------------------------------
(***************************************************************************)
(* Taking away what the first loop of the optimized evaluator visits and   *)
(* adding what the second one visits turns the complete sum over s into    *)
(* the complete sum over t.                                                *)
(***************************************************************************)
THEOREM UpdateIsSum ==
  ASSUME NEW s, HasSites(s), NEW t, HasSites(t), Frame(s) = Frame(t),
         NEW d, d = Diff(s, t), d.method # "NONE",
         NEW mask, FixedSites \/ HasPairMask(mask) => d.method = "SIDEBYSIDE",
         NEW config
  PROVE  LET gone == Tally(s, SiteData(s), config, Seen(s, s, mask, PopVisits(s, d.pop)))
             new == Tally(t, SiteData(t), config, Seen(t, t, mask, AddVisits(t, d.add)))
         IN  Combine(Combine(FullValue(s, mask, config), -1, gone), 1, new)
               = FullValue(t, mask, config)
<1> DEFINE gone == Tally(s, SiteData(s), config, Seen(s, s, mask, PopVisits(s, d.pop)))
           left == Tally(s, SiteData(s), config, Seen(s, s, mask, Kept(s, d.pop)))
           new == Tally(t, SiteData(t), config, Seen(t, t, mask, AddVisits(t, d.add)))
           came == Tally(t, SiteData(t), config, Seen(t, t, mask, Kept(t, d.add)))
           old == FullValue(s, mask, config)
           full == FullValue(t, mask, config)
           fixed == d.method = "SIDEBYSIDE"
<1>1. /\ d.pop \in SUBSET Sites(s) /\ d.add \in SUBSET Sites(t)
      /\ \E match : Matches(match, s, d.pop, t, d.add, fixed)
  BY DiffMatches
<1>2. /\ IsLedger(old) /\ IsLedger(gone) /\ IsLedger(left)
      /\ \A k : Amount(old, k) = Amount(gone, k) + Amount(left, k)
  <2>1. Covers(s, d.pop, PopVisits(s, d.pop))
    BY <1>1, LoopsCover
  <2> QED BY <1>1, <2>1, Remainder DEF FullValue
<1>3. /\ IsLedger(full) /\ IsLedger(new) /\ IsLedger(came)
      /\ \A k : Amount(full, k) = Amount(new, k) + Amount(came, k)
  <2>1. Covers(t, d.add, AddVisits(t, d.add))
    BY <1>1, LoopsCover
  <2> QED BY <1>1, <2>1, Remainder DEF FullValue
<1>4. \A k : Amount(left, k) = Amount(came, k)
  <2> DEFINE S == Seen(s, s, mask, Kept(s, d.pop))
             T == Seen(t, t, mask, Kept(t, d.add))
  <2>1. fixed \in BOOLEAN /\ (mask.pairs = {} \/ fixed) /\ (FixedSites => fixed)
    BY DEF HasPairMask
  <2>2. IsFiniteSet(S) /\ IsFiniteSet(T)
    BY SeenIsFinite DEF Kept, AllVisits
  <2>3. /\ \A k : Amount(left, k) = Weight(s, SiteData(s), config, S, k)
        /\ \A k : Amount(came, k) = Weight(t, SiteData(t), config, T, k)
    BY <2>2, TallyCount
  <2> HIDE DEF fixed, left, came
  <2>4. \A k : Weight(s, SiteData(s), config, S, k) = Weight(t, SiteData(t), config, T, k)
    BY <1>1, <2>1, KeptPairsAgree
  <2> QED BY <2>3, <2>4
<1> HIDE DEF gone, left, new, came, old, full
<1> DEFINE partial == Combine(old, -1, gone)
           result == Combine(partial, 1, new)
<1>5. IsLedger(partial) /\ \A k : Amount(partial, k) = Amount(old, k) + (-1) * Amount(gone, k)
  BY <1>2, CombineAmount
<1> HIDE DEF partial
<1>6. IsLedger(result) /\ \A k : Amount(result, k) = Amount(partial, k) + 1 * Amount(new, k)
  BY <1>3, <1>5, CombineAmount
<1> HIDE DEF result
<1>7. \A k : /\ Amount(old, k) \in Int /\ Amount(gone, k) \in Int /\ Amount(left, k) \in Int
             /\ Amount(new, k) \in Int /\ Amount(came, k) \in Int
  BY <1>2, <1>3, AmountType
<1>8. \A k : Amount(result, k) = Amount(full, k)
  BY <1>2, <1>3, <1>4, <1>5, <1>6, <1>7
<1>9. result = full
  BY <1>3, <1>6, <1>8, LedgerExtensionality
<1> QED BY <1>9 DEF result, partial, gone, new, old, full

-----------------------------------------------------------------------------
(***************************************************************************)
(* What is dealt out to CPUs (Shares): nothing is left out or done twice.  *)
(***************************************************************************)

LEMMA Division ==
  ASSUME NEW n \in Nat, n > 0, NEW p \in Nat
  PROVE  \E q \in Int, r \in 0..n - 1 : n * q + r = p /\ r = p % n
<1>1. \E q \in Int, r \in Int : n * q + r = p /\ r = p % n
  BY SMT
<1>2. p % n >= 0 /\ p % n < n
  BY SMT
<1> QED BY <1>1, <1>2

LEMMA MultipleHasNoRest ==
  ASSUME NEW n \in Nat, n > 0, NEW q \in Int
  PROVE  (n * q) % n = 0
  BY SMT

(* Numbers less than n apart are not different multiples of n. *)
LEMMA MultiplesAreApart ==
  ASSUME NEW n \in Nat, n > 0, NEW a \in Int, NEW b \in Int,
         n * a - n * b < n, n * b - n * a < n
  PROVE  a = b
<1>1. CASE a >= b + 1
  <2>1. n * a >= n * (b + 1)
    BY <1>1
  <2> QED BY <2>1
<1>2. CASE b >= a + 1
  <2>1. n * b >= n * (a + 1)
    BY <1>2
  <2> QED BY <2>1
<1> QED BY <1>1, <1>2

(***************************************************************************)
(* Whatever a loop counts at some position falls to exactly one CPU.       *)
(***************************************************************************)
LEMMA OneCpuForPosition ==
  ASSUME NEW n \in Nat, n > 0, NEW p \in Nat
  PROVE  /\ \E i \in 0..n - 1 : Mine(i, n, p)
         /\ \A i, j \in 0..n - 1 : Mine(i, n, p) /\ Mine(j, n, p) => i = j
<1>1. \E i \in 0..n - 1 : Mine(i, n, p)
  <2>1. PICK q \in Int, r \in 0..n - 1 : n * q + r = p
    BY Division
  <2>2. CASE r = 0
    <3>1. 0 + p = n * q
      BY <2>1, <2>2
    <3>2. Mine(0, n, p)
      BY <3>1, MultipleHasNoRest DEF Mine
    <3> QED BY <3>2
  <2>3. CASE r # 0
    <3>1. (n - r) + p = n * (q + 1) /\ n - r \in 0..n - 1
      BY <2>1, <2>3
    <3>2. (n * (q + 1)) % n = 0
      BY MultipleHasNoRest
    <3>3. Mine(n - r, n, p)
      BY <3>1, <3>2 DEF Mine
    <3> QED BY <3>1, <3>3
  <2> QED BY <2>2, <2>3
<1>2. ASSUME NEW i \in 0..n - 1, NEW j \in 0..n - 1, Mine(i, n, p), Mine(j, n, p)
      PROVE  i = j
  <2>1. PICK a \in Int : n * a = i + p
    <3>1. i + p \in Nat /\ (i + p) % n = 0
      BY <1>2 DEF Mine
    <3>2. PICK q \in Int, r \in 0..n - 1 : n * q + r = i + p /\ r = (i + p) % n
      BY <3>1, Division
    <3> QED BY <3>1, <3>2
  <2>2. PICK b \in Int : n * b = j + p
    <3>1. j + p \in Nat /\ (j + p) % n = 0
      BY <1>2 DEF Mine
    <3>2. PICK q \in Int, r \in 0..n - 1 : n * q + r = j + p /\ r = (j + p) % n
      BY <3>1, Division
    <3> QED BY <3>1, <3>2
  <2>3. n * a - n * b < n /\ n * b - n * a < n
    BY <2>1, <2>2
  <2>4. a = b
    BY <2>3, MultiplesAreApart
  <2> QED BY <2>1, <2>2, <2>4
<1> QED BY <1>1, <1>2

-----------------------------------------------------------------------------
(* Positions in the loops are natural numbers.                             *)

LEMMA RankType ==
  ASSUME NEW set, IsFiniteSet(set), NEW i
  PROVE  Rank(set, i) \in Nat
<1>1. IsFiniteSet({j \in set : j < i})
  BY FS_Subset
<1> QED BY <1>1, FS_CardinalityType DEF Rank

LEMMA SitesAreFinite ==
  ASSUME NEW s, HasSites(s), NEW set \in SUBSET Sites(s)
  PROVE  IsFiniteSet(set) /\ Cardinality(set) \in Nat
<1>1. IsFiniteSet(Sites(s))
  BY FS_Interval DEF HasSites
<1> QED BY <1>1, FS_Subset, FS_CardinalityType

LEMMA PositionTypes ==
  ASSUME NEW s, HasSites(s), NEW t, HasSites(t),
         NEW pop \in SUBSET Sites(s), NEW add \in SUBSET Sites(t), NEW i
  PROVE  /\ PopPosition(s, pop, i) \in Nat
         /\ AddPosition(s, pop, t, add, i) \in Nat
<1>1. /\ IsFiniteSet(pop) /\ Cardinality(pop) \in Nat
      /\ IsFiniteSet(Sites(s) \ pop)
  BY SitesAreFinite
<1>2. /\ IsFiniteSet(add) /\ IsFiniteSet(Sites(t) \ add)
      /\ Cardinality(Sites(t) \ add) \in Nat
  BY SitesAreFinite
<1>3. /\ Rank(pop, i) \in Nat /\ Rank(Sites(s) \ pop, i) \in Nat
      /\ Rank(add, i) \in Nat /\ Rank(Sites(t) \ add, i) \in Nat
  BY <1>1, <1>2, RankType
<1>4. PopAnchors(s, pop) \in Nat
  BY <1>1 DEF PopAnchors, HasSites
<1> QED BY <1>1, <1>2, <1>3, <1>4 DEF PopPosition, AddPosition

LEMMA BondPositionType ==
  ASSUME NEW s, HasSites(s), NEW bonds \in SUBSET (Sites(s) \X Sites(s)), NEW v
  PROVE  BondPosition(bonds, v) \in Nat
<1>1. IsFiniteSet(Sites(s))
  BY SitesAreFinite
<1>2. IsFiniteSet(Sites(s) \X Sites(s))
  BY <1>1, FS_Product
<1>3. IsFiniteSet({w \in bonds : Precedes(w, v)})
  BY <1>2, FS_Subset
<1> QED BY <1>3, FS_CardinalityType DEF BondPosition

(***************************************************************************)
(* Whatever bonds a complete sum goes through, they fall into disjoint     *)
(* shares, whether anchors are dealt out or bonds.                         *)
(***************************************************************************)
LEMMA SharesPartition ==
  ASSUME NEW s, HasSites(s), NEW n \in Nat \ {0}, NEW bonds \in SUBSET AllPairs(s)
  PROVE  LET share(index) == ShareOfAll(s, bonds, index, n)
         IN  /\ UNION {share(index) : index \in 0..n - 1} = bonds
             /\ \A i, j \in 0..n - 1 : i # j => share(i) \cap share(j) = {}
<1> DEFINE share(index) == ShareOfAll(s, bonds, index, n)
<1>1. bonds \in SUBSET (Sites(s) \X Sites(s))
  BY DEF AllPairs
<1>2. CASE n = 1
  <2>1. \A i \in 0..n - 1 : i = 0 /\ share(i) = bonds
    BY <1>2 DEF ShareOfAll
  <2> QED BY <1>2, <2>1
<1>3. ASSUME NEW position \in [bonds -> Nat],
             \A i : share(i) = {v \in bonds : Mine(i, n, position[v])}
      PROVE  /\ UNION {share(i) : i \in 0..n - 1} = bonds
             /\ \A i, j \in 0..n - 1 : i # j => share(i) \cap share(j) = {}
  <2> HIDE DEF share
  <2>1. \A v \in bonds :
          /\ \E i \in 0..n - 1 : Mine(i, n, position[v])
          /\ \A i, j \in 0..n - 1 : Mine(i, n, position[v]) /\ Mine(j, n, position[v]) => i = j
    BY <1>3, OneCpuForPosition
  <2>2. UNION {share(i) : i \in 0..n - 1} = bonds
    BY <1>3, <2>1
  <2>3. \A i, j \in 0..n - 1 : i # j => share(i) \cap share(j) = {}
    BY <1>3, <2>1
  <2> QED BY <2>2, <2>3
<1>4. CASE n # 1 /\ ChopOuter(s, n)
  <2> DEFINE position == [v \in bonds |-> v[1] - 1]
  <2>1. \A i : share(i) = {v \in bonds : Mine(i, n, position[v])}
    BY <1>4 DEF ShareOfAll
  <2>2. position \in [bonds -> Nat]
    BY <1>1 DEF HasSites
  <2> HIDE DEF position
  <2> QED BY <1>3, <2>1, <2>2
<1>5. CASE n # 1 /\ ~ChopOuter(s, n)
  <2> DEFINE position == [v \in bonds |-> BondPosition(bonds, v)]
  <2>1. \A i : share(i) = {v \in bonds : Mine(i, n, position[v])}
    BY <1>5 DEF ShareOfAll
  <2>2. position \in [bonds -> Nat]
    BY <1>1, BondPositionType
  <2> HIDE DEF position
  <2> QED BY <1>3, <2>1, <2>2
<1> QED BY <1>2, <1>4, <1>5
=============================================================================
