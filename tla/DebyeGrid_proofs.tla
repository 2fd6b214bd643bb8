--------------------------- MODULE DebyeGrid_proofs ---------------------------
(***************************************************************************)
(* What updates carry from one Debye sum to another, while the r-range and *)
(* the Q-step drift apart from the configuration, for any structures,      *)
(* ranges, steps and extensions.                                           *)
(***************************************************************************)
EXTENDS DebyeGrid, FiniteSetTheorems, WellFoundedInduction, TLAPS

-----------------------------------------------------------------------------
(* Numbers.                                                                *)

LEMMA DivBounds ==
  ASSUME NEW a \in Int, NEW n \in Nat \ {0}
  PROVE  /\ a \div n \in Int
         /\ (a \div n) * n =< a /\ a < (a \div n) * n + n
OBVIOUS

LEMMA Times ==
  ASSUME NEW k \in Int, NEW l \in Int, NEW n \in Nat, k =< l
  PROVE  k * n \in Int /\ l * n \in Int /\ k * n =< l * n
OBVIOUS

(* Steps that reach a distance, and no more than needed. *)
LEMMA CeilBounds ==
  ASSUME NEW a \in Int, NEW n \in Nat \ {0}
  PROVE  /\ CeilDiv(a, n) \in Int
         /\ a =< CeilDiv(a, n) * n /\ CeilDiv(a, n) * n < a + n
<1> DEFINE q == (-a) \div n
<1>1. q \in Int /\ q * n =< -a /\ -a < q * n + n
  BY DivBounds
<1>2. (-q) * n = -(q * n)
  BY <1>1
<1>3. CeilDiv(a, n) = -q
  BY DEF CeilDiv
<1> HIDE DEF q
<1> QED
  BY <1>1, <1>2, <1>3

LEMMA CeilMonotonic ==
  ASSUME NEW a \in Int, NEW b \in Int, NEW n \in Nat \ {0}, a =< b
  PROVE  CeilDiv(a, n) =< CeilDiv(b, n)
<1> DEFINE x == CeilDiv(a, n)
           y == CeilDiv(b, n)
<1>1. x \in Int /\ y \in Int /\ x * n < a + n /\ b =< y * n
  BY CeilBounds
<1> HIDE DEF x, y
<1>2. ASSUME y + 1 =< x PROVE FALSE
  <2>1. (y + 1) * n =< x * n
    BY <1>1, <1>2, Times
  <2>2. (y + 1) * n = y * n + n
    BY <1>1
  <2> QED
    BY <1>1, <2>1, <2>2
<1> QED
  BY <1>1, <1>2 DEF x, y

LEMMA CeilType ==
  ASSUME NEW a \in Nat, NEW n \in Nat \ {0}
  PROVE  CeilDiv(a, n) \in Nat
<1> DEFINE q == CeilDiv(a, n)
<1>1. q \in Int /\ a =< q * n
  BY CeilBounds
<1> HIDE DEF q
<1>2. ASSUME q =< -1 PROVE FALSE
  <2>1. q * n =< (-1) * n
    BY <1>1, <1>2, Times
  <2> QED
    BY <1>1, <2>1
<1> QED
  BY <1>1, <1>2 DEF q

LEMMA BelowCeil ==
  ASSUME NEW a \in Nat, NEW n \in Nat \ {0}, NEW k \in Nat, k < CeilDiv(a, n)
  PROVE  k * n < a
<1> DEFINE q == CeilDiv(a, n)
<1>1. q \in Int /\ q * n < a + n
  BY CeilBounds
<1> HIDE DEF q
<1>2. k + 1 =< q
  BY <1>1 DEF q
<1>3. (k + 1) * n =< q * n
  BY <1>1, <1>2, Times
<1>4. (k + 1) * n = k * n + n
  OBVIOUS
<1> QED
  BY <1>1, <1>3, <1>4

LEMMA MinOfTwo ==
  ASSUME NEW a \in Int, NEW c \in Int
  PROVE  Min({a, c}) = IF a =< c THEN a ELSE c
<1> DEFINE m == IF a =< c THEN a ELSE c
<1>1. m \in {a, c} /\ \A y \in {a, c} : m =< y
  OBVIOUS
<1>2. \A x \in {a, c} : (\A y \in {a, c} : x =< y) => x = m
  OBVIOUS
<1> QED
  BY <1>1, <1>2 DEF Min

LEMMA MaxOfTwo ==
  ASSUME NEW a \in Int, NEW c \in Int
  PROVE  Max({a, c}) = IF a =< c THEN c ELSE a
<1> DEFINE m == IF a =< c THEN c ELSE a
<1>1. m \in {a, c} /\ \A y \in {a, c} : m >= y
  OBVIOUS
<1>2. \A x \in {a, c} : (\A y \in {a, c} : x >= y) => x = m
  OBVIOUS
<1> QED
  BY <1>1, <1>2 DEF Max

(* Numbers have a least one among them. *)
LEMMA MinOfNaturals ==
  ASSUME NEW D \in SUBSET Nat, D # {}
  PROVE  Min(D) \in D /\ \A y \in D : Min(D) =< y
<1> DEFINE R == OpToRel(<, Nat)
<1>1. IsWellFoundedOn(R, Nat)
  BY NatLessThanWellFounded
<1>2. \A a, b \in Nat : a < b => <<a, b>> \in R
  BY DEF OpToRel
<1> HIDE DEF R
<1>3. PICK x \in D : \A y \in D : ~(<<y, x>> \in R)
  BY <1>1, WFMin
<1>4. \A y \in D : ~(y < x)
  BY <1>2, <1>3
<1>5. \A y \in D : x =< y
  BY <1>4
<1> QED
  BY <1>5 DEF Min

(* A number is below its power of two: n points have 2 ^ n sets of points. *)
LEMMA PowerExceeds ==
  ASSUME NEW n \in Nat
  PROVE  2 ^ n \in Nat /\ n =< 2 ^ n
<1> DEFINE points == 1..n
           single == [x \in points |-> {x}]
<1>1. IsFiniteSet(points) /\ Cardinality(points) = n
  BY FS_Interval
<1> HIDE DEF points
<1>2. IsFiniteSet(SUBSET points) /\ Cardinality(SUBSET points) = 2 ^ n
  BY <1>1, FS_SUBSET
<1>3. 2 ^ n \in Nat
  BY <1>2, FS_CardinalityType
<1>4. single \in Injection(points, SUBSET points)
  BY DEF Injection, IsInjective
<1>5. Cardinality(points) =< Cardinality(SUBSET points)
  BY <1>2, <1>4, FS_Injection
<1> QED
  BY <1>1, <1>2, <1>3, <1>5

(* So there is a first power of two that n points can be padded to. *)
LEMMA FirstPower ==
  ASSUME NEW n \in Nat
  PROVE  \E k \in 0..n : 2 ^ k >= n /\ \A j \in 0..(k - 1) : 2 ^ j < n
<1> DEFINE enough == {k \in 0..n : 2 ^ k >= n}
           k == Min(enough)
<1>1. \A j \in Nat : 2 ^ j \in Nat
  BY PowerExceeds
<1>2. n \in enough /\ enough \in SUBSET Nat
  BY PowerExceeds
<1>3. k \in enough /\ \A j \in enough : k =< j
  BY <1>2, MinOfNaturals
<1> HIDE DEF k
<1>4. ASSUME NEW j \in 0..(k - 1) PROVE 2 ^ j < n
  <2>1. j \in 0..n /\ j \in Nat /\ ~(k =< j)
    BY <1>3
  <2>2. j \notin enough
    BY <1>3, <2>1
  <2> QED
    BY <1>1, <2>1, <2>2
<1> QED
  BY <1>3, <1>4

-----------------------------------------------------------------------------
(* Ranges.                                                                 *)

Configs == [rmin : Rmins, rmax : Rmaxes, rstep : Rsteps, qmax : Qmaxes,
            maxextension : Extensions, width : Widths]

LEMMA ConfigType ==
  ASSUME DebyeAssumption, NEW c \in Configs
  PROVE  /\ c.rmin \in Nat /\ c.rmax \in Nat /\ c.qmax \in Nat /\ c.maxextension \in Nat
         /\ c.rstep \in Nat \ {0} /\ c.width \in Nat \ {0}
BY DEF DebyeAssumption, Configs

LEMMA ExtTotalType ==
  ASSUME DebyeAssumption, NEW c \in Configs, NEW s \in Structures
  PROVE  ExtTotal(c, s) \in Nat
<1>1. /\ c.qmax \in Nat /\ c.maxextension \in Nat /\ c.width \in Nat
      /\ Nripples \in Nat /\ s.widest \in Nat
  BY ConfigType DEF DebyeAssumption
<1>2. Nripples * c.qmax \in Nat /\ s.widest * c.width \in Nat
  BY <1>1
<1>3. Nripples * c.qmax + s.widest * c.width \in Nat
  BY <1>2
<1> QED
  BY <1>1, <1>3, MinOfTwo DEF ExtTotal

(* Whatever limit is kept, the cached ones span the extended r-range. *)
LEMMA LimitsSpan ==
  ASSUME DebyeAssumption, NEW c \in Configs, NEW s \in Structures, NEW hi \in Nat
  PROVE  LET l == CacheRlimitsData(c, s, hi)
         IN  /\ l.lo \in Nat /\ l.hi \in Nat
             /\ l.lo * c.rstep =< CeilDiv(c.rmin, c.rstep) * c.rstep
             /\ c.rmax + ExtTotal(c, s) =< l.hi * c.rstep
<1> DEFINE l == CacheRlimitsData(c, s, hi)
           x == ExtTotal(c, s)
           nlo == CeilDiv(c.rmin - x, c.rstep)
           nhi == CeilDiv(c.rmax + x, c.rstep)
           r == c.rstep
           first == CeilDiv(c.rmin, r)
<1>1. x \in Nat /\ c.rmin \in Nat /\ c.rmax \in Nat /\ r \in Nat \ {0} /\ MinReduction \in Nat
  BY ExtTotalType, ConfigType DEF DebyeAssumption
<1>2. nlo \in Int /\ nlo =< first /\ first \in Nat
  <2> HIDE DEF x, r
  <2>1. c.rmin - x \in Int /\ c.rmin - x =< c.rmin
    BY <1>1
  <2>2. CeilDiv(c.rmin - x, r) \in Int /\ CeilDiv(c.rmin, r) \in Nat
    BY <1>1, <2>1, CeilBounds, CeilType
  <2>3. CeilDiv(c.rmin - x, r) =< CeilDiv(c.rmin, r)
    BY <1>1, <2>1, CeilMonotonic
  <2> QED
    BY <2>2, <2>3 DEF r
<1>3. nhi \in Nat /\ c.rmax + x =< nhi * r
  <2> HIDE DEF x, r
  <2>1. c.rmax + x \in Nat
    BY <1>1
  <2>2. CeilDiv(c.rmax + x, r) \in Nat /\ c.rmax + x =< CeilDiv(c.rmax + x, r) * r
    BY <1>1, <2>1, CeilBounds, CeilType
  <2> QED
    BY <2>2 DEF r
<1>4. l.lo = Max({0, nlo}) /\ l.hi = IF nhi =< hi - MinReduction \/ nhi > hi THEN nhi ELSE hi
  BY DEF CacheRlimitsData
<1> HIDE DEF l, x, nlo, nhi, r, first
<1>5. l.lo \in Nat /\ l.lo =< first
  BY <1>2, <1>4, MaxOfTwo
<1>6. l.hi \in Nat /\ nhi =< l.hi
  BY <1>1, <1>3, <1>4
<1>7. l.lo * r =< first * r
  BY <1>1, <1>2, <1>5, Times
<1>8. nhi * r =< l.hi * r /\ nhi * r \in Int /\ l.hi * r \in Int
  BY <1>1, <1>3, <1>6, Times
<1>9. c.rmax + x =< l.hi * r
  BY <1>1, <1>3, <1>8
<1> QED
  BY <1>5, <1>6, <1>7, <1>9 DEF l, x, r, first

(* Unless Qmax is zero, the updated Q-step is fine enough for the limit. *)
LEMMA UpdatedQstep ==
  ASSUME DebyeAssumption, NEW c \in Configs, NEW hi \in Nat, NEW step \in Nat \ {0},
         NEW optimum \in BOOLEAN
  PROVE  LET new == UpdateQstep(c, hi, step, optimum)
         IN  /\ new.step \in Nat \ {0} /\ new.optimum \in BOOLEAN
             /\ c.qmax # 0 => hi * c.rstep =< new.step
<1> DEFINE a == hi * c.rstep
           b == 4 * c.qmax
           best == OptimumQstep(c, hi)
           forced == optimum \/ c.qmax = 0 \/ step =< best
           new == UpdateQstep(c, hi, step, optimum)
<1>1. c.qmax \in Nat /\ a \in Nat /\ b \in Nat
  BY ConfigType
<1>2. best \in Nat /\ a =< best /\ (c.qmax # 0 => best > 0)
  BY <1>1, MaxOfTwo DEF OptimumQstep
<1>3. /\ new.step = IF forced /\ c.qmax # 0 THEN best ELSE step
      /\ new.optimum = forced
  BY DEF UpdateQstep
<1> QED
  BY <1>1, <1>2, <1>3

LEMMA QmaxStepsType ==
  ASSUME DebyeAssumption, NEW c \in Configs, NEW step \in Nat
  PROVE  QmaxSteps(c, step) \in Nat
BY ConfigType, CeilType DEF QmaxSteps

-----------------------------------------------------------------------------
(* Pairs.                                                                  *)

(* What decides whether a pair is summed, apart from the pair itself. *)
Inside(d, l) == l.lo * config.rstep =< d /\ d =< l.hi * config.rstep

(* Those pairs that one entry of the ledger counts. *)
Of(s, pairs, e) == {p \in pairs : e = <<Distance(s, p), OwnWeight(s, p)>>}

Kept(s, other) == SitePairs(s) \ Changed(s, other)

LEMMA PairsFinite ==
  ASSUME DebyeAssumption, NEW s \in Structures, NEW pairs \in SUBSET SitePairs(s)
  PROVE  IsFiniteSet(pairs) /\ Cardinality(pairs) \in Nat
<1>1. PICK n \in Nat : DOMAIN s.sites = 1..n
  BY DEF DebyeAssumption
<1>2. IsFiniteSet(DOMAIN s.sites)
  BY <1>1, FS_Interval
<1>3. IsFiniteSet((DOMAIN s.sites) \X (DOMAIN s.sites))
  BY <1>2, FS_Product
<1>4. pairs \subseteq (DOMAIN s.sites) \X (DOMAIN s.sites)
  BY DEF SitePairs
<1> QED
  BY <1>3, <1>4, FS_Subset, FS_CardinalityType

(* Pairs of sites that two structures share count the same in both. *)
LEMMA KeptAlike ==
  ASSUME NEW s, NEW last, NEW l, NEW m, NEW e,
         Inside(e[1], l) <=> Inside(e[1], m)
  PROVE  Of(last, WithinRange(last, Kept(last, s), l), e)
           \subseteq Of(s, WithinRange(s, Kept(s, last), m), e)
<1> SUFFICES ASSUME NEW p \in Of(last, WithinRange(last, Kept(last, s), l), e)
             PROVE  p \in Of(s, WithinRange(s, Kept(s, last), m), e)
  OBVIOUS
<1>1. /\ p \in SitePairs(last) /\ p \notin Changed(last, s)
      /\ Inside(Distance(last, p), l) /\ e = <<Distance(last, p), OwnWeight(last, p)>>
  BY DEF Of, WithinRange, Kept, Inside
<1>2. /\ p[1] \in DOMAIN s.sites /\ s.sites[p[1]] = last.sites[p[1]]
      /\ p[2] \in DOMAIN s.sites /\ s.sites[p[2]] = last.sites[p[2]]
  BY <1>1 DEF Changed
<1>3. p \in SitePairs(s) /\ p \notin Changed(s, last)
  BY <1>1, <1>2 DEF SitePairs, Changed
<1>4. Distance(s, p) = Distance(last, p) /\ OwnWeight(s, p) = OwnWeight(last, p)
  BY <1>2 DEF Distance, OwnWeight, Factor
<1>5. e[1] = Distance(last, p)
  BY <1>1
<1> QED
  BY <1>1, <1>3, <1>4, <1>5 DEF Of, WithinRange, Kept, Inside

LEMMA CountKept ==
  ASSUME DebyeAssumption, NEW s \in Structures, NEW other, NEW l, NEW e
  PROVE  Cardinality(Of(s, WithinRange(s, SitePairs(s), l), e))
           = Cardinality(Of(s, WithinRange(s, Changed(s, other), l), e))
               + Cardinality(Of(s, WithinRange(s, Kept(s, other), l), e))
<1> DEFINE A == Of(s, WithinRange(s, SitePairs(s), l), e)
           C == Of(s, WithinRange(s, Changed(s, other), l), e)
           K == Of(s, WithinRange(s, Kept(s, other), l), e)
<1>1. A = C \cup K /\ C \cap K = {}
  BY DEF Of, WithinRange, Kept, Changed
<1>2. C \subseteq SitePairs(s) /\ K \subseteq SitePairs(s)
  BY DEF Of, WithinRange, Kept, Changed
<1>3. IsFiniteSet(C) /\ IsFiniteSet(K) /\ Cardinality(C) \in Nat /\ Cardinality(K) \in Nat
  BY <1>2, PairsFinite
<1> HIDE DEF A, C, K
<1>4. Cardinality(C \cup K) = Cardinality(C) + Cardinality(K) - Cardinality(C \cap K)
  BY <1>3, FS_Union
<1>5. Cardinality(C \cap K) = 0
  BY <1>1, FS_EmptySet
<1>6. Cardinality(A) = Cardinality(C) + Cardinality(K)
  BY <1>1, <1>3, <1>4, <1>5
<1> QED
  BY <1>6 DEF A, C, K

(***************************************************************************)
(* Removing the pairs of changed sites from the sum over one structure and *)
(* adding those of the other one yields the sum over the other, also where *)
(* the limits differ, as long as they do not differ about the distance.    *)
(***************************************************************************)
LEMMA UpdateBalances ==
  ASSUME DebyeAssumption, NEW s \in Structures, NEW last \in Structures, NEW l, NEW m, NEW e,
         Inside(e[1], l) <=> Inside(e[1], m)
  PROVE  Cardinality(Of(s, WithinRange(s, SitePairs(s), m), e))
           = Cardinality(Of(last, WithinRange(last, SitePairs(last), l), e))
               - Cardinality(Of(last, WithinRange(last, Changed(last, s), l), e))
               + Cardinality(Of(s, WithinRange(s, Changed(s, last), m), e))
<1> DEFINE K == Of(last, WithinRange(last, Kept(last, s), l), e)
           L == Of(s, WithinRange(s, Kept(s, last), m), e)
           C == Of(last, WithinRange(last, Changed(last, s), l), e)
           D == Of(s, WithinRange(s, Changed(s, last), m), e)
<1>1. K = L
  BY KeptAlike
<1>2. /\ C \in SUBSET SitePairs(last) /\ D \in SUBSET SitePairs(s)
      /\ K \in SUBSET SitePairs(last) /\ L \in SUBSET SitePairs(s)
  BY DEF Of, WithinRange, Kept, Changed
<1>3. /\ Cardinality(C) \in Nat /\ Cardinality(D) \in Nat
      /\ Cardinality(K) \in Nat /\ Cardinality(L) \in Nat
  BY <1>2, PairsFinite
<1>4. Cardinality(Of(s, WithinRange(s, SitePairs(s), m), e)) = Cardinality(D) + Cardinality(L)
  BY CountKept
<1>5. Cardinality(Of(last, WithinRange(last, SitePairs(last), l), e))
        = Cardinality(C) + Cardinality(K)
  BY CountKept
<1> HIDE DEF K, L, C, D
<1> QED
  BY <1>1, <1>3, <1>4, <1>5 DEF C, D

-----------------------------------------------------------------------------
(* Factors.                                                                *)

LEMMA FactorsType ==
  ASSUME DebyeAssumption, NEW s \in Structures
  PROVE  CacheStructureData(s) \in [SiteTypes -> Nat]
<1> SUFFICES ASSUME NEW t \in SiteTypes
             PROVE  CacheStructureData(s)[t] \in Nat
  BY DEF CacheStructureData
<1> DEFINE sites == {i \in DOMAIN s.sites : s.sites[i].type = t}
<1>1. CASE sites = {}
  BY <1>1 DEF CacheStructureData
<1>2. CASE sites # {}
  <2>1. PICK n \in Nat : DOMAIN s.sites = 1..n
    BY DEF DebyeAssumption
  <2>2. sites \in SUBSET Nat
    BY <2>1
  <2>3. Min(sites) \in sites
    BY <1>2, <2>2, MinOfNaturals
  <2>4. Factor(s.sites[Min(sites)]) \in Nat
    BY <2>3 DEF DebyeAssumption, Factor
  <2> QED
    BY <1>2, <2>4 DEF CacheStructureData
<1> QED
  BY <1>1, <1>2

(* With occupancies that are told by types, no site has the wrong factor. *)
LEMMA FactorsAreOwn ==
  ASSUME DebyeAssumption, Uniform, NEW s \in Structures, NEW i \in DOMAIN s.sites
  PROVE  CacheStructureData(s)[s.sites[i].type] = Factor(s.sites[i])
<1> DEFINE t == s.sites[i].type
           sites == {j \in DOMAIN s.sites : s.sites[j].type = t}
<1>1. PICK n \in Nat : DOMAIN s.sites = 1..n
  BY DEF DebyeAssumption
<1>2. sites \in SUBSET Nat /\ sites # {}
  BY <1>1
<1>3. Min(sites) \in sites
  BY <1>2, MinOfNaturals
<1>4. s.sites[Min(sites)].occupancy = s.sites[i].occupancy
  BY <1>3 DEF Uniform
<1>5. t \in SiteTypes
  BY DEF SiteTypes
<1> QED
  BY <1>2, <1>4, <1>5 DEF CacheStructureData, Factor

LEMMA WeightsAreOwn ==
  ASSUME DebyeAssumption, Uniform, NEW s \in Structures, NEW p \in SitePairs(s)
  PROVE  Weight(s, p, CacheStructureData(s)) = OwnWeight(s, p)
BY FactorsAreOwn DEF Weight, OwnWeight, SitePairs

(* An entry of the ledger after pairs have been added or removed. *)
LEMMA WithPairsType ==
  ASSUME DebyeAssumption, NEW s \in Structures, NEW pairs \in SUBSET SitePairs(s), NEW factor,
         NEW sign \in {-1, 1}, NEW ledger \in [DOMAIN NoLedger -> Int]
  PROVE  WithPairs(ledger, s, pairs, factor, sign) \in [DOMAIN NoLedger -> Int]
<1> SUFFICES ASSUME NEW e \in DOMAIN NoLedger
             PROVE  WithPairs(ledger, s, pairs, factor, sign)[e] \in Int
  BY DEF WithPairs
<1> DEFINE counted == {p \in pairs : e = <<Distance(s, p), Weight(s, p, factor)>>}
<1>1. counted \in SUBSET SitePairs(s)
  OBVIOUS
<1>2. Cardinality(counted) \in Nat
  BY <1>1, PairsFinite
<1>3. WithPairs(ledger, s, pairs, factor, sign)[e] = ledger[e] + sign * Cardinality(counted)
  BY DEF WithPairs
<1> HIDE DEF counted
<1>4. ledger[e] \in Int /\ sign * Cardinality(counted) \in Int
  BY <1>2
<1> QED
  BY <1>3, <1>4

LEMMA WithOwnPairs ==
  ASSUME DebyeAssumption, Uniform, NEW s \in Structures, NEW pairs \in SUBSET SitePairs(s),
         NEW sign, NEW ledger, NEW e \in DOMAIN ledger
  PROVE  WithPairs(ledger, s, pairs, CacheStructureData(s), sign)[e]
           = ledger[e] + sign * Cardinality(Of(s, pairs, e))
<1> DEFINE factor == CacheStructureData(s)
           counted == {p \in pairs : e = <<Distance(s, p), Weight(s, p, factor)>>}
<1>1. \A p \in pairs : Weight(s, p, factor) = OwnWeight(s, p)
  BY WeightsAreOwn
<1>2. counted = Of(s, pairs, e)
  BY <1>1 DEF Of
<1>3. WithPairs(ledger, s, pairs, factor, sign)[e] = ledger[e] + sign * Cardinality(counted)
  BY DEF WithPairs
<1> QED
  BY <1>2, <1>3

-----------------------------------------------------------------------------
(* Types.                                                                  *)

(***************************************************************************)
(* A sum that is not stale was made with a positive Qmax, without which    *)
(* resetValue throws; the factors kept belong to the last structure.       *)
(***************************************************************************)
TypeInv ==
  /\ TypeOK
  /\ config \in Configs
  /\ mrlimits_are_cached \in BOOLEAN /\ moptimumqstep \in BOOLEAN
  /\ clicked \in BOOLEAN /\ settled \in BOOLEAN /\ shifted \in BOOLEAN /\ rescaled \in BOOLEAN
  /\ ~clicked => config.qmax # 0 /\ mlast_structure # NoLast
  /\ mlast_structure # NoLast => mstructure_cache = CacheStructureData(mlast_structure)

(* The configuration and the grids, which setters change. *)
GridType ==
  /\ config \in Configs
  /\ mrcalclosteps \in Nat /\ mrcalchisteps \in Nat /\ mrlimits_are_cached \in BOOLEAN
  /\ mqstep \in Nat \ {0} /\ moptimumqstep \in BOOLEAN

LEMMA RcalcType ==
  ASSUME DebyeAssumption, TypeInv, NEW c \in Configs, NEW kept
  PROVE  Rcalc(c, kept).lo \in Nat /\ Rcalc(c, kept).hi \in Nat
BY LimitsSpan DEF Rcalc, TypeInv, TypeOK

(* What resetValue makes of limits and Q-step. *)
LEMMA ResetLimits ==
  ASSUME DebyeAssumption, TypeInv, NEW s \in Structures, ResetValue(s)
  PROVE  /\ GridType' /\ mstructure' = s /\ config' = config /\ mrlimits_are_cached' = TRUE
         /\ mrcalclosteps' = NewLimits(s).lo /\ mrcalchisteps' = NewLimits(s).hi
         /\ mrcalclosteps' * config.rstep =< CeilDiv(config.rmin, config.rstep) * config.rstep
         /\ config.rmax + ExtTotal(config, s) =< mrcalchisteps' * config.rstep
         /\ config.qmax # 0 => mrcalchisteps' * config.rstep =< mqstep'
<1> DEFINE l == NewLimits(s)
           new == NewQstep(s)
<1>1. /\ l.lo \in Nat /\ l.hi \in Nat
      /\ l.lo * config.rstep =< CeilDiv(config.rmin, config.rstep) * config.rstep
      /\ config.rmax + ExtTotal(config, s) =< l.hi * config.rstep
  BY LimitsSpan DEF NewLimits, TypeInv, TypeOK
<1>2. /\ new.step \in Nat \ {0} /\ new.optimum \in BOOLEAN
      /\ config.qmax # 0 => l.hi * config.rstep =< new.step
  BY <1>1, UpdatedQstep DEF NewQstep, TypeInv, TypeOK
<1>3. /\ mstructure' = s /\ config' = config /\ mrlimits_are_cached' = TRUE
      /\ mrcalclosteps' = l.lo /\ mrcalchisteps' = l.hi
      /\ mqstep' = new.step /\ moptimumqstep' = new.optimum
  BY DEF ResetValue, Cached
<1>4. config' \in Configs
  BY <1>3 DEF TypeInv
<1> HIDE DEF l, new
<1> QED
  BY <1>1, <1>2, <1>3, <1>4 DEF GridType, l

(* What a setter that ends with updateQstep leaves behind. *)
LEMMA FollowedQstep ==
  ASSUME DebyeAssumption, TypeInv, NEW c \in Configs, NEW kept \in BOOLEAN,
         NEW step \in Nat \ {0}, NEW optimum \in BOOLEAN, NEW click \in BOOLEAN,
         QstepFollows(c, kept, step, optimum, click)
  PROVE  /\ GridType' /\ config' = c /\ mrlimits_are_cached' = TRUE
         /\ mrcalclosteps' = Rcalc(c, kept).lo /\ mrcalchisteps' = Rcalc(c, kept).hi
         /\ clicked' \in BOOLEAN /\ (~clicked' => ~clicked /\ ~click /\ mqstep' = mqstep)
         /\ settled' = FALSE /\ UNCHANGED <<sum, rescaled>>
<1> DEFINE l == Rcalc(c, kept)
           new == UpdateQstep(c, l.hi, step, optimum)
<1>1. l.lo \in Nat /\ l.hi \in Nat
  BY RcalcType
<1>2. new.step \in Nat \ {0} /\ new.optimum \in BOOLEAN
  BY <1>1, UpdatedQstep
<1>3. /\ config' = c /\ mrlimits_are_cached' = TRUE
      /\ mrcalclosteps' = l.lo /\ mrcalchisteps' = l.hi
      /\ mqstep' = new.step /\ moptimumqstep' = new.optimum
      /\ clicked' = (clicked \/ click \/ new.step # mqstep)
      /\ settled' = FALSE /\ UNCHANGED <<sum, rescaled>>
  BY DEF QstepFollows, Cached
<1>4. clicked \in BOOLEAN
  BY DEF TypeInv
<1> HIDE DEF l, new
<1> QED
  BY <1>1, <1>2, <1>3, <1>4 DEF GridType, l

(* A setter that leaves the sum alone keeps the types if it clicks, or     *)
(* leaves Qmax.                                                            *)
LEMMA SetterType ==
  ASSUME TypeInv, GridType', UNCHANGED sum, clicked' \in BOOLEAN, settled' \in BOOLEAN,
         rescaled' \in BOOLEAN, ~clicked' => ~clicked /\ config'.qmax = config.qmax
  PROVE  TypeInv'
<1>1. DOMAIN NoLedger' = DOMAIN NoLedger /\ SiteTypes' = SiteTypes
  OBVIOUS
<1>2. CacheStructureData(mlast_structure)' = CacheStructureData(mlast_structure)
  BY DEF sum
<1> QED
  BY <1>1, <1>2 DEF TypeInv, TypeOK, GridType, sum

LEMMA ChangedIn ==
  ASSUME NEW s, NEW other, NEW l
  PROVE  /\ WithinRange(s, SitePairs(s), l) \in SUBSET SitePairs(s)
         /\ WithinRange(s, Changed(s, other), l) \in SUBSET SitePairs(s)
BY DEF WithinRange, Changed

LEMMA EvaluatedType ==
  ASSUME DebyeAssumption, TypeInv, NEW s \in Structures, ResetValue(s), config.qmax # 0,
         mstructure_cache' = CacheStructureData(s), mlast_structure' = s,
         NEW ledger \in [DOMAIN NoLedger -> Int],
         mvalue' = [size |-> Resized(s), ledger |-> ledger],
         clicked' \in BOOLEAN, settled' \in BOOLEAN, shifted' \in BOOLEAN, rescaled' \in BOOLEAN
  PROVE  TypeInv'
<1>1. GridType' /\ mstructure' = s /\ config' = config
  BY ResetLimits
<1>2. Resized(s) \in Nat
  <2>1. mqstep' = NewQstep(s).step /\ mqstep' \in Nat /\ config \in Configs
    BY <1>1 DEF ResetValue, GridType, TypeInv
  <2> QED
    BY <2>1, QmaxStepsType DEF Resized
<1>3. s # NoLast
  BY DEF DebyeAssumption
<1>4. CacheStructureData(s) \in [SiteTypes -> Nat]
  BY FactorsType
<1>5. CacheStructureData(mlast_structure)' = CacheStructureData(s)
  OBVIOUS
<1>6. DOMAIN NoLedger' = DOMAIN NoLedger /\ SiteTypes' = SiteTypes
  OBVIOUS
<1> QED
  BY <1>1, <1>2, <1>3, <1>4, <1>5, <1>6 DEF TypeInv, TypeOK, GridType

LEMMA NoLedgerType == NoLedger \in [DOMAIN NoLedger -> Int]
BY DEF NoLedger

LEMMA EvalCompletelyType ==
  ASSUME DebyeAssumption, TypeInv, NEW s \in Structures, EvalCompletely(s)
  PROVE  TypeInv'
<1> DEFINE factor == CacheStructureData(s)
           ledger == WithPairs(NoLedger, s, WithinRange(s, SitePairs(s), NewLimits(s)), factor, 1)
<1>1. ledger \in [DOMAIN NoLedger -> Int]
  BY ChangedIn, WithPairsType, NoLedgerType
<1>2. /\ config.qmax # 0 /\ ResetValue(s)
      /\ mstructure_cache' = factor /\ mlast_structure' = s
      /\ mvalue' = [size |-> Resized(s), ledger |-> ledger]
      /\ clicked' \in BOOLEAN /\ settled' \in BOOLEAN /\ shifted' \in BOOLEAN
      /\ rescaled' \in BOOLEAN
  BY DEF EvalCompletely
<1> HIDE DEF ledger
<1> QED
  BY <1>1, <1>2, EvaluatedType

(* The ledger that an update ends with. *)
Updated(s) ==
  LET last == mlast_structure
      before == Rcalc(config, mrlimits_are_cached)
      popped == WithPairs(mvalue.ledger, last, WithinRange(last, Changed(last, s), before),
                          mstructure_cache, -1)
  IN  WithPairs(popped, s, WithinRange(s, Changed(s, last), NewLimits(s)),
                CacheStructureData(s), 1)

LEMMA EvalUpdatedType ==
  ASSUME DebyeAssumption, TypeInv, NEW s \in Structures, EvalUpdated(s)
  PROVE  TypeInv'
<1> DEFINE last == mlast_structure
           before == Rcalc(config, mrlimits_are_cached)
           popped == WithPairs(mvalue.ledger, last, WithinRange(last, Changed(last, s), before),
                               mstructure_cache, -1)
<1>1. last \in Structures
  BY DEF EvalUpdated, FastPath, TypeInv, TypeOK
<1>2. popped \in [DOMAIN NoLedger -> Int]
  BY <1>1, ChangedIn, WithPairsType DEF TypeInv, TypeOK
<1>3. Updated(s) \in [DOMAIN NoLedger -> Int]
  <2> HIDE DEF popped, last
  <2>1. WithPairs(popped, s, WithinRange(s, Changed(s, last), NewLimits(s)),
                  CacheStructureData(s), 1) \in [DOMAIN NoLedger -> Int]
    BY <1>2, ChangedIn, WithPairsType
  <2> QED
    BY <2>1 DEF Updated, popped, last
<1>4. /\ config.qmax # 0 /\ ResetValue(s)
      /\ mstructure_cache' = CacheStructureData(s) /\ mlast_structure' = s
      /\ mvalue' = [size |-> Resized(s), ledger |-> Updated(s)]
      /\ clicked' \in BOOLEAN /\ settled' \in BOOLEAN /\ shifted' \in BOOLEAN
      /\ rescaled' \in BOOLEAN
  BY DEF EvalUpdated, Updated, TypeInv
<1> QED
  BY <1>3, <1>4, EvaluatedType

LEMMA EvalThrowsType ==
  ASSUME DebyeAssumption, TypeInv, NEW s \in Structures, EvalThrows(s)
  PROVE  TypeInv'
<1>1. GridType' /\ mstructure' = s /\ config' = config
  BY ResetLimits DEF EvalThrows
<1>2. /\ clicked /\ clicked' = clicked /\ settled' = FALSE
      /\ UNCHANGED <<mstructure_cache, mvalue, mlast_structure, shifted, rescaled>>
  BY DEF EvalThrows, TypeInv
<1>3. CacheStructureData(mlast_structure)' = CacheStructureData(mlast_structure)
  BY <1>2
<1>4. DOMAIN NoLedger' = DOMAIN NoLedger /\ SiteTypes' = SiteTypes
  OBVIOUS
<1> QED
  BY <1>1, <1>2, <1>3, <1>4 DEF TypeInv, TypeOK, GridType

LEMMA SettersType ==
  ASSUME DebyeAssumption, TypeInv,
         \/ \E r \in Rmins : SetRmin(r)
         \/ \E r \in Rmaxes : SetRmax(r)
         \/ \E r \in Rsteps : SetRstep(r)
         \/ \E q \in Qmaxes : SetQmax(q)
         \/ \E q \in Qsteps : SetQstep(q)
         \/ SetOptimumQstep
         \/ \E x \in Extensions : SetMaxExtension(x)
         \/ \E w \in Widths : SetPeakWidth(w)
  PROVE  TypeInv'
<1> USE DEF Configs
<1>0. /\ config \in Configs /\ mrlimits_are_cached \in BOOLEAN
      /\ mqstep \in Nat \ {0} /\ moptimumqstep \in BOOLEAN /\ clicked \in BOOLEAN
      /\ settled \in BOOLEAN /\ rescaled \in BOOLEAN
      /\ mrcalclosteps \in Nat /\ mrcalchisteps \in Nat
  BY DEF TypeInv, TypeOK
<1>1. ASSUME NEW r \in Rmins, SetRmin(r) PROVE TypeInv'
  <2>1. GridType' /\ clicked' = TRUE /\ settled' = FALSE /\ UNCHANGED <<sum, rescaled>>
    BY <1>0, <1>1 DEF SetRmin, GridType, qgrid
  <2> QED
    BY <1>0, <2>1, SetterType
<1>2. ASSUME NEW c \in Configs, NEW kept \in BOOLEAN, NEW click \in BOOLEAN,
             NEW step \in Nat \ {0}, NEW optimum \in BOOLEAN,
             QstepFollows(c, kept, step, optimum, click), click \/ c = config
      PROVE  TypeInv'
  <2>1. /\ GridType' /\ config' = c /\ clicked' \in BOOLEAN /\ settled' = FALSE
        /\ (~clicked' => ~clicked /\ ~click) /\ UNCHANGED <<sum, rescaled>>
    BY <1>2, FollowedQstep
  <2> QED
    BY <1>0, <1>2, <2>1, SetterType
<1>3. ASSUME NEW r \in Rmaxes, SetRmax(r) PROVE TypeInv'
  <2>1. [config EXCEPT !.rmax = r] \in Configs
    BY <1>0
  <2> QED
    BY <1>0, <1>2, <1>3, <2>1 DEF SetRmax
<1>4. ASSUME NEW r \in Rsteps, SetRstep(r) PROVE TypeInv'
  <2>1. /\ GridType' /\ config'.qmax = config.qmax /\ UNCHANGED <<sum, clicked, settled>>
        /\ rescaled' = TRUE
    BY <1>0, <1>4 DEF SetRstep, GridType, qgrid
  <2> QED
    BY <1>0, <2>1, SetterType
<1>5. ASSUME NEW q \in Qmaxes, SetQmax(q) PROVE TypeInv'
  <2>1. [config EXCEPT !.qmax = q] \in Configs
    BY <1>0
  <2> QED
    BY <1>0, <1>2, <1>5, <2>1 DEF SetQmax
<1>6. ASSUME NEW q \in Qsteps, SetQstep(q) PROVE TypeInv'
  <2>1. q \in Nat \ {0} /\ (q # mqstep) \in BOOLEAN
    BY DEF DebyeAssumption
  <2> QED
    BY <1>0, <1>2, <1>6, <2>1 DEF SetQstep
<1>7. CASE SetOptimumQstep
  BY <1>0, <1>2, <1>7 DEF SetOptimumQstep
<1>8. ASSUME NEW x \in Extensions, SetMaxExtension(x) PROVE TypeInv'
  <2>1. [config EXCEPT !.maxextension = x] \in Configs
    BY <1>0
  <2> QED
    BY <1>0, <1>2, <1>8, <2>1 DEF SetMaxExtension
<1>9. ASSUME NEW w \in Widths, SetPeakWidth(w) PROVE TypeInv'
  <2>1. GridType' /\ clicked' = TRUE /\ settled' = FALSE /\ UNCHANGED <<sum, rescaled>>
    BY <1>0, <1>9 DEF SetPeakWidth, GridType, limits, qgrid
  <2> QED
    BY <1>0, <2>1, SetterType
<1> QED
  BY <1>1, <1>3, <1>4, <1>5, <1>6, <1>7, <1>8, <1>9

LEMMA NextType ==
  ASSUME DebyeAssumption, TypeInv, [Next]_vars
  PROVE  TypeInv'
<1>1. CASE UNCHANGED vars
  <2>1. CacheStructureData(mlast_structure)' = CacheStructureData(mlast_structure)
    BY <1>1 DEF vars, sum
  <2>2. DOMAIN NoLedger' = DOMAIN NoLedger /\ SiteTypes' = SiteTypes
    OBVIOUS
  <2> QED
    BY <1>1, <2>1, <2>2 DEF vars, limits, qgrid, sum, TypeInv, TypeOK
<1>2. ASSUME NEW s \in Structures, EvalCompletely(s) \/ EvalUpdated(s) \/ EvalThrows(s)
      PROVE  TypeInv'
  BY <1>2, EvalCompletelyType, EvalUpdatedType, EvalThrowsType
<1> QED
  BY <1>1, <1>2, SettersType DEF Next

LEMMA InitType ==
  ASSUME DebyeAssumption, Init
  PROVE  /\ TypeInv
         /\ mrcalchisteps * config.rstep =< mqstep
         /\ config.rmax + ExtTotal(config, NoStructure) =< mrcalchisteps * config.rstep
<1>1. config \in Configs /\ config.qmax # 0
  BY DEF Init, DebyeAssumption, Configs
<1>2. NoStructure \in Structures /\ NoLast \notin Structures
  BY DEF DebyeAssumption
<1>3. /\ mrcalclosteps \in Nat /\ mrcalchisteps \in Nat
      /\ config.rmax + ExtTotal(config, NoStructure) =< mrcalchisteps * config.rstep
  BY <1>1, <1>2, LimitsSpan DEF Init
<1>4. mqstep \in Nat \ {0} /\ mrcalchisteps * config.rstep =< mqstep
  <2> DEFINE a == mrcalchisteps * config.rstep
             b == 4 * config.qmax
  <2>1. config.rstep \in Nat /\ config.qmax \in Nat
    BY <1>1, ConfigType
  <2>2. a \in Nat /\ b \in Nat \ {0}
    BY <1>1, <1>3, <2>1
  <2>3. mqstep = Max({a, b})
    BY DEF Init, OptimumQstep
  <2> HIDE DEF a, b
  <2>4. mqstep = IF a =< b THEN b ELSE a
    BY <2>2, <2>3, MaxOfTwo
  <2>5. mqstep \in Nat \ {0} /\ a =< mqstep
    BY <2>2, <2>4
  <2> QED
    BY <2>5 DEF a
<1>5. QmaxSteps(config, mqstep) \in Nat
  BY <1>1, <1>4, QmaxStepsType
<1>6. CacheStructureData(NoStructure) \in [SiteTypes -> Nat]
  BY <1>2, FactorsType
<1> QED
  BY <1>1, <1>2, <1>3, <1>4, <1>5, <1>6, NoLedgerType DEF Init, TypeInv, TypeOK

-----------------------------------------------------------------------------
(* The sum.                                                                *)

(* The pairs of s that an entry counts, with steps of size r. *)
Count(s, l, r, e) ==
  Cardinality({p \in SitePairs(s) : /\ l.lo * r =< Distance(s, p) /\ Distance(s, p) =< l.hi * r
                                    /\ e = <<Distance(s, p), OwnWeight(s, p)>>})

LEMMA CountIs ==
  ASSUME NEW s, NEW l, NEW e
  PROVE  Cardinality(Of(s, WithinRange(s, SitePairs(s), l), e)) = Count(s, l, config.rstep, e)
<1>1. Of(s, WithinRange(s, SitePairs(s), l), e)
        = {p \in SitePairs(s) : /\ l.lo * config.rstep =< Distance(s, p)
                                /\ Distance(s, p) =< l.hi * config.rstep
                                /\ e = <<Distance(s, p), OwnWeight(s, p)>>}
  BY DEF Of, WithinRange
<1> QED
  BY <1>1 DEF Count

Cached0 == [lo |-> mrcalclosteps, hi |-> mrcalchisteps]

(* The distances that the user asks for, in whole steps. *)
Asked == (CeilDiv(config.rmin, config.rstep) * config.rstep)..config.rmax

Carried == ~clicked /\ ~rescaled /\ mlast_structure # NoLast

(***************************************************************************)
(* FreshSumIsSum is not inductive: an update starts from the limits that   *)
(* are cached and the pairs within them.  While a sum can be carried over, *)
(* these limits stay, and span what the user asks for.                     *)
(***************************************************************************)
SumInv ==
  Carried =>
    /\ mrlimits_are_cached = TRUE
    /\ mrcalclosteps * config.rstep =< CeilDiv(config.rmin, config.rstep) * config.rstep
    /\ config.rmax =< mrcalchisteps * config.rstep
    /\ Uniform =>
         \A e \in DOMAIN NoLedger :
           \/ mvalue.ledger[e] = Count(mlast_structure, Cached0, config.rstep, e)
           \/ shifted /\ e[1] \notin Asked

(* Limits that span what is asked for do not differ about it. *)
LEMMA AskedInside ==
  ASSUME DebyeAssumption, TypeInv, NEW l, l.lo \in Nat, l.hi \in Nat,
         l.lo * config.rstep =< CeilDiv(config.rmin, config.rstep) * config.rstep,
         config.rmax =< l.hi * config.rstep, NEW d \in Asked
  PROVE  Inside(d, l)
<1>1. config.rmin \in Nat /\ config.rmax \in Nat /\ config.rstep \in Nat \ {0}
  BY ConfigType DEF TypeInv
<1>2. CeilDiv(config.rmin, config.rstep) \in Nat
  BY <1>1, CeilType
<1>3. /\ l.lo * config.rstep \in Int /\ l.hi * config.rstep \in Int
      /\ CeilDiv(config.rmin, config.rstep) * config.rstep \in Int
  BY <1>1, <1>2
<1> QED
  BY <1>1, <1>3 DEF Asked, Inside

LEMMA EvaluatedLimits ==
  ASSUME DebyeAssumption, TypeInv, NEW s \in Structures, ResetValue(s)
  PROVE  /\ config' = config /\ mrlimits_are_cached' = TRUE /\ mstructure' = s
         /\ NewLimits(s).lo \in Nat /\ NewLimits(s).hi \in Nat
         /\ Cached0' = [lo |-> NewLimits(s).lo, hi |-> NewLimits(s).hi]
         /\ NewLimits(s).lo * config.rstep =< CeilDiv(config.rmin, config.rstep) * config.rstep
         /\ config.rmax =< NewLimits(s).hi * config.rstep
<1> DEFINE l == NewLimits(s)
<1>1. /\ GridType' /\ mstructure' = s /\ config' = config /\ mrlimits_are_cached' = TRUE
      /\ mrcalclosteps' = l.lo /\ mrcalchisteps' = l.hi
      /\ l.lo * config.rstep =< CeilDiv(config.rmin, config.rstep) * config.rstep
      /\ config.rmax + ExtTotal(config, s) =< l.hi * config.rstep
  BY ResetLimits
<1>2. l.lo \in Nat /\ l.hi \in Nat
  BY <1>1 DEF GridType
<1>3. config.rmax \in Nat /\ config.rstep \in Nat /\ ExtTotal(config, s) \in Nat
  BY ConfigType, ExtTotalType DEF TypeInv
<1> HIDE DEF l
<1>4. l.hi * config.rstep \in Int
  BY <1>2, <1>3
<1>5. config.rmax =< l.hi * config.rstep
  BY <1>1, <1>3, <1>4
<1> QED
  BY <1>1, <1>2, <1>5 DEF l, Cached0

LEMMA SameCount ==
  ASSUME NEW s, NEW l, NEW r, NEW e
  PROVE  Count(s, [lo |-> l.lo, hi |-> l.hi], r, e) = Count(s, l, r, e)
BY DEF Count

LEMMA EvalCompletelySum ==
  ASSUME DebyeAssumption, TypeInv, NEW s \in Structures, EvalCompletely(s)
  PROVE  SumInv'
<1> DEFINE l == NewLimits(s)
           all == WithinRange(s, SitePairs(s), l)
           factor == CacheStructureData(s)
<1>1. /\ config' = config /\ mrlimits_are_cached' = TRUE
      /\ Cached0' = [lo |-> l.lo, hi |-> l.hi] /\ l.lo \in Nat /\ l.hi \in Nat
      /\ l.lo * config.rstep =< CeilDiv(config.rmin, config.rstep) * config.rstep
      /\ config.rmax =< l.hi * config.rstep
  BY EvaluatedLimits DEF EvalCompletely
<1>2. mrcalclosteps' = l.lo /\ mrcalchisteps' = l.hi
  BY <1>1 DEF Cached0
<1>3. mlast_structure' = s /\ mvalue'.ledger = WithPairs(NoLedger, s, all, factor, 1)
  BY DEF EvalCompletely
<1>4. ASSUME Uniform, NEW e \in DOMAIN NoLedger
      PROVE  WithPairs(NoLedger, s, all, factor, 1)[e] = Count(s, l, config.rstep, e)
  <2>1. all \in SUBSET SitePairs(s)
    BY ChangedIn
  <2>2. WithPairs(NoLedger, s, all, factor, 1)[e] = NoLedger[e] + 1 * Cardinality(Of(s, all, e))
    BY <1>4, <2>1, WithOwnPairs
  <2>3. Cardinality(Of(s, all, e)) \in Nat
    <3>1. Of(s, all, e) \in SUBSET SitePairs(s)
      BY <2>1 DEF Of
    <3> QED
      BY <3>1, PairsFinite
  <2>4. NoLedger[e] = 0
    BY <1>4 DEF NoLedger
  <2>5. WithPairs(NoLedger, s, all, factor, 1)[e] = Cardinality(Of(s, all, e))
    BY <2>2, <2>3, <2>4
  <2> QED
    BY <2>5, CountIs
<1>5. ASSUME Uniform, NEW e \in DOMAIN NoLedger
      PROVE  mvalue'.ledger[e] = Count(mlast_structure', Cached0', config'.rstep, e)
  BY <1>1, <1>3, <1>4, <1>5, SameCount
<1>6. DOMAIN NoLedger' = DOMAIN NoLedger /\ Uniform' = Uniform
  OBVIOUS
<1> HIDE DEF l
<1> QED
  BY <1>1, <1>2, <1>5, <1>6 DEF SumInv

LEMMA EvalUpdatedSum ==
  ASSUME DebyeAssumption, TypeInv, SumInv, NEW s \in Structures, EvalUpdated(s)
  PROVE  SumInv'
<1> SUFFICES ASSUME ~rescaled
             PROVE  SumInv'
  BY DEF SumInv, Carried, EvalUpdated
<1> DEFINE l == NewLimits(s)
           last == mlast_structure
           r == config.rstep
           removed == WithinRange(last, Changed(last, s), Cached0)
           added == WithinRange(s, Changed(s, last), l)
           popped == WithPairs(mvalue.ledger, last, removed, mstructure_cache, -1)
<1>1. /\ config' = config /\ mrlimits_are_cached' = TRUE
      /\ Cached0' = [lo |-> l.lo, hi |-> l.hi] /\ l.lo \in Nat /\ l.hi \in Nat
      /\ l.lo * config.rstep =< CeilDiv(config.rmin, config.rstep) * config.rstep
      /\ config.rmax =< l.hi * config.rstep
  BY EvaluatedLimits DEF EvalUpdated
<1>2. mrcalclosteps' = l.lo /\ mrcalchisteps' = l.hi
  BY <1>1 DEF Cached0
<1>3. Carried /\ last \in Structures /\ mstructure_cache = CacheStructureData(last)
  BY DEF EvalUpdated, FastPath, Carried, TypeInv, TypeOK
<1>4. Rcalc(config, mrlimits_are_cached) = Cached0
  BY <1>3 DEF SumInv, Rcalc, Cached0
<1>5. /\ mlast_structure' = s /\ mvalue'.ledger = Updated(s)
      /\ shifted' = (shifted \/ l # Cached0)
  BY <1>4 DEF EvalUpdated, Updated
<1>6. /\ Cached0.lo \in Nat /\ Cached0.hi \in Nat
      /\ Cached0.lo * config.rstep =< CeilDiv(config.rmin, config.rstep) * config.rstep
      /\ config.rmax =< Cached0.hi * config.rstep
  BY <1>3 DEF SumInv, Cached0, TypeInv, TypeOK
<1>7. ASSUME Uniform, NEW e \in DOMAIN NoLedger
      PROVE  \/ Updated(s)[e] = Count(s, l, r, e)
             \/ shifted' /\ e[1] \notin Asked
  <2>1. CASE shifted' /\ e[1] \notin Asked
    BY <2>1
  <2>2. CASE ~(shifted' /\ e[1] \notin Asked)
    <3>1. Inside(e[1], Cached0) <=> Inside(e[1], l)
      <4>1. CASE e[1] \in Asked
        BY <1>1, <1>6, <4>1, AskedInside
      <4>2. CASE ~shifted'
        BY <1>5, <4>2
      <4> QED
        BY <2>2, <4>1, <4>2
    <3>2. mvalue.ledger[e] = Count(last, Cached0, r, e)
      BY <1>3, <1>5, <1>7, <2>2 DEF SumInv
    <3>3. removed \in SUBSET SitePairs(last) /\ added \in SUBSET SitePairs(s)
      BY ChangedIn
    <3>4. mvalue.ledger \in [DOMAIN NoLedger -> Int]
      BY DEF TypeInv, TypeOK
    <3>5. popped[e] = mvalue.ledger[e] + (-1) * Cardinality(Of(last, removed, e))
      BY <1>3, <1>7, <3>3, <3>4, WithOwnPairs
    <3>6. e \in DOMAIN popped
      BY <1>7, <3>4 DEF WithPairs
    <3>7. Updated(s) = WithPairs(popped, s, added, CacheStructureData(s), 1)
      BY <1>4 DEF Updated
    <3>8. Updated(s)[e] = popped[e] + 1 * Cardinality(Of(s, added, e))
      <4> HIDE DEF popped, added
      <4>1. added \in SUBSET SitePairs(s)
        BY <3>3
      <4> QED
        BY <1>7, <3>6, <3>7, <4>1, WithOwnPairs
    <3>9. Count(s, l, r, e) = Count(last, Cached0, r, e) - Cardinality(Of(last, removed, e))
                                + Cardinality(Of(s, added, e))
      BY <1>3, <3>1, UpdateBalances, CountIs
    <3>10. /\ Cardinality(Of(last, removed, e)) \in Nat /\ Cardinality(Of(s, added, e)) \in Nat
           /\ mvalue.ledger[e] \in Int
      <4>1. Of(last, removed, e) \in SUBSET SitePairs(last) /\ Of(s, added, e) \in SUBSET SitePairs(s)
        BY <3>3 DEF Of
      <4> QED
        BY <1>3, <1>7, <3>4, <4>1, PairsFinite
    <3> HIDE DEF removed, added, popped, l, r, last
    <3> QED
      BY <3>2, <3>5, <3>8, <3>9, <3>10
  <2> QED
    BY <2>1, <2>2
<1>8. ASSUME Uniform, NEW e \in DOMAIN NoLedger
      PROVE  \/ mvalue'.ledger[e] = Count(mlast_structure', Cached0', config'.rstep, e)
             \/ shifted' /\ e[1] \notin Asked'
  <2>1. Asked' = Asked
    BY <1>1 DEF Asked
  <2>2. Count(mlast_structure', Cached0', config'.rstep, e) = Count(s, l, r, e)
    BY <1>1, <1>5, SameCount
  <2> QED
    BY <1>5, <1>7, <1>8, <2>1, <2>2
<1>9. DOMAIN NoLedger' = DOMAIN NoLedger /\ Uniform' = Uniform
  OBVIOUS
<1> HIDE DEF l
<1> QED
  BY <1>1, <1>2, <1>8, <1>9 DEF SumInv

(* Any other step keeps the sum, or tells that it is stale. *)
LEMMA SumStays ==
  ASSUME SumInv, UNCHANGED sum,
         Carried' => Carried /\ UNCHANGED <<config, limits>>
  PROVE  SumInv'
<1> SUFFICES ASSUME Carried'
             PROVE  SumInv'
  BY DEF SumInv
<1>1. Carried /\ UNCHANGED <<config, mrcalclosteps, mrcalchisteps, mrlimits_are_cached, mvalue,
                             mlast_structure, shifted>>
  BY DEF limits, sum
<1>2. /\ DOMAIN NoLedger' = DOMAIN NoLedger /\ Uniform' = Uniform
      /\ Asked' = Asked /\ Cached0' = Cached0
  BY <1>1 DEF Asked, Cached0
<1> QED
  BY <1>1, <1>2 DEF SumInv

LEMMA SettersSum ==
  ASSUME DebyeAssumption, TypeInv, SumInv,
         \/ \E r \in Rmins : SetRmin(r)
         \/ \E r \in Rmaxes : SetRmax(r)
         \/ \E r \in Rsteps : SetRstep(r)
         \/ \E q \in Qmaxes : SetQmax(q)
         \/ \E q \in Qsteps : SetQstep(q)
         \/ SetOptimumQstep
         \/ \E x \in Extensions : SetMaxExtension(x)
         \/ \E w \in Widths : SetPeakWidth(w)
  PROVE  SumInv'
<1>1. ASSUME UNCHANGED sum, clicked' = TRUE \/ rescaled' = TRUE
      PROVE  SumInv'
  BY <1>1, SumStays DEF Carried
<1>2. ASSUME NEW c, NEW kept, NEW step, NEW optimum,
             QstepFollows(c, kept, step, optimum, TRUE)
      PROVE  SumInv'
  BY <1>1, <1>2 DEF QstepFollows
<1>3. ASSUME NEW step \in Nat \ {0}, NEW optimum \in BOOLEAN, NEW click \in BOOLEAN,
             QstepFollows(config, mrlimits_are_cached, step, optimum, click)
      PROVE  SumInv'
  <2>1. config \in Configs /\ mrlimits_are_cached \in BOOLEAN
    BY DEF TypeInv
  <2>2. /\ config' = config /\ mrlimits_are_cached' = TRUE
        /\ mrcalclosteps' = Rcalc(config, mrlimits_are_cached).lo
        /\ mrcalchisteps' = Rcalc(config, mrlimits_are_cached).hi
        /\ ~clicked' => ~clicked
        /\ UNCHANGED <<sum, rescaled>>
    BY <1>3, <2>1, FollowedQstep
  <2>3. ASSUME Carried'
        PROVE  Carried /\ UNCHANGED <<config, limits>>
    <3>1. Carried
      BY <2>2, <2>3 DEF Carried, sum
    <3>2. mrlimits_are_cached = TRUE
      BY <3>1 DEF SumInv
    <3> QED
      BY <2>2, <3>1, <3>2 DEF Rcalc, limits
  <2> QED
    BY <2>2, <2>3, SumStays
<1>4. ASSUME NEW q \in Qsteps, SetQstep(q) PROVE SumInv'
  <2>1. q \in Nat \ {0} /\ (q # mqstep) \in BOOLEAN
    BY DEF DebyeAssumption
  <2> QED
    BY <1>3, <1>4, <2>1 DEF SetQstep
<1>5. CASE SetOptimumQstep
  BY <1>3, <1>5 DEF SetOptimumQstep, TypeInv, TypeOK
<1>6. ASSUME NEW r, SetRmin(r) \/ SetRstep(r) \/ SetPeakWidth(r) PROVE SumInv'
  BY <1>1, <1>6 DEF SetRmin, SetRstep, SetPeakWidth
<1>7. ASSUME NEW r, SetRmax(r) \/ SetQmax(r) \/ SetMaxExtension(r) PROVE SumInv'
  BY <1>2, <1>7 DEF SetRmax, SetQmax, SetMaxExtension
<1> QED
  BY <1>4, <1>5, <1>6, <1>7

LEMMA NextSum ==
  ASSUME DebyeAssumption, TypeInv, SumInv, [Next]_vars
  PROVE  SumInv'
<1>1. CASE UNCHANGED vars
  BY <1>1, SumStays DEF vars, Carried, sum
<1>2. ASSUME NEW s \in Structures, EvalThrows(s)
      PROVE  SumInv'
  BY <1>2 DEF EvalThrows, TypeInv, SumInv, Carried
<1> QED
  BY <1>1, <1>2, EvalCompletelySum, EvalUpdatedSum, SettersSum DEF Next

(* FreshSumIsSum compares the ledger with this very count. *)
LEMMA SumIsFresh ==
  ASSUME DebyeAssumption, TypeInv, SumInv
  PROVE  FreshSumIsSum
<1> SUFFICES ASSUME Uniform, Fresh, NEW e \in DOMAIN NoLedger
             PROVE  \/ mvalue.ledger[e] = WholeSum[e]
                    \/ shifted /\ e[1] \notin Asked
  BY DEF FreshSumIsSum, Asked
<1>1. Carried
  BY DEF Fresh, Carried
<1>2. Rcalc(config, mrlimits_are_cached) = Cached0
  BY <1>1 DEF SumInv, Rcalc, Cached0
<1>3. WholeSum[e] = Cardinality(Of(mlast_structure,
                                   WithinRange(mlast_structure, SitePairs(mlast_structure), Cached0), e))
  BY <1>2 DEF WholeSum, DebyeSum, Of
<1>4. WholeSum[e] = Count(mlast_structure, Cached0, config.rstep, e)
  BY <1>3, CountIs
<1> QED
  BY <1>1, <1>4 DEF SumInv

-----------------------------------------------------------------------------
(* Reads.                                                                  *)

(***************************************************************************)
(* ReadsInside for any length of the array that fftftog may make: if it    *)
(* gives steps of at most rstep, the point above the one asked for is in   *)
(* the array.                                                              *)
(***************************************************************************)
SettledReads ==
  settled =>
    /\ mvalue.size = QmaxSteps(config, mqstep)
    /\ ~rescaled => mrcalchisteps * config.rstep =< mqstep
    /\ ExtTotal(config, mstructure) >= config.rstep =>
         \A k \in Rgrid, n \in Nat :
           mqstep =< n * config.rstep => (k * config.rstep * n) \div mqstep + 1 < n

(* What the power of two is chosen for: steps of the transform are at most rstep. *)
FineEnough == TransformSize \in Nat /\ mqstep =< TransformSize * config.rstep

(* The Q-step stays fine enough when rstep, and the limits, are changed. *)
ReadInv ==
  settled =>
    /\ mvalue.size = QmaxSteps(config, mqstep)
    /\ ~rescaled => mrcalchisteps * config.rstep =< mqstep
    /\ config.rmax + ExtTotal(config, mstructure) =< mqstep

LEMMA EvaluatedReads ==
  ASSUME DebyeAssumption, TypeInv, NEW s \in Structures, ResetValue(s), config.qmax # 0,
         mvalue'.size = Resized(s)
  PROVE  ReadInv'
<1>1. /\ GridType' /\ mstructure' = s /\ config' = config
      /\ config.rmax + ExtTotal(config, s) =< mrcalchisteps' * config.rstep
      /\ mrcalchisteps' * config.rstep =< mqstep'
  BY ResetLimits
<1>2. mqstep' = NewQstep(s).step
  BY DEF ResetValue
<1>3. /\ mqstep' \in Nat /\ mrcalchisteps' \in Nat /\ config.rstep \in Nat
      /\ config.rmax \in Nat /\ ExtTotal(config, s) \in Nat
  BY <1>1, ConfigType, ExtTotalType DEF GridType, TypeInv
<1>4. mrcalchisteps' * config.rstep \in Nat
  BY <1>3
<1>5. config.rmax + ExtTotal(config, s) =< mqstep'
  BY <1>1, <1>3, <1>4
<1>6. mvalue'.size = QmaxSteps(config', mqstep')
  BY <1>1, <1>2 DEF Resized
<1> QED
  BY <1>1, <1>5, <1>6 DEF ReadInv

LEMMA NextReads ==
  ASSUME DebyeAssumption, TypeInv, ReadInv, [Next]_vars
  PROVE  ReadInv'
<1>1. ASSUME settled' = FALSE PROVE ReadInv'
  BY <1>1 DEF ReadInv
<1>2. CASE UNCHANGED vars
  BY <1>2 DEF vars, sum, limits, qgrid, ReadInv
<1>3. ASSUME NEW s \in Structures, EvalCompletely(s) PROVE ReadInv'
  BY <1>3, EvaluatedReads DEF EvalCompletely
<1>4. ASSUME NEW s \in Structures, EvalUpdated(s) PROVE ReadInv'
  BY <1>4, EvaluatedReads DEF EvalUpdated
<1>5. ASSUME NEW s \in Structures, EvalThrows(s) PROVE ReadInv'
  BY <1>1, <1>5 DEF EvalThrows
<1>6. ASSUME NEW r \in Rsteps, SetRstep(r) PROVE ReadInv'
  <2>1. /\ config' = [config EXCEPT !.rstep = r] /\ rescaled' = TRUE
        /\ UNCHANGED <<mvalue, mqstep, mstructure, settled>>
    BY <1>6 DEF SetRstep, qgrid, sum
  <2>2. config \in Configs
    BY DEF TypeInv
  <2>3. /\ config'.rmax = config.rmax /\ config'.qmax = config.qmax
        /\ config'.maxextension = config.maxextension /\ config'.width = config.width
    BY <2>1, <2>2 DEF Configs
  <2>4. ExtTotal(config', mstructure) = ExtTotal(config, mstructure)
    BY <2>3 DEF ExtTotal
  <2>5. QmaxSteps(config', mqstep) = QmaxSteps(config, mqstep)
    BY <2>3 DEF QmaxSteps
  <2> QED
    BY <2>1, <2>3, <2>4, <2>5 DEF ReadInv
<1>7. ASSUME NEW r, SetRmin(r) \/ SetRmax(r) \/ SetQmax(r) \/ SetQstep(r)
                      \/ SetOptimumQstep \/ SetMaxExtension(r) \/ SetPeakWidth(r)
      PROVE  ReadInv'
  BY <1>1, <1>7 DEF SetRmin, SetRmax, SetQmax, SetQstep, SetOptimumQstep, SetMaxExtension,
                    SetPeakWidth, QstepFollows
<1> QED
  BY <1>2, <1>3, <1>4, <1>5, <1>6, <1>7 DEF Next

(* The point above k steps of r is within n points that end beyond m. *)
LEMMA NeighborInside ==
  ASSUME NEW x \in Nat, NEW r \in Nat \ {0}, NEW m \in Nat \ {0}, NEW n \in Nat,
         x + r < m, m =< n * r
  PROVE  (x * n) \div m + 1 < n
<1> DEFINE q == (x * n) \div m
<1>1. x * n \in Nat /\ n * r \in Nat /\ n # 0
  BY 0 * r = 0
<1>2. q \in Int /\ q * m =< x * n
  BY <1>1, DivBounds
<1> HIDE DEF q
<1>3. ASSUME n - 1 =< q PROVE FALSE
  <2>1. (n - 1) * m =< q * m /\ (n - 1) * m \in Int /\ q * m \in Int
    BY <1>2, <1>3, Times
  <2>2. x * n =< (m - r - 1) * n
    BY Times
  <2>3. (m - r - 1) * n = m * n - n * r - n /\ (n - 1) * m = m * n - m /\ m * n \in Int
    OBVIOUS
  <2> QED
    BY <1>1, <1>2, <2>1, <2>2, <2>3
<1> QED
  BY <1>2, <1>3 DEF q

LEMMA ReadsAreInside ==
  ASSUME DebyeAssumption, TypeInv, ReadInv
  PROVE  SettledReads
<1> SUFFICES ASSUME settled, ExtTotal(config, mstructure) >= config.rstep,
                    NEW k \in Rgrid, NEW n \in Nat, mqstep =< n * config.rstep
             PROVE  (k * config.rstep * n) \div mqstep + 1 < n
  BY DEF SettledReads, ReadInv
<1> DEFINE r == config.rstep
           x == ExtTotal(config, mstructure)
<1>1. /\ config.rmin \in Nat /\ config.rmax \in Nat /\ r \in Nat \ {0} /\ x \in Nat
      /\ mqstep \in Nat \ {0}
  BY ConfigType, ExtTotalType DEF TypeInv, TypeOK
<1>2. config.rmax + x =< mqstep
  BY DEF ReadInv
<1>3. CeilDiv(config.rmin, config.rstep) \in Nat /\ CeilDiv(config.rmax, config.rstep) \in Nat
  BY <1>1, CeilType
<1>4. k \in Nat /\ k < CeilDiv(config.rmax, config.rstep)
  BY <1>3 DEF Rgrid
<1>5. k * config.rstep < config.rmax
  BY <1>1, <1>4, BelowCeil
<1> HIDE DEF x
<1>6. k * r \in Nat
  BY <1>1, <1>4
<1>7. k * r < config.rmax /\ r =< x
  BY <1>5 DEF x
<1> HIDE DEF r
<1>8. k * r + r < mqstep
  BY <1>1, <1>2, <1>6, <1>7
<1>9. (k * r * n) \div mqstep + 1 < n
  BY <1>1, <1>6, <1>8, NeighborInside DEF r
<1> QED
  BY <1>9 DEF r

LEMMA StepsAreFine ==
  ASSUME DebyeAssumption, TypeInv
  PROVE  FineEnough
<1> DEFINE steps == CeilDiv(mqstep, config.rstep)
           padded == Max({mvalue.size, steps})
           Enough(k) == 2 ^ k >= padded /\ \A j \in 0..(k - 1) : 2 ^ j < padded
           k == CHOOSE k \in 0..padded : Enough(k)
<1>1. mqstep \in Nat /\ config.rstep \in Nat \ {0} /\ mvalue.size \in Nat
  BY ConfigType DEF TypeInv, TypeOK
<1>2. steps \in Nat /\ mqstep =< steps * config.rstep
  <2>1. mqstep \in Int /\ CeilDiv(mqstep, config.rstep) \in Nat
    BY <1>1, CeilType
  <2>2. mqstep =< CeilDiv(mqstep, config.rstep) * config.rstep
    BY <1>1, <2>1, CeilBounds
  <2> QED
    BY <2>1, <2>2
<1>3. TransformSize = 2 ^ k
  BY DEF TransformSize
<1> HIDE DEF steps
<1>4. padded \in Nat /\ steps =< padded
  BY <1>1, <1>2, MaxOfTwo
<1> HIDE DEF padded
<1>5. \E l \in 0..padded : Enough(l)
  BY <1>4, FirstPower
<1>6. k \in 0..padded /\ Enough(k)
  BY <1>5
<1> HIDE DEF k
<1>7. 2 ^ k \in Nat
  BY <1>4, <1>6, PowerExceeds
<1> DEFINE size == 2 ^ k
<1>8. size \in Nat /\ steps =< size
  BY <1>2, <1>4, <1>6, <1>7
<1> HIDE DEF size, Enough
<1>9. steps * config.rstep =< size * config.rstep /\ steps * config.rstep \in Int
      /\ size * config.rstep \in Int
  BY <1>1, <1>2, <1>8, Times
<1>10. mqstep =< size * config.rstep
  BY <1>1, <1>2, <1>9
<1> QED
  BY <1>3, <1>8, <1>10 DEF FineEnough, size

-----------------------------------------------------------------------------
(* Theorems.                                                               *)

(* Limits, Q-step, factors and sum keep their types. *)
THEOREM TypeCorrect ==
  ASSUME DebyeAssumption
  PROVE  Spec => []TypeOK
<1>1. Init => TypeInv
  BY InitType
<1>2. TypeInv /\ [Next]_vars => TypeInv'
  BY NextType
<1>3. TypeInv => TypeOK
  BY DEF TypeInv
<1> QED
  BY <1>1, <1>2, <1>3, PTL DEF Spec

(***************************************************************************)
(* A value that is not stale is the sum over the pairs of the structure,   *)
(* each once, however limits have drifted over updates; apart from the     *)
(* margins of the range after an update that changed the limits            *)
(* (DebyePDFCalculator.cpp:377).                                           *)
(***************************************************************************)
THEOREM FreshSumIsAlwaysSum ==
  ASSUME DebyeAssumption
  PROVE  Spec => []FreshSumIsSum
<1>1. Init => TypeInv /\ SumInv
  BY InitType DEF Init, SumInv, Carried
<1>2. TypeInv /\ SumInv /\ [Next]_vars => (TypeInv /\ SumInv)'
  BY NextType, NextSum
<1>3. TypeInv /\ SumInv => FreshSumIsSum
  BY SumIsFresh
<1> QED
  BY <1>1, <1>2, <1>3, PTL DEF Spec

(***************************************************************************)
(* From an evaluation to the next setter but setRstep, getF finds a value  *)
(* for each point of its grid, the Q-step is fine enough for the range     *)
(* that was summed, and getPDFAtQmin stays in the transformed array; the   *)
(* next power of two is used for its length only as far as it makes steps  *)
(* of at most rstep (DebyePDFCalculator.cpp:266, 313).                     *)
(***************************************************************************)
THEOREM SettledReadsStayInside ==
  ASSUME DebyeAssumption
  PROVE  Spec => []ReadsInside
<1>1. Init => TypeInv /\ ReadInv
  <2> SUFFICES ASSUME Init
               PROVE  TypeInv /\ ReadInv
    OBVIOUS
  <2>1. /\ TypeInv /\ mrcalchisteps * config.rstep =< mqstep
        /\ config.rmax + ExtTotal(config, NoStructure) =< mrcalchisteps * config.rstep
    BY InitType
  <2>2. mstructure = NoStructure /\ mvalue.size = QmaxSteps(config, mqstep)
    BY DEF Init
  <2>3. /\ config.rstep \in Nat /\ config.rmax \in Nat /\ mrcalchisteps \in Nat /\ mqstep \in Nat
        /\ ExtTotal(config, NoStructure) \in Nat
    BY <2>1, ConfigType, ExtTotalType DEF TypeInv, TypeOK, DebyeAssumption
  <2>4. mrcalchisteps * config.rstep \in Nat
    BY <2>3
  <2>5. config.rmax + ExtTotal(config, mstructure) =< mqstep
    BY <2>1, <2>2, <2>3, <2>4
  <2> QED
    BY <2>1, <2>2, <2>5 DEF ReadInv
<1>2. TypeInv /\ ReadInv /\ [Next]_vars => (TypeInv /\ ReadInv)'
  BY NextType, NextReads
<1>3. TypeInv /\ ReadInv => SettledReads /\ FineEnough
  BY ReadsAreInside, StepsAreFine
<1>4. TypeInv /\ ReadInv => ReadsInside
  BY <1>3 DEF SettledReads, FineEnough, ReadsInside, UpperNeighbor
<1> QED
  BY <1>1, <1>2, <1>4, PTL DEF Spec
=============================================================================
