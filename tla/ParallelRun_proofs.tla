------------------------- MODULE ParallelRun_proofs --------------------------
(***************************************************************************)
(* The loops deal out their work to any number of CPUs without leaving     *)
(* anything out or doing anything twice, and what the workers sum up adds  *)
(* up to the complete sum, however often they have updated it in step.     *)
(***************************************************************************)
EXTENDS ParallelRun, PairSum_proofs, WellFoundedInduction

(* The shares of n CPUs are disjoint and make up a set of visits. *)
Partition(visits, share(_), n) ==
  /\ UNION {share(index) : index \in 0..n - 1} = visits
  /\ \A i, j \in 0..n - 1 : i # j => share(i) \cap share(j) = {}

(***************************************************************************)
(* The complete sum of any structure falls into disjoint shares, whether   *)
(* anchors are dealt out or bonds (PQEvaluator.cpp:106-122).               *)
(***************************************************************************)
THEOREM CompleteSharesPartition ==
  ASSUME NEW s \in Structures, NEW n \in Nat \ {0}
  PROVE  LET share(index) == CompleteShare(s, index, n)
         IN  Partition(Seen(s, s, NoMask, AllVisits(s)), share, n)
<1> DEFINE bonds == Seen(s, s, NoMask, AllVisits(s))
           share(index) == ShareOfAll(s, bonds, index, n)
<1>1. HasSites(s) /\ bonds \in SUBSET AllPairs(s)
  BY ParallelAssumption DEF HasSites, Seen, AllVisits, AllPairs
<1> HIDE DEF bonds
<1>2. /\ UNION {share(index) : index \in 0..n - 1} = bonds
      /\ \A i, j \in 0..n - 1 : i # j => share(i) \cap share(j) = {}
  BY <1>1, SharesPartition
<1> QED BY <1>2 DEF CompleteShare, Partition, bonds

(***************************************************************************)
(* Both loops of an update fall into disjoint shares as well, although the *)
(* second one goes on counting where the first one ended                   *)
(* (PQEvaluator.cpp:226, 280).                                             *)
(***************************************************************************)
THEOREM UpdateSharesPartition ==
  ASSUME NEW s \in Structures, NEW t \in Structures, NEW n \in Nat \ {0},
         NEW pop \in SUBSET Sites(s), NEW add \in SUBSET Sites(t)
  PROVE  LET gone(index) == PopShare(s, pop, index, n)
             new(index) == AddShare(s, pop, t, add, index, n)
         IN  /\ Partition(Seen(s, s, NoMask, PopVisits(s, pop)), gone, n)
             /\ Partition(Seen(t, t, NoMask, AddVisits(t, add)), new, n)
<1> DEFINE P == Seen(s, s, NoMask, PopVisits(s, pop))
           A == Seen(t, t, NoMask, AddVisits(t, add))
           gone(index) == PopShare(s, pop, index, n)
           new(index) == AddShare(s, pop, t, add, index, n)
           left(v) == PopPosition(s, pop, v[1])
           came(v) == AddPosition(s, pop, t, add, v[1])
<1>1. /\ \A i : gone(i) = {v \in P : Mine(i, n, left(v))}
      /\ \A i : new(i) = {v \in A : Mine(i, n, came(v))}
  BY DEF PopShare, AddShare, ShareOfPopped, ShareOfAdded
<1>2. \A v : left(v) \in Nat /\ came(v) \in Nat
  <2>1. HasSites(s) /\ HasSites(t)
    BY ParallelAssumption DEF HasSites
  <2> QED BY <2>1, PositionTypes
<1>3. \A v : /\ \E i \in 0..n - 1 : Mine(i, n, left(v))
             /\ \A i, j \in 0..n - 1 : Mine(i, n, left(v)) /\ Mine(j, n, left(v)) => i = j
  BY <1>2, OneCpuForPosition
<1>4. \A v : /\ \E i \in 0..n - 1 : Mine(i, n, came(v))
             /\ \A i, j \in 0..n - 1 : Mine(i, n, came(v)) /\ Mine(j, n, came(v)) => i = j
  BY <1>2, OneCpuForPosition
<1> HIDE DEF P, A, gone, new, left, came
<1>5. /\ UNION {gone(index) : index \in 0..n - 1} = P
      /\ \A i, j \in 0..n - 1 : i # j => gone(i) \cap gone(j) = {}
  BY <1>1, <1>3
<1>6. /\ UNION {new(index) : index \in 0..n - 1} = A
      /\ \A i, j \in 0..n - 1 : i # j => new(i) \cap new(j) = {}
  BY <1>1, <1>4
<1> QED BY <1>5, <1>6 DEF Partition, P, A, gone, new

-----------------------------------------------------------------------------
(***************************************************************************)
(* Totals over the CPUs.  A sum over CPUs is a function of sets of CPUs    *)
(* that grows by the summand of each CPU that joins the set; so the order  *)
(* of the summands never comes up, nor does recursion.                     *)
(***************************************************************************)
Cpus(n) == 0..n - 1

(* g[T] is the sum of the amounts of k in the values of the CPUs in T. *)
AddsUp(g, value, n, k) ==
  /\ g \in [SUBSET Cpus(n) -> Int]
  /\ g[{}] = 0
  /\ \A T \in SUBSET Cpus(n) : \A i \in Cpus(n) \ T : g[T \cup {i}] = g[T] + Amount(value[i], k)

IsFamily(value, n) ==
  /\ value = [i \in Cpus(n) |-> value[i]]
  /\ \A i \in Cpus(n) : IsLedger(value[i])

(* The values of n CPUs make up a ledger. *)
Totals(value, n, ledger) ==
  /\ IsFamily(value, n)
  /\ \A k : \E g : AddsUp(g, value, n, k) /\ g[Cpus(n)] = Amount(ledger, k)

(* Totals are linear. *)
LEMMA TotalsCombine ==
  ASSUME NEW n, NEW first, NEW second, NEW one, NEW two,
         IsLedger(one), IsLedger(two), NEW sign \in {-1, 1},
         Totals(first, n, one), Totals(second, n, two)
  PROVE  Totals([i \in Cpus(n) |-> Combine(first[i], sign, second[i])], n,
                Combine(one, sign, two))
<1> DEFINE value == [i \in Cpus(n) |-> Combine(first[i], sign, second[i])]
<1>1. \A i \in Cpus(n) : IsLedger(first[i]) /\ IsLedger(second[i])
  BY DEF Totals, IsFamily
<1>2. ASSUME NEW i \in Cpus(n)
      PROVE  /\ IsLedger(value[i])
             /\ \A k : Amount(value[i], k) = Amount(first[i], k) + sign * Amount(second[i], k)
  BY <1>1, CombineAmount
<1>3. IsFamily(value, n)
  BY <1>2 DEF IsFamily
<1>4. ASSUME NEW k
      PROVE  \E g : AddsUp(g, value, n, k) /\ g[Cpus(n)] = Amount(Combine(one, sign, two), k)
  <2>1. PICK g : AddsUp(g, first, n, k) /\ g[Cpus(n)] = Amount(one, k)
    BY DEF Totals
  <2>2. PICK h : AddsUp(h, second, n, k) /\ h[Cpus(n)] = Amount(two, k)
    BY DEF Totals
  <2> DEFINE f == [T \in SUBSET Cpus(n) |-> g[T] + sign * h[T]]
  <2>3. \A T \in SUBSET Cpus(n) : g[T] \in Int /\ h[T] \in Int
    BY <2>1, <2>2 DEF AddsUp
  <2>4. f \in [SUBSET Cpus(n) -> Int] /\ f[{}] = 0
    <3>1. g[{}] = 0 /\ h[{}] = 0
      BY <2>1, <2>2 DEF AddsUp
    <3>2. f[{}] = g[{}] + sign * h[{}]
      OBVIOUS
    <3>3. \A T \in SUBSET Cpus(n) : g[T] + sign * h[T] \in Int
      BY <2>3
    <3> QED BY <3>1, <3>2, <3>3
  <2>5. ASSUME NEW T \in SUBSET Cpus(n), NEW i \in Cpus(n) \ T
        PROVE  f[T \cup {i}] = f[T] + Amount(value[i], k)
    <3>1. T \cup {i} \in SUBSET Cpus(n)
      OBVIOUS
    <3>2. /\ g[T \cup {i}] = g[T] + Amount(first[i], k)
          /\ h[T \cup {i}] = h[T] + Amount(second[i], k)
      BY <2>1, <2>2 DEF AddsUp
    <3>3. Amount(first[i], k) \in Int /\ Amount(second[i], k) \in Int
      BY <1>1, AmountType
    <3>4. Amount(value[i], k) = Amount(first[i], k) + sign * Amount(second[i], k)
      BY <1>2
    <3>5. f[T \cup {i}] = g[T \cup {i}] + sign * h[T \cup {i}] /\ f[T] = g[T] + sign * h[T]
      BY <3>1
    <3> HIDE DEF f, value
    <3> QED BY <2>3, <3>2, <3>3, <3>4, <3>5
  <2>6. f[Cpus(n)] = Amount(Combine(one, sign, two), k)
    BY <2>1, <2>2, CombineAmount
  <2> QED BY <2>4, <2>5, <2>6 DEF AddsUp
<1> QED BY <1>3, <1>4 DEF Totals

(* The tallies of disjoint shares add up to the tally of what they share. *)
LEMMA TotalsOfShares ==
  ASSUME NEW s, NEW cached, NEW config, NEW V, IsFiniteSet(V),
         NEW n, NEW share,
         UNION {share[i] : i \in Cpus(n)} = V,
         \A i, j \in Cpus(n) : i # j => share[i] \cap share[j] = {}
  PROVE  Totals([i \in Cpus(n) |-> Tally(s, cached, config, share[i])], n,
                Tally(s, cached, config, V))
<1> DEFINE value == [i \in Cpus(n) |-> Tally(s, cached, config, share[i])]
           weight(U, k) == Weight(s, cached, config, U, k)
           common(T) == UNION {share[i] : i \in T}
           all == Tally(s, cached, config, V)
<1>1. ASSUME NEW i \in Cpus(n)
      PROVE  /\ IsFiniteSet(share[i]) /\ IsLedger(value[i])
             /\ \A k : Amount(value[i], k) = weight(share[i], k)
  <2>1. IsFiniteSet(share[i])
    BY FS_Subset
  <2> QED BY <2>1, TallyCount
<1>2. \A k : Amount(all, k) = weight(V, k)
  BY TallyCount
<1>3. IsFamily(value, n)
  BY <1>1 DEF IsFamily
<1>4. ASSUME NEW k PROVE \E g : AddsUp(g, value, n, k) /\ g[Cpus(n)] = Amount(all, k)
  <2> DEFINE g == [T \in SUBSET Cpus(n) |-> weight(common(T), k)]
  <2>1. ASSUME NEW T \in SUBSET Cpus(n)
        PROVE  IsFiniteSet(common(T)) /\ g[T] \in Int /\ g[T] = weight(common(T), k)
    <3>1. common(T) \subseteq V
      OBVIOUS
    <3>2. IsFiniteSet(common(T))
      BY <3>1, FS_Subset
    <3> QED BY <3>2, WeightType
  <2>2. g \in [SUBSET Cpus(n) -> Int]
    BY <2>1
  <2>3. g[{}] = 0
    <3>1. g[{}] = weight(common({}), k) /\ common({}) = {}
      OBVIOUS
    <3> QED BY <3>1, WeightType, FS_EmptySet
  <2>4. ASSUME NEW T \in SUBSET Cpus(n), NEW i \in Cpus(n) \ T
        PROVE  g[T \cup {i}] = g[T] + Amount(value[i], k)
    <3>1. common(T \cup {i}) = common(T) \cup share[i]
      OBVIOUS
    <3>2. common(T) \cap share[i] = {}
      OBVIOUS
    <3>3. IsFiniteSet(common(T)) /\ IsFiniteSet(share[i])
      BY <1>1, <2>1
    <3>4. g[T \cup {i}] = weight(common(T \cup {i}), k) /\ g[T] = weight(common(T), k)
      BY <2>1
    <3> HIDE DEF g, common, value
    <3>5. weight(common(T) \cup share[i], k) = weight(common(T), k) + weight(share[i], k)
      BY <3>2, <3>3, WeightOfUnion
    <3> QED BY <1>1, <3>1, <3>4, <3>5
  <2>5. g[Cpus(n)] = Amount(all, k)
    <3>1. g[Cpus(n)] = weight(common(Cpus(n)), k) /\ common(Cpus(n)) = V
      OBVIOUS
    <3> QED BY <1>2, <3>1
  <2> HIDE DEF g
  <2> QED BY <2>2, <2>3, <2>4, <2>5 DEF AddsUp
<1> QED BY <1>3, <1>4 DEF Totals, value, all

-----------------------------------------------------------------------------
(* What n workers in step hold.                                            *)

(* Structures between which a value is updated make the same copies of an atom. *)
FramesAgree ==
  \A s, t \in Structures : Diff(s, t).method # "NONE" => Frame(s) = Frame(t)

(* The values of the workers after a complete sum of s. *)
Completed(s, n) == [i \in Cpus(n) |-> TallyOf(s, CompleteShare(s, i, n))]

Gone(s, t, n) == [i \in Cpus(n) |-> TallyOf(s, PopShare(s, Diff(s, t).pop, i, n))]

New(s, t, n) ==
  [i \in Cpus(n) |-> TallyOf(t, AddShare(s, Diff(s, t).pop, t, Diff(s, t).add, i, n))]

(* Their values after an update from s to t. *)
Reduced(value, s, t, n) == [i \in Cpus(n) |-> Combine(value[i], -1, Gone(s, t, n)[i])]

Brought(value, s, t, n) == [i \in Cpus(n) |-> Combine(Reduced(value, s, t, n)[i], 1, New(s, t, n)[i])]

(* A worker updates from s to t. *)
Updates(s, t) ==
  /\ Diff(s, t).method # "NONE"
  /\ FixedSites => Diff(s, t).method = "SIDEBYSIDE"

LEMMA VisitsAreFinite ==
  ASSUME NEW s \in Structures, NEW V \in SUBSET AllPairs(s)
  PROVE  HasSites(s) /\ IsFiniteSet(Seen(s, s, NoMask, V))
  BY ParallelAssumption, SeenIsFinite DEF HasSites, AllPairs

LEMMA CompletedTotal ==
  ASSUME NEW s \in Structures, NEW n \in Nat \ {0}
  PROVE  Totals(Completed(s, n), n, CompleteSum(s)) /\ IsLedger(CompleteSum(s))
<1> DEFINE V == Seen(s, s, NoMask, AllVisits(s))
           share == [i \in Cpus(n) |-> CompleteShare(s, i, n)]
<1>1. IsFiniteSet(V)
  BY VisitsAreFinite DEF AllVisits, AllPairs
<1>2. /\ UNION {share[i] : i \in Cpus(n)} = V
      /\ \A i, j \in Cpus(n) : i # j => share[i] \cap share[j] = {}
  <2>1. /\ UNION {CompleteShare(s, i, n) : i \in Cpus(n)} = V
        /\ \A i, j \in Cpus(n) : i # j => CompleteShare(s, i, n) \cap CompleteShare(s, j, n) = {}
    BY CompleteSharesPartition DEF Partition, Cpus
  <2> QED BY <2>1
<1> HIDE DEF V, share
<1>3. Totals([i \in Cpus(n) |-> Tally(s, SiteData(s), "same", share[i])], n,
             Tally(s, SiteData(s), "same", V))
  BY <1>1, <1>2, TotalsOfShares
<1>4. Completed(s, n) = [i \in Cpus(n) |-> Tally(s, SiteData(s), "same", share[i])]
  BY DEF Completed, TallyOf, share
<1>5. CompleteSum(s) = Tally(s, SiteData(s), "same", V)
  BY DEF CompleteSum, FullValue, V
<1> QED BY <1>1, <1>3, <1>4, <1>5, TallyCount

LEMMA UpdateTotals ==
  ASSUME NEW s \in Structures, NEW t \in Structures, NEW n \in Nat \ {0},
         Diff(s, t).method # "NONE"
  PROVE  LET d == Diff(s, t)
             gone == TallyOf(s, Seen(s, s, NoMask, PopVisits(s, d.pop)))
             new == TallyOf(t, Seen(t, t, NoMask, AddVisits(t, d.add)))
         IN  /\ Totals(Gone(s, t, n), n, gone) /\ IsLedger(gone)
             /\ Totals(New(s, t, n), n, new) /\ IsLedger(new)
<1> DEFINE d == Diff(s, t)
           P == Seen(s, s, NoMask, PopVisits(s, d.pop))
           A == Seen(t, t, NoMask, AddVisits(t, d.add))
           left == [i \in Cpus(n) |-> PopShare(s, d.pop, i, n)]
           came == [i \in Cpus(n) |-> AddShare(s, d.pop, t, d.add, i, n)]
<1>1. d.pop \in SUBSET Sites(s) /\ d.add \in SUBSET Sites(t)
  BY DiffMatches, VisitsAreFinite
<1>2. IsFiniteSet(P) /\ IsFiniteSet(A)
  <2>1. HasSites(s) /\ HasSites(t)
    BY VisitsAreFinite
  <2>2. PopVisits(s, d.pop) \subseteq AllPairs(s) /\ AddVisits(t, d.add) \subseteq AllPairs(t)
    BY <1>1, <2>1, LoopsCover DEF Covers, OneDirection
  <2> QED BY <2>2, VisitsAreFinite
<1>3. /\ UNION {left[i] : i \in Cpus(n)} = P
      /\ \A i, j \in Cpus(n) : i # j => left[i] \cap left[j] = {}
      /\ UNION {came[i] : i \in Cpus(n)} = A
      /\ \A i, j \in Cpus(n) : i # j => came[i] \cap came[j] = {}
  <2>1. ASSUME NEW pop \in SUBSET Sites(s), NEW add \in SUBSET Sites(t)
        PROVE  /\ UNION {PopShare(s, pop, i, n) : i \in Cpus(n)}
                    = Seen(s, s, NoMask, PopVisits(s, pop))
               /\ \A i, j \in Cpus(n) :
                    i # j => PopShare(s, pop, i, n) \cap PopShare(s, pop, j, n) = {}
               /\ UNION {AddShare(s, pop, t, add, i, n) : i \in Cpus(n)}
                    = Seen(t, t, NoMask, AddVisits(t, add))
               /\ \A i, j \in Cpus(n) :
                    i # j => AddShare(s, pop, t, add, i, n) \cap AddShare(s, pop, t, add, j, n) = {}
    <3> DEFINE gone(index) == PopShare(s, pop, index, n)
               new(index) == AddShare(s, pop, t, add, index, n)
    <3>1. /\ Partition(Seen(s, s, NoMask, PopVisits(s, pop)), gone, n)
          /\ Partition(Seen(t, t, NoMask, AddVisits(t, add)), new, n)
      BY UpdateSharesPartition
    <3> QED BY <3>1 DEF Partition, Cpus
  <2> HIDE DEF d
  <2> QED BY <1>1, <2>1
<1> HIDE DEF P, A, left, came
<1>4. /\ Totals([i \in Cpus(n) |-> Tally(s, SiteData(s), "same", left[i])], n,
                Tally(s, SiteData(s), "same", P))
      /\ Totals([i \in Cpus(n) |-> Tally(t, SiteData(t), "same", came[i])], n,
                Tally(t, SiteData(t), "same", A))
  BY <1>2, <1>3, TotalsOfShares
<1>5. /\ Gone(s, t, n) = [i \in Cpus(n) |-> Tally(s, SiteData(s), "same", left[i])]
      /\ New(s, t, n) = [i \in Cpus(n) |-> Tally(t, SiteData(t), "same", came[i])]
  BY DEF Gone, New, TallyOf, left, came
<1>6. IsLedger(TallyOf(s, P)) /\ IsLedger(TallyOf(t, A))
  BY <1>2, TallyCount DEF TallyOf
<1> QED BY <1>4, <1>5, <1>6 DEF TallyOf, P, A

(* Workers whose values add up to one complete sum update them to the next. *)
LEMMA BroughtTotal ==
  ASSUME FramesAgree, NEW s \in Structures, NEW t \in Structures,
         NEW n \in Nat \ {0}, Updates(s, t), NEW value, Totals(value, n, CompleteSum(s))
  PROVE  Totals(Brought(value, s, t, n), n, CompleteSum(t))
<1> DEFINE d == Diff(s, t)
           gone == TallyOf(s, Seen(s, s, NoMask, PopVisits(s, d.pop)))
           new == TallyOf(t, Seen(t, t, NoMask, AddVisits(t, d.add)))
           reduced == Combine(CompleteSum(s), -1, gone)
<1>1. /\ Totals(Gone(s, t, n), n, gone) /\ IsLedger(gone)
      /\ Totals(New(s, t, n), n, new) /\ IsLedger(new)
  BY UpdateTotals DEF Updates
<1>2. IsLedger(CompleteSum(s))
  BY CompletedTotal
<1>3. Combine(reduced, 1, new) = CompleteSum(t)
  <2>1. HasSites(s) /\ HasSites(t) /\ Frame(s) = Frame(t)
    BY VisitsAreFinite DEF FramesAgree, Updates
  <2>2. ~HasPairMask(NoMask)
    BY DEF HasPairMask, NoMask
  <2> QED BY <2>1, <2>2, UpdateIsSum DEF Updates, TallyOf, CompleteSum
<1> HIDE DEF d, gone, new
<1>4. Totals(Reduced(value, s, t, n), n, reduced)
  BY <1>1, <1>2, TotalsCombine DEF Reduced
<1>5. IsLedger(reduced)
  BY <1>1, <1>2, CombineAmount
<1> HIDE DEF reduced
<1>6. Totals(Brought(value, s, t, n), n, Combine(reduced, 1, new))
  BY <1>1, <1>4, <1>5, TotalsCombine DEF Brought
<1> QED BY <1>3, <1>6

-----------------------------------------------------------------------------
(* Workers that evaluate one structure after the other.                    *)

(* Structures that are evaluated one after the other without a complete sum. *)
IsPath(p) ==
  /\ p \in Seq(Structures) /\ p # <<>>
  /\ \A j \in 1..Len(p) - 1 : Updates(p[j], p[j + 1])

(* The values of n workers in step at each structure of a path. *)
IsChain(chain, p, n) ==
  /\ chain = [j \in 1..Len(p) |-> chain[j]]
  /\ chain[1] = Completed(p[1], n)
  /\ \A j \in 1..Len(p) - 1 : chain[j + 1] = Brought(chain[j], p[j], p[j + 1], n)

LEMMA PathProperties ==
  ASSUME NEW p, IsPath(p)
  PROVE  /\ Len(p) \in Nat \ {0} /\ DOMAIN p = 1..Len(p)
         /\ \A j \in 1..Len(p) : p[j] \in Structures
  BY DEF IsPath

(* Whatever fails somewhere in a path fails somewhere first. *)
LEMMA FirstFailure ==
  ASSUME NEW N \in Nat, NEW bad \in SUBSET (1..N), bad # {}, 1 \notin bad
  PROVE  \E j \in 1..N - 1 : j \notin bad /\ j + 1 \in bad
<1>1. bad \subseteq Nat
  OBVIOUS
<1>2. PICK n \in bad : \A o \in bad : ~(<<o, n>> \in OpToRel(<, Nat))
  BY <1>1, WFMin, NatLessThanWellFounded
<1>3. \A o \in bad : ~(o < n)
  BY <1>1, <1>2 DEF OpToRel
<1>4. n \in 1..N /\ n # 1
  BY <1>2
<1>5. n - 1 \in 1..N - 1 /\ (n - 1) + 1 = n /\ n - 1 < n
  BY <1>4
<1> QED BY <1>2, <1>3, <1>5

(* Values depend on nothing but the path. *)
LEMMA ChainIsUnique ==
  ASSUME NEW p, IsPath(p), NEW n, NEW one, IsChain(one, p, n), NEW two, IsChain(two, p, n)
  PROVE  one = two
<1> DEFINE bad == {j \in 1..Len(p) : one[j] # two[j]}
<1>1. Len(p) \in Nat \ {0}
  BY PathProperties
<1>2. 1 \notin bad
  BY DEF IsChain
<1>3. bad = {}
  <2> SUFFICES ASSUME bad # {} PROVE FALSE
    OBVIOUS
  <2>1. bad \in SUBSET (1..Len(p))
    OBVIOUS
  <2>2. PICK j \in 1..Len(p) - 1 : j \notin bad /\ j + 1 \in bad
    <3> HIDE DEF bad
    <3> QED BY <1>1, <1>2, <2>1, FirstFailure
  <2>3. one[j] = two[j] /\ one[j + 1] # two[j + 1]
    BY <1>1, <2>2
  <2> QED BY <2>2, <2>3 DEF IsChain
<1> QED BY <1>3 DEF IsChain

(* At every structure of a path the values add up to its complete sum. *)
LEMMA ChainTotals ==
  ASSUME FramesAgree, NEW p, IsPath(p), NEW n \in Nat \ {0},
         NEW chain, IsChain(chain, p, n)
  PROVE  \A j \in 1..Len(p) : Totals(chain[j], n, CompleteSum(p[j]))
<1> DEFINE bad == {j \in 1..Len(p) : ~Totals(chain[j], n, CompleteSum(p[j]))}
<1>1. Len(p) \in Nat \ {0} /\ \A j \in 1..Len(p) : p[j] \in Structures
  BY PathProperties
<1>2. 1 \notin bad
  BY <1>1, CompletedTotal DEF IsChain
<1>3. bad = {}
  <2> SUFFICES ASSUME bad # {} PROVE FALSE
    OBVIOUS
  <2>1. bad \in SUBSET (1..Len(p))
    OBVIOUS
  <2>2. PICK j \in 1..Len(p) - 1 : j \notin bad /\ j + 1 \in bad
    <3> HIDE DEF bad
    <3> QED BY <1>1, <1>2, <2>1, FirstFailure
  <2>3. /\ Totals(chain[j], n, CompleteSum(p[j]))
        /\ ~Totals(chain[j + 1], n, CompleteSum(p[j + 1]))
        /\ p[j] \in Structures /\ p[j + 1] \in Structures
    BY <1>1, <2>2
  <2>4. chain[j + 1] = Brought(chain[j], p[j], p[j + 1], n) /\ Updates(p[j], p[j + 1])
    BY <2>2 DEF IsChain, IsPath
  <2> QED BY <2>3, <2>4, BroughtTotal
<1> QED BY <1>3

(* A path that is one structure longer. *)
LEMMA LongerPath ==
  ASSUME NEW p, IsPath(p), NEW s \in Structures, Updates(p[Len(p)], s)
  PROVE  LET q == Append(p, s)
         IN  /\ IsPath(q) /\ Len(q) = Len(p) + 1 /\ q[Len(p) + 1] = s
             /\ \A j \in 1..Len(p) : q[j] = p[j]
<1> DEFINE q == Append(p, s)
<1>1. p \in Seq(Structures) /\ Len(p) \in Nat \ {0}
  BY PathProperties DEF IsPath
<1>2. /\ q \in Seq(Structures) /\ q # <<>> /\ Len(q) = Len(p) + 1
      /\ q[Len(p) + 1] = s
      /\ \A j \in 1..Len(p) : q[j] = p[j]
  BY <1>1
<1> HIDE DEF q
<1>3. ASSUME NEW j \in 1..Len(q) - 1 PROVE Updates(q[j], q[j + 1])
  <2>1. CASE j = Len(p)
    BY <1>1, <1>2, <2>1
  <2>2. CASE j # Len(p)
    <3>1. j \in 1..Len(p) - 1 /\ j + 1 \in 1..Len(p) /\ j \in 1..Len(p)
      BY <1>1, <1>2, <2>2
    <3>2. Updates(p[j], p[j + 1])
      BY <3>1 DEF IsPath
    <3> QED BY <1>2, <3>1, <3>2
  <2> QED BY <2>1, <2>2
<1>4. IsPath(q)
  BY <1>2, <1>3 DEF IsPath
<1> QED BY <1>2, <1>4 DEF q

LEMMA LongerChain ==
  ASSUME NEW p, IsPath(p), NEW s \in Structures, Updates(p[Len(p)], s),
         NEW n, NEW chain, IsChain(chain, p, n)
  PROVE  LET q == Append(p, s)
         IN  \E longer : /\ IsChain(longer, q, n)
                        /\ longer[Len(q)] = Brought(chain[Len(p)], p[Len(p)], s, n)
<1> DEFINE q == Append(p, s)
           last == Brought(chain[Len(p)], p[Len(p)], s, n)
           longer == [j \in 1..Len(p) + 1 |-> IF j =< Len(p) THEN chain[j] ELSE last]
<1>1. Len(p) \in Nat \ {0}
  BY PathProperties
<1>2. /\ Len(q) = Len(p) + 1 /\ q[Len(p) + 1] = s
      /\ \A j \in 1..Len(p) : q[j] = p[j]
  BY LongerPath
<1> HIDE DEF q
<1>3. /\ \A j \in 1..Len(p) : longer[j] = chain[j]
      /\ longer[Len(p) + 1] = last
      /\ longer = [j \in 1..Len(q) |-> longer[j]]
  BY <1>1, <1>2
<1> HIDE DEF longer
<1>4. ASSUME NEW j \in 1..Len(q) - 1
      PROVE  longer[j + 1] = Brought(longer[j], q[j], q[j + 1], n)
  <2>1. CASE j = Len(p)
    <3>1. j \in 1..Len(p)
      BY <1>1, <2>1
    <3>2. q[j] = p[Len(p)] /\ q[j + 1] = s /\ longer[j] = chain[Len(p)] /\ longer[j + 1] = last
      BY <1>2, <1>3, <2>1, <3>1
    <3> QED BY <3>2
  <2>2. CASE j # Len(p)
    <3>1. j \in 1..Len(p) - 1 /\ j + 1 \in 1..Len(p) /\ j \in 1..Len(p)
      BY <1>1, <1>2, <2>2
    <3>2. chain[j + 1] = Brought(chain[j], p[j], p[j + 1], n)
      BY <3>1 DEF IsChain
    <3> HIDE DEF last
    <3> QED BY <1>2, <1>3, <3>1, <3>2
  <2> QED BY <2>1, <2>2
<1>5. longer[1] = Completed(q[1], n)
  <2>1. 1 \in 1..Len(p)
    BY <1>1
  <2>2. longer[1] = chain[1] /\ q[1] = p[1]
    BY <1>2, <1>3, <2>1
  <2> QED BY <2>2 DEF IsChain
<1> HIDE DEF last
<1>6. IsChain(longer, q, n)
  BY <1>3, <1>4, <1>5 DEF IsChain
<1> QED BY <1>2, <1>3, <1>6 DEF q, last

-----------------------------------------------------------------------------
(* Types.                                                                  *)

TypeInv ==
  /\ TypeOK
  /\ mcpuindex \in [Workers -> Nat] /\ path \in [Workers -> Seq(Structures)]
  /\ DOMAIN mvalue = Workers /\ DOMAIN dealt = Workers
  /\ IsFiniteSet(shares)

LEMMA InitType == Init => TypeInv
<1> SUFFICES ASSUME Init PROVE TypeInv
  OBVIOUS
<1>1. NCpu \in Nat \ {0} /\ MaxPath \in Nat
  BY ParallelAssumption
<1>2. IsFiniteSet(shares) /\ Cardinality(shares) = 0
  BY FS_EmptySet DEF Init
<1>3. /\ mncpu \in [Workers -> 1..NCpu] /\ mcpuindex \in [Workers -> Nat]
      /\ \A w \in Workers : mcpuindex[w] \in 0..mncpu[w] - 1
      /\ mlast \in [Workers -> Structures \cup {NoLast}]
      /\ path \in [Workers -> Seq(Structures)]
      /\ \A w \in Workers : Len(path[w]) = 0
      /\ DOMAIN mvalue = Workers /\ DOMAIN dealt = Workers
  BY <1>1 DEF Init
<1>4. mstructure \in Structures /\ mmergedvaluescount = 0
  BY DEF Init
<1> QED BY <1>1, <1>2, <1>3, <1>4 DEF TypeInv, TypeOK

(* A worker keeps its types whatever is done to another. *)
LEMMA SetupType ==
  ASSUME TypeInv, NEW w \in Workers, NEW index \in 0..NCpu - 1,
         SetupParallelRun(w, index, NCpu)
  PROVE  TypeInv'
<1>1. NCpu \in Nat \ {0} /\ index \in Nat
  BY ParallelAssumption
<1>2. mncpu' \in [Workers -> 1..NCpu] /\ mcpuindex' \in [Workers -> Nat]
  BY <1>1 DEF SetupParallelRun, TypeInv, TypeOK
<1>3. \A u \in Workers : mcpuindex'[u] \in 0..mncpu'[u] - 1
  BY <1>1 DEF SetupParallelRun, TypeInv, TypeOK
<1> QED BY <1>2, <1>3 DEF SetupParallelRun, TypeInv, TypeOK, master

LEMMA EvalType ==
  ASSUME TypeInv, NEW w \in Workers, NEW s \in Structures,
         EvalCompletely(w, s) \/ EvalUpdated(w, s)
  PROVE  TypeInv'
<1>1. MaxPath \in Nat \ {0}
  BY ParallelAssumption
<1>2. CASE EvalCompletely(w, s)
  <2>1. <<s>> \in Seq(Structures) /\ Len(<<s>>) = 1
    OBVIOUS
  <2>2. path' \in [Workers -> Seq(Structures)] /\ \A u \in Workers : Len(path'[u]) =< MaxPath
    BY <1>1, <1>2, <2>1 DEF EvalCompletely, TypeInv, TypeOK
  <2>3. mlast' \in [Workers -> Structures \cup {NoLast}]
    BY <1>2 DEF EvalCompletely, TypeInv, TypeOK
  <2> QED BY <1>2, <2>2, <2>3 DEF EvalCompletely, TypeInv, TypeOK, master
<1>3. CASE EvalUpdated(w, s)
  <2>1. path[w] \in Seq(Structures) /\ Len(path[w]) < MaxPath
    BY <1>3 DEF EvalUpdated, TypeInv
  <2>2. Append(path[w], s) \in Seq(Structures) /\ Len(Append(path[w], s)) =< MaxPath
    BY <1>1, <2>1
  <2>3. path' \in [Workers -> Seq(Structures)] /\ \A u \in Workers : Len(path'[u]) =< MaxPath
    BY <1>3, <2>2 DEF EvalUpdated, TypeInv, TypeOK
  <2>4. mlast' \in [Workers -> Structures \cup {NoLast}]
    BY <1>3 DEF EvalUpdated, TypeInv, TypeOK
  <2> QED BY <1>3, <2>3, <2>4 DEF EvalUpdated, TypeInv, TypeOK, master
<1> QED BY <1>2, <1>3

LEMMA MasterType ==
  ASSUME TypeInv, \/ \E s \in Structures : SetStructure(s)
                  \/ \E w \in Workers : MergeParallelData(w)
  PROVE  TypeInv'
<1>1. NCpu \in Nat \ {0}
  BY ParallelAssumption
<1>2. ASSUME NEW s \in Structures, SetStructure(s) PROVE TypeInv'
  <2>1. IsFiniteSet(shares') /\ Cardinality(shares') = 0
    BY <1>2, FS_EmptySet DEF SetStructure
  <2> QED BY <1>1, <1>2, <2>1 DEF SetStructure, TypeInv, TypeOK, worker
<1>3. ASSUME NEW w \in Workers, MergeParallelData(w) PROVE TypeInv'
  <2>1. /\ IsFiniteSet(shares') /\ Cardinality(shares) \in Nat
        /\ Cardinality(shares') \in Nat /\ Cardinality(shares') =< Cardinality(shares) + 1
    <3>1. shares' = shares \cup {[dealt |-> dealt[w], path |-> path[w]]} /\ IsFiniteSet(shares)
      BY <1>3 DEF MergeParallelData, TypeInv
    <3>2. IsFiniteSet(shares') /\ Cardinality(shares) \in Nat /\ Cardinality(shares') \in Nat
      BY <3>1, FS_AddElement, FS_CardinalityType
    <3>3. Cardinality(shares') \in {Cardinality(shares), Cardinality(shares) + 1}
      BY <3>1, FS_AddElement
    <3> QED BY <3>2, <3>3
  <2>2. mmergedvaluescount' \in 0..NCpu /\ Cardinality(shares') =< mmergedvaluescount'
    BY <1>1, <1>3, <2>1 DEF MergeParallelData, TypeInv, TypeOK
  <2> QED BY <1>3, <2>1, <2>2 DEF MergeParallelData, TypeInv, TypeOK, worker
<1> QED BY <1>2, <1>3

LEMMA NextType == TypeInv /\ [Next]_vars => TypeInv'
<1> SUFFICES ASSUME TypeInv, [Next]_vars PROVE TypeInv'
  OBVIOUS
<1>1. CASE UNCHANGED vars
  BY <1>1 DEF vars, worker, master, TypeInv, TypeOK
<1>2. CASE Next
  BY <1>2, SetupType, EvalType, MasterType DEF Next
<1> QED BY <1>1, <1>2

(***************************************************************************)
(* Workers are one of the CPUs they know of, the master accepts no more    *)
(* values than there are CPUs, and the different ones among them are as    *)
(* many at most (PairQuantity.cpp:96).                                     *)
(***************************************************************************)
THEOREM TypeCorrect == Spec => []TypeOK
<1>1. TypeInv => TypeOK
  BY DEF TypeInv
<1> QED BY <1>1, InitType, NextType, PTL DEF Spec

-----------------------------------------------------------------------------
(* What a worker holds.                                                    *)

(* w has followed its path in step with the other CPUs of its setup. *)
Follows(w) ==
  /\ dealt[w] = <<mcpuindex[w], mncpu[w]>> /\ path[w] # <<>>
  /\ \E chain : /\ IsChain(chain, path[w], mncpu[w])
                /\ mvalue[w] = chain[Len(path[w])][mcpuindex[w]]

WorkerInv(w) ==
  /\ IsLedger(mvalue[w])
  /\ path[w] # <<>> => IsPath(path[w])
  /\ path[w] = <<>> => dealt[w] = <<>>
  /\ mlast[w] # NoLast => path[w] # <<>> /\ mlast[w] = path[w][Len(path[w])]
  /\ dealt[w] # <<>> => Follows(w)

WorkersInv == TypeInv /\ \A w \in Workers : WorkerInv(w)

LEMMA InitWorkers == Init => WorkersInv
<1> SUFFICES ASSUME Init PROVE WorkersInv
  OBVIOUS
<1>1. IsLedger(Empty)
  BY DEF IsLedger, Empty
<1>2. \A w \in Workers : WorkerInv(w)
  BY <1>1 DEF Init, WorkerInv
<1> QED BY <1>2, InitType DEF WorkersInv

(* A worker that nothing happens to. *)
LEMMA OthersKeep ==
  ASSUME NEW w, WorkerInv(w),
         mcpuindex'[w] = mcpuindex[w], mncpu'[w] = mncpu[w], mlast'[w] = mlast[w],
         mvalue'[w] = mvalue[w], path'[w] = path[w], dealt'[w] = dealt[w]
  PROVE  WorkerInv(w)'
  BY DEF WorkerInv, Follows

LEMMA SetupKeeps ==
  ASSUME WorkersInv, NEW w \in Workers, NEW index, SetupParallelRun(w, index, NCpu)
  PROVE  \A u \in Workers : WorkerInv(u)'
<1> SUFFICES ASSUME NEW u \in Workers PROVE WorkerInv(u)'
  OBVIOUS
<1>1. WorkerInv(u)
  BY DEF WorkersInv
<1>2. CASE u # w
  <2>1. mcpuindex'[u] = mcpuindex[u] /\ mncpu'[u] = mncpu[u] /\ dealt'[u] = dealt[u]
    BY <1>2 DEF SetupParallelRun, WorkersInv, TypeInv, TypeOK
  <2> QED BY <1>1, <2>1, OthersKeep DEF SetupParallelRun
<1>3. CASE u = w
  <2>1. dealt'[w] = <<>> /\ mvalue' = mvalue /\ path' = path /\ mlast' = mlast
    BY DEF SetupParallelRun, WorkersInv, TypeInv
  <2> QED BY <1>1, <1>3, <2>1 DEF WorkerInv
<1> QED BY <1>2, <1>3

(* Structures that a worker updates between can be compared. *)
LEMMA FastPathUpdates ==
  ASSUME WorkersInv, NEW w \in Workers, NEW s \in Structures, FastPath(w, s)
  PROVE  mlast[w] \in Structures /\ Updates(mlast[w], s)
<1>1. mlast[w] \in Structures
  BY DEF FastPath, WorkersInv, TypeInv, TypeOK
<1>2. HasSites(mlast[w])
  BY <1>1, VisitsAreFinite
<1>3. Diff(mlast[w], s).method # "NONE"
  BY <1>2, FastDiffCompares DEF FastPath
<1> QED BY <1>1, <1>3 DEF Updates, FastPath

LEMMA CompleteKeeps ==
  ASSUME WorkersInv, NEW w \in Workers, NEW s \in Structures, EvalCompletely(w, s)
  PROVE  WorkerInv(w)'
<1> DEFINE n == mncpu[w]
           i == mcpuindex[w]
           chain == [j \in 1..1 |-> Completed(s, n)]
<1>1. n \in Nat \ {0} /\ i \in Cpus(n)
  BY DEF WorkersInv, TypeInv, TypeOK, Cpus
<1>2. Completed(s, n)[i] = TallyOf(s, CompleteShare(s, i, n))
  BY <1>1 DEF Completed
<1>3. IsLedger(Completed(s, n)[i])
  BY <1>1, CompletedTotal DEF Totals, IsFamily
<1>4. IsPath(<<s>>)
  <2>1. <<s>> \in Seq(Structures) /\ Len(<<s>>) = 1 /\ <<s>> # <<>>
    OBVIOUS
  <2>2. 1..1 - 1 = {}
    OBVIOUS
  <2> QED BY <2>1, <2>2 DEF IsPath
<1>5. IsChain(chain, <<s>>, n) /\ chain[1] = Completed(s, n)
  <2>1. Len(<<s>>) = 1 /\ <<s>>[1] = s /\ 1..1 - 1 = {}
    OBVIOUS
  <2> QED BY <2>1 DEF IsChain
<1>6. /\ mvalue'[w] = Completed(s, n)[i] /\ path'[w] = <<s>> /\ dealt'[w] = <<i, n>>
      /\ mcpuindex'[w] = i /\ mncpu'[w] = n /\ mlast'[w] \in {s, NoLast}
  BY <1>2 DEF EvalCompletely, WorkersInv, TypeInv, TypeOK
<1>7. Len(path'[w]) = 1 /\ path'[w] # <<>> /\ path'[w][1] = s
  BY <1>6
<1> HIDE DEF chain, n, i
<1>8. Follows(w)'
  BY <1>5, <1>6, <1>7 DEF Follows
<1> QED BY <1>3, <1>4, <1>6, <1>7, <1>8 DEF WorkerInv

LEMMA UpdateKeeps ==
  ASSUME WorkersInv, NEW w \in Workers, NEW s \in Structures, EvalUpdated(w, s)
  PROVE  WorkerInv(w)'
<1> DEFINE n == mncpu[w]
           i == mcpuindex[w]
           t == mlast[w]
           q == Append(path[w], s)
           value == Combine(Combine(mvalue[w], -1, Gone(t, s, n)[i]), 1, New(t, s, n)[i])
<1>1. n \in Nat \ {0} /\ i \in Cpus(n)
  BY DEF WorkersInv, TypeInv, TypeOK, Cpus
<1>2. t \in Structures /\ Updates(t, s)
  BY FastPathUpdates DEF EvalUpdated
<1>3. /\ Gone(t, s, n)[i] = TallyOf(t, PopShare(t, Diff(t, s).pop, i, n))
      /\ New(t, s, n)[i] = TallyOf(s, AddShare(t, Diff(t, s).pop, s, Diff(t, s).add, i, n))
  BY <1>1 DEF Gone, New
<1>4. /\ mvalue'[w] = value /\ path'[w] = q /\ dealt'[w] = dealt[w]
      /\ mcpuindex'[w] = i /\ mncpu'[w] = n /\ mlast'[w] = s
  BY <1>3 DEF EvalUpdated, WorkersInv, TypeInv, TypeOK
<1>5. IsLedger(value)
  <2>1. IsLedger(Gone(t, s, n)[i]) /\ IsLedger(New(t, s, n)[i]) /\ IsLedger(mvalue[w])
    <3>1. \E one, two : Totals(Gone(t, s, n), n, one) /\ Totals(New(t, s, n), n, two)
      <4> HIDE DEF n, t
      <4> QED BY <1>1, <1>2, UpdateTotals DEF Updates
    <3>2. IsLedger(Gone(t, s, n)[i]) /\ IsLedger(New(t, s, n)[i])
      BY <1>1, <3>1 DEF Totals, IsFamily
    <3> QED BY <3>2 DEF WorkersInv, WorkerInv
  <2>2. IsLedger(Combine(mvalue[w], -1, Gone(t, s, n)[i]))
    BY <2>1, CombineAmount
  <2> QED BY <2>1, <2>2, CombineAmount
<1>6. path[w] # <<>> /\ IsPath(path[w]) /\ t = path[w][Len(path[w])]
  BY DEF WorkersInv, WorkerInv, EvalUpdated, FastPath
<1>7. IsPath(q) /\ q # <<>> /\ q[Len(q)] = s
  <2>1. IsPath(q) /\ Len(q) = Len(path[w]) + 1 /\ q[Len(path[w]) + 1] = s
    BY <1>2, <1>6, LongerPath
  <2> HIDE DEF q
  <2> QED BY <2>1 DEF IsPath
<1>8. ASSUME dealt[w] # <<>> PROVE Follows(w)'
  <2>1. Follows(w)
    BY <1>8 DEF WorkersInv, WorkerInv
  <2>2. PICK chain : /\ IsChain(chain, path[w], n)
                     /\ mvalue[w] = chain[Len(path[w])][i]
    BY <2>1 DEF Follows
  <2> DEFINE last == Brought(chain[Len(path[w])], path[w][Len(path[w])], s, n)
  <2>3. \E longer : IsChain(longer, q, n) /\ longer[Len(q)] = last
    <3>1. Updates(path[w][Len(path[w])], s)
      BY <1>2, <1>6
    <3> HIDE DEF n
    <3> QED BY <1>6, <2>2, <3>1, LongerChain
  <2>4. value = last[i]
    BY <1>1, <1>6, <2>2 DEF Brought, Reduced
  <2>5. dealt'[w] = <<i, n>>
    BY <1>4, <2>1 DEF Follows
  <2> HIDE DEF last, value, q, n, i, t
  <2> QED BY <1>4, <1>7, <2>3, <2>4, <2>5 DEF Follows
<1> HIDE DEF value, q, n, i, t
<1> QED BY <1>4, <1>5, <1>7, <1>8 DEF WorkerInv

(***************************************************************************)
(* Whatever happens to it, a worker that has summed completely since its   *)
(* setup and updated from there holds what the CPU of its setup holds      *)
(* after the same path.                                                    *)
(***************************************************************************)
LEMMA NextWorkers == WorkersInv /\ [Next]_vars => WorkersInv'
<1> SUFFICES ASSUME WorkersInv, [Next]_vars PROVE WorkersInv'
  OBVIOUS
<1>1. TypeInv'
  BY NextType DEF WorkersInv
<1>2. ASSUME UNCHANGED worker PROVE \A u \in Workers : WorkerInv(u)'
  BY <1>2, OthersKeep DEF worker, WorkersInv
<1>3. ASSUME NEW w \in Workers, NEW s \in Structures, EvalCompletely(w, s) \/ EvalUpdated(w, s)
      PROVE  \A u \in Workers : WorkerInv(u)'
  <2> SUFFICES ASSUME NEW u \in Workers PROVE WorkerInv(u)'
    OBVIOUS
  <2>1. CASE u = w
    BY <1>3, <2>1, CompleteKeeps, UpdateKeeps
  <2>2. CASE u # w
    <3>1. /\ mlast'[u] = mlast[u] /\ mvalue'[u] = mvalue[u]
          /\ path'[u] = path[u] /\ dealt'[u] = dealt[u]
      BY <1>3, <2>2 DEF EvalCompletely, EvalUpdated, WorkersInv, TypeInv, TypeOK
    <3> QED BY <1>3, <3>1, OthersKeep DEF EvalCompletely, EvalUpdated, WorkersInv
  <2> QED BY <2>1, <2>2
<1>4. CASE UNCHANGED vars
  BY <1>1, <1>2, <1>4 DEF vars, WorkersInv
<1>5. CASE Next
  <2>1. CASE \E w \in Workers, index \in 0..NCpu - 1 : SetupParallelRun(w, index, NCpu)
    BY <1>1, <2>1, SetupKeeps DEF WorkersInv
  <2>2. CASE \E w \in Workers, s \in Structures : EvalCompletely(w, s) \/ EvalUpdated(w, s)
    BY <1>1, <1>3, <2>2 DEF WorkersInv
  <2>3. CASE \E s \in Structures : SetStructure(s)
    BY <1>1, <1>2, <2>3 DEF WorkersInv, SetStructure
  <2>4. CASE \E w \in Workers : MergeParallelData(w)
    BY <1>1, <1>2, <2>4 DEF WorkersInv, MergeParallelData
  <2> QED BY <1>5, <2>1, <2>2, <2>3, <2>4 DEF Next
<1> QED BY <1>4, <1>5

-----------------------------------------------------------------------------
(* What the master holds.                                                  *)

Share(i, p) == [dealt |-> <<i, NCpu>>, path |-> p]

(* The shares of some CPUs along the path p, and of no others. *)
SharesOf(p) == {Share(i, p) : i \in Cpus(NCpu)}

MergedCpus(p) == {i \in Cpus(NCpu) : Share(i, p) \in shares}

(***************************************************************************)
(* As long as the merged shares are different ones of the same path, the   *)
(* value of the master is what the values of their CPUs sum up to.         *)
(***************************************************************************)
MergedInv ==
  /\ IsLedger(merged)
  /\ \A x \in shares :
       /\ x = [dealt |-> x.dealt, path |-> x.path] /\ IsPath(x.path)
       /\ x.dealt # <<>> => \E chain : IsChain(chain, x.path, x.dealt[2])
  /\ Cardinality(shares) = mmergedvaluescount =>
       \A p, chain : IsPath(p) /\ IsChain(chain, p, NCpu) /\ shares \subseteq SharesOf(p) =>
         \A k, g : AddsUp(g, chain[Len(p)], NCpu, k) => Amount(merged, k) = g[MergedCpus(p)]

SumInv == WorkersInv /\ MergedInv

LEMMA EmptyMerged ==
  ASSUME merged = Empty, shares = {}
  PROVE  MergedInv
<1>1. IsLedger(merged) /\ \A k : Amount(merged, k) = 0
  BY DEF IsLedger, Empty, Amount
<1>2. \A p : MergedCpus(p) = {}
  BY DEF MergedCpus
<1> QED BY <1>1, <1>2 DEF MergedInv, AddsUp

LEMMA ShareIsInjective ==
  ASSUME NEW i, NEW j, NEW p, NEW q, Share(i, p) = Share(j, q)
  PROVE  i = j /\ p = q
<1>1. Share(i, p).dealt = <<i, NCpu>> /\ Share(j, q).dealt = <<j, NCpu>>
  BY DEF Share
<1>2. Share(i, p).path = p /\ Share(j, q).path = q
  BY DEF Share
<1> QED BY <1>1, <1>2

LEMMA MergeKeeps ==
  ASSUME SumInv, NEW w \in Workers, MergeParallelData(w)
  PROVE  MergedInv'
<1> DEFINE x == [dealt |-> dealt[w], path |-> path[w]]
<1>1. shares' = shares \cup {x} /\ mmergedvaluescount' = mmergedvaluescount + 1
  BY DEF MergeParallelData
<1>2. WorkerInv(w) /\ IsLedger(mvalue[w]) /\ IsPath(path[w]) /\ IsLedger(merged)
  BY DEF SumInv, WorkersInv, WorkerInv, MergedInv, MergeParallelData
<1>3. /\ IsLedger(merged')
      /\ \A k : Amount(merged', k) = Amount(merged, k) + Amount(mvalue[w], k)
  <2>1. merged' = Combine(merged, 1, mvalue[w])
    BY DEF MergeParallelData
  <2>2. \A k : Amount(merged, k) \in Int /\ Amount(mvalue[w], k) \in Int
    BY <1>2, AmountType
  <2> QED BY <1>2, <2>1, <2>2, CombineAmount
<1>4. /\ x.dealt = dealt[w] /\ x.path = path[w]
      /\ x.dealt # <<>> => \E chain : IsChain(chain, x.path, x.dealt[2])
  <2>1. x.dealt = dealt[w] /\ x.path = path[w]
    OBVIOUS
  <2>2. dealt[w] # <<>> => Follows(w)
    BY <1>2 DEF WorkerInv
  <2> QED BY <2>1, <2>2 DEF Follows
<1>5. \A y \in shares' :
        /\ y = [dealt |-> y.dealt, path |-> y.path] /\ IsPath(y.path)
        /\ y.dealt # <<>> => \E chain : IsChain(chain, y.path, y.dealt[2])
  BY <1>1, <1>2, <1>4 DEF SumInv, MergedInv
<1>6. ASSUME Cardinality(shares') = mmergedvaluescount',
             NEW p, NEW chain, IsPath(p), IsChain(chain, p, NCpu), shares' \subseteq SharesOf(p),
             NEW k, NEW g, AddsUp(g, chain[Len(p)], NCpu, k)
      PROVE  Amount(merged', k) = g[MergedCpus(p)']
  <2>1. IsFiniteSet(shares) /\ Cardinality(shares) \in Nat /\ mmergedvaluescount \in Nat
        /\ Cardinality(shares) =< mmergedvaluescount
    BY FS_CardinalityType DEF SumInv, WorkersInv, TypeInv, TypeOK
  <2>2. x \notin shares /\ Cardinality(shares) = mmergedvaluescount
    <3>1. Cardinality(shares') = IF x \in shares THEN Cardinality(shares)
                                 ELSE Cardinality(shares) + 1
      BY <1>1, <2>1, FS_AddElement
    <3> QED BY <1>1, <1>6, <2>1, <3>1
  <2>3. PICK i \in Cpus(NCpu) : x = Share(i, p)
    BY <1>1, <1>6 DEF SharesOf
  <2>4. dealt[w] = <<i, NCpu>> /\ path[w] = p
    BY <1>4, <2>3 DEF Share
  <2>5. Follows(w) /\ mcpuindex[w] = i /\ mncpu[w] = NCpu
    <3>1. Follows(w)
      BY <1>2, <2>4 DEF WorkerInv
    <3>2. <<i, NCpu>> = <<mcpuindex[w], mncpu[w]>>
      BY <2>4, <3>1 DEF Follows
    <3> QED BY <3>1, <3>2
  <2>6. mvalue[w] = chain[Len(p)][i]
    <3>1. PICK own : IsChain(own, p, NCpu) /\ mvalue[w] = own[Len(p)][i]
      BY <2>4, <2>5 DEF Follows
    <3>2. own = chain
      BY <1>6, <3>1, ChainIsUnique
    <3> QED BY <3>1, <3>2
  <2> DEFINE T == MergedCpus(p)
  <2>7. T \in SUBSET Cpus(NCpu) /\ i \in Cpus(NCpu) \ T
    BY <2>2, <2>3 DEF MergedCpus
  <2>8. MergedCpus(p)' = T \cup {i}
    <3>1. \A j : Share(j, p) \in shares' <=> Share(j, p) \in shares \/ j = i
      BY <1>1, <2>3, ShareIsInjective
    <3> QED BY <2>3, <3>1 DEF MergedCpus
  <2>9. Amount(merged, k) = g[T]
    <3>1. shares \subseteq SharesOf(p)
      BY <1>1, <1>6
    <3> QED BY <1>6, <2>2, <3>1 DEF SumInv, MergedInv
  <2>10. g[T \cup {i}] = g[T] + Amount(chain[Len(p)][i], k)
    BY <1>6, <2>7 DEF AddsUp
  <2> HIDE DEF T
  <2> QED BY <1>3, <2>6, <2>8, <2>9, <2>10
<1>7. ASSUME NEW p PROVE SharesOf(p)' = SharesOf(p)
  BY DEF SharesOf, Share
<1> QED BY <1>3, <1>5, <1>6, <1>7 DEF MergedInv

LEMMA InitSum == Init => SumInv
  BY InitWorkers, EmptyMerged DEF Init, SumInv

LEMMA NextSum == SumInv /\ [Next]_vars => SumInv'
<1> SUFFICES ASSUME SumInv, [Next]_vars PROVE SumInv'
  OBVIOUS
<1>1. WorkersInv'
  BY NextWorkers DEF SumInv
<1>2. ASSUME UNCHANGED <<merged, mmergedvaluescount, shares>> PROVE MergedInv'
  BY <1>2 DEF SumInv, MergedInv, MergedCpus
<1>3. CASE \E s \in Structures : SetStructure(s)
  <2>1. (merged = Empty)' /\ (shares = {})'
    BY <1>3 DEF SetStructure
  <2>2. MergedInv'
    BY <2>1, EmptyMerged, PTL
  <2> QED BY <1>1, <2>2 DEF SumInv
<1>4. CASE \E w \in Workers : MergeParallelData(w)
  BY <1>1, <1>4, MergeKeeps DEF SumInv
<1>5. CASE \/ UNCHANGED vars
           \/ \E w \in Workers, index \in 0..NCpu - 1 : SetupParallelRun(w, index, NCpu)
           \/ \E w \in Workers, s \in Structures : EvalCompletely(w, s) \/ EvalUpdated(w, s)
  BY <1>1, <1>2, <1>5 DEF SumInv, vars, master, SetupParallelRun, EvalCompletely, EvalUpdated
<1> QED BY <1>3, <1>4, <1>5 DEF Next

(***************************************************************************)
(* The last share makes the value of the master the complete sum.          *)
(***************************************************************************)
LEMMA SumIsMerged ==
  ASSUME FramesAgree, SumInv, mmergedvaluescount = NCpu, InStep
  PROVE  merged = CompleteSum(mstructure)
<1>1. NCpu \in Nat \ {0}
  BY ParallelAssumption
<1>2. PICK p : (\A x \in shares : x.path = p) /\ p[Len(p)] = mstructure
  BY DEF InStep
<1>3. \A i \in Cpus(NCpu) : Share(i, p) \in shares
  <2> TAKE i \in Cpus(NCpu)
  <2>1. PICK x \in shares : x.dealt = <<i, NCpu>>
    BY DEF InStep, Cpus
  <2>2. x = [dealt |-> x.dealt, path |-> x.path]
    BY DEF SumInv, MergedInv
  <2> QED BY <1>2, <2>1, <2>2 DEF Share
<1>4. shares \subseteq SharesOf(p)
  <2> SUFFICES ASSUME NEW x \in shares PROVE x \in SharesOf(p)
    OBVIOUS
  <2>1. PICK i \in Cpus(NCpu) : x.dealt = <<i, NCpu>>
    BY DEF InStep, Cpus
  <2>2. x = [dealt |-> x.dealt, path |-> x.path]
    BY DEF SumInv, MergedInv
  <2> QED BY <1>2, <2>1, <2>2 DEF Share, SharesOf
<1>5. Cardinality(shares) = mmergedvaluescount
  <2> DEFINE f == [i \in Cpus(NCpu) |-> Share(i, p)]
  <2>1. f \in Injection(Cpus(NCpu), shares)
    <3>1. f \in [Cpus(NCpu) -> shares]
      BY <1>3
    <3>2. \A i, j \in Cpus(NCpu) : f[i] = f[j] => i = j
      BY ShareIsInjective
    <3> QED BY <3>1, <3>2 DEF Injection, IsInjective
  <2>2. IsFiniteSet(shares) /\ Cardinality(shares) \in Nat /\ Cardinality(shares) =< NCpu
    BY FS_CardinalityType DEF SumInv, WorkersInv, TypeInv, TypeOK
  <2>3. Cardinality(Cpus(NCpu)) = NCpu
    BY <1>1, FS_Interval DEF Cpus
  <2> HIDE DEF f
  <2>4. Cardinality(Cpus(NCpu)) =< Cardinality(shares)
    BY <2>1, <2>2, FS_Injection
  <2> QED BY <1>1, <2>2, <2>3, <2>4
<1>6. IsPath(p) /\ \E chain : IsChain(chain, p, NCpu)
  <2>1. 0 \in Cpus(NCpu)
    BY <1>1 DEF Cpus
  <2>2. Share(0, p) \in shares /\ Share(0, p).dealt = <<0, NCpu>> /\ Share(0, p).path = p
    BY <1>3, <2>1 DEF Share
  <2>3. <<0, NCpu>> # <<>> /\ <<0, NCpu>>[2] = NCpu
    OBVIOUS
  <2> QED BY <2>2, <2>3 DEF SumInv, MergedInv
<1>7. PICK chain : IsChain(chain, p, NCpu)
  BY <1>6
<1>8. mstructure \in Structures /\ Totals(chain[Len(p)], NCpu, CompleteSum(mstructure))
  <2>1. Len(p) \in 1..Len(p)
    BY <1>6, PathProperties
  <2>2. Totals(chain[Len(p)], NCpu, CompleteSum(p[Len(p)]))
    BY <1>1, <1>6, <1>7, <2>1, ChainTotals
  <2> QED BY <1>2, <1>6, <2>1, <2>2, PathProperties
<1>9. MergedCpus(p) = Cpus(NCpu)
  BY <1>3 DEF MergedCpus
<1>10. \A k : Amount(merged, k) = Amount(CompleteSum(mstructure), k)
  <2> TAKE k
  <2>1. PICK g : /\ AddsUp(g, chain[Len(p)], NCpu, k)
                 /\ g[Cpus(NCpu)] = Amount(CompleteSum(mstructure), k)
    BY <1>8 DEF Totals
  <2>2. Amount(merged, k) = g[MergedCpus(p)]
    BY <1>4, <1>5, <1>6, <1>7, <2>1 DEF SumInv, MergedInv
  <2> QED BY <1>9, <2>1, <2>2
<1>11. IsLedger(merged) /\ IsLedger(CompleteSum(mstructure))
  BY <1>1, <1>8, CompletedTotal DEF SumInv, MergedInv
<1> QED BY <1>10, <1>11, LedgerExtensionality

(***************************************************************************)
(* Shares of all CPUs, got in step, add up to the complete sum, for any    *)
(* number of CPUs and workers and along any path, where an update never    *)
(* crosses to another frame                                                *)
(* (PQEvaluator.cpp:106, 226; PairQuantity.cpp:96-98).                     *)
(***************************************************************************)
THEOREM MergedIsSumAlways ==
  ASSUME FramesAgree
  PROVE  Spec => []MergedIsSum
<1>1. SumInv => MergedIsSum
  BY SumIsMerged DEF MergedIsSum
<1>2. SumInv /\ [Next]_vars => SumInv'
  BY NextSum
<1> QED BY <1>1, <1>2, InitSum, PTL DEF Spec
=============================================================================
