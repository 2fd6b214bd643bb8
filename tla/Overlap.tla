------------------------------- MODULE Overlap -------------------------------
(***************************************************************************)
(* OverlapCalculator: a list of the bonds short enough for two atoms to    *)
(* overlap, made by eval or merged from the shares of parallel workers,    *)
(* and the many questions that are answered from it with the radii cached  *)
(* when the list was made and with an index of bonds by site that is made  *)
(* on first use.                                                           *)
(*                                                                         *)
(* Atoms lie on a line, so the vector r01 of a bond is a signed number and *)
(* its distance the absolute value.  A site is an orbit of equivalent      *)
(* positions; a structure repeats with its period unless that is zero.     *)
(* Sums that the code divides by two are kept undivided.                   *)
(***************************************************************************)
EXTENDS Integers, FiniteSets, SequencesExt, FiniteSetsExt, Functions, Graphs, TLC

CONSTANTS
  Structures,   \* [sites: sequences of [orbit, type, occupancy], period: Nat]
  NoStructure,  \* the empty one
  AtomTypes,
  Radii,        \* values for the table of radii
  Tables,       \* tables another one is replaced by
  Entries,      \* what radii are read from: sets of <<symbol, radius>>
  Rmaxes,
  Masks,        \* sets of masked pairs of sites
  Ncpu,         \* number of parallel workers
  MaxEdits,     \* bound on changes of the configuration between two lists
  SitesPerCpu   \* 1 / CPU_LOAD_VARIANCE

OverlapAssumption ==
  /\ NoStructure \in Structures /\ NoStructure.sites = <<>>
  /\ MaxEdits \in Nat /\ Ncpu \in Nat \ {0} /\ SitesPerCpu \in Nat \ {0}

VARIABLES
  mstructure,
  table,                \* custom radii and the default of matomradiitable
  mrmax,
  masked,
  mstructure_cache,     \* siteradii and maxseparation
  mvalue,               \* sequence of chunks
  mneighborids,         \* site -> sequence of positions in mvalue
  mneighborids_cached,
  missing,              \* shares that a master still waits for
  used,                 \* history: rmax and mask that the list was made with
  disturbed,            \* history: what came after the index was first used
  edits                 \* changes of the configuration since the list was begun

config == <<table, mrmax, masked, edits>>
value == <<mstructure, mstructure_cache, mvalue, missing, used>>
index == <<mneighborids, mneighborids_cached, disturbed>>
vars == <<config, value, index>>

-----------------------------------------------------------------------------
(* Bonds and shares.                                                       *)

Abs(x) == IF x < 0 THEN -x ELSE x
Sign(x) == IF x < 0 THEN -1 ELSE 1

Sites(s) == DOMAIN s.sites
Occupancy(i) == mstructure.sites[i].occupancy
Multiplicity(i) == Cardinality(mstructure.sites[i].orbit)

(* Positions of site j that are at most rmax away from x. *)
Images(s, j, x, rmax) ==
  LET shifts == IF s.period = 0 THEN {0}
                ELSE {n * s.period : n \in -(rmax \div s.period + 2)..(rmax \div s.period + 2)}
  IN  {y \in {p + h : p \in s.sites[j].orbit, h \in shifts} : Abs(y - x) =< rmax}

BondsWithin(s, rmax) ==
  UNION {LET x == Min(s.sites[i].orbit)
         IN  {[r01 |-> y - x, site0 |-> i, site1 |-> j] :
                y \in Images(s, j, x, rmax) \ {x}} : i, j \in Sites(s)}

Precedes(a, b) ==
  \/ a.site0 < b.site0
  \/ a.site0 = b.site0 /\ a.site1 < b.site1
  \/ a.site0 = b.site0 /\ a.site1 = b.site1 /\ a.r01 < b.r01

Ordered(bonds) ==
  [k \in 1..Cardinality(bonds) |->
     CHOOSE b \in bonds : Cardinality({c \in bonds : Precedes(c, b)}) = k - 1]

(* The chunks that the loop of CPU cpu out of n appends. *)
Appended(s, rmax, mask, cpu, n) ==
  LET bonds == Ordered(BondsWithin(s, rmax))
      outer == (n - 1) * SitesPerCpu =< Len(s.sites) - 1
      mine(k) == IF outer THEN (cpu + bonds[k].site0 - 1) % n = 0
                 ELSE (cpu + k - 1) % n = 0
      kept == SelectSeq([k \in DOMAIN bonds |-> k],
                LAMBDA k : mine(k) /\ {bonds[k].site0, bonds[k].site1} \notin mask)
  IN  [k \in DOMAIN kept |-> bonds[kept[k]]]

-----------------------------------------------------------------------------
(* The table of radii and the cache.                                       *)

Lookup(t, symbol) ==
  IF symbol \in DOMAIN t.custom THEN t.custom[symbol] ELSE t.default

(* Slip: half of the largest separation. *)
CacheWithMaxRadius(s) ==
  LET radii == [i \in Sites(s) |-> Lookup(table, s.sites[i].type)]
  IN  [siteradii |-> radii, maxseparation |-> Max({0} \cup Range(radii))]

CacheStructureData(s) ==
  LET radii == [i \in Sites(s) |-> Lookup(table, s.sites[i].type)]
  IN  [siteradii |-> radii, maxseparation |-> 2 * Max({0} \cup Range(radii))]

RmaxUsed(cache) == Min({mrmax, cache.maxseparation})

-----------------------------------------------------------------------------
(* Answers.                                                                *)

(* The radius of site k with those of sites i and j exchanged. *)
RadiusAt(k, i, j) ==
  mstructure_cache.siteradii[CASE k = i -> j [] k = j -> i [] OTHER -> k]

SubOverlap(b, i, j) ==
  Max({0, RadiusAt(b.site0, i, j) + RadiusAt(b.site1, i, j) - Abs(b.r01)})

Overlap(b) == SubOverlap(b, 1, 1)

Overlapping == SelectSeq(mvalue, LAMBDA b : Overlap(b) > 0)

SumOver(seq, f(_)) == FoldLeft(LAMBDA sum, b : sum + f(b), 0, seq)

(* Twice siteSquareOverlaps. *)
SiteSquareOverlaps(i) ==
  SumOver(SelectSeq(mvalue, LAMBDA b : b.site0 = i),
          LAMBDA b : Overlap(b) * Overlap(b) * Occupancy(b.site1))

TotalSquareOverlap ==
  MapThenSumSet(LAMBDA i : SiteSquareOverlaps(i) * Multiplicity(i) * Occupancy(i),
                Sites(mstructure))

BondsFrom(i) == SelectSeq([k \in DOMAIN mvalue |-> k], LAMBDA k : mvalue[k].site0 = i)

(* What the first use of the index makes of it. *)
Indexed == [i \in Sites(mstructure) |-> mneighborids[i] \o BondsFrom(i)]

GetNeighborIds(i) == IF mneighborids_cached THEN mneighborids[i] ELSE Indexed[i]

NeighborBonds(i) ==
  LET ids == GetNeighborIds(i) IN [k \in DOMAIN ids |-> mvalue[ids[k]]]

GetNeighborSites(i) ==
  {b.site1 : b \in {c \in ToSet(NeighborBonds(i)) : Overlap(c) > 0}}

Coordinations(i) ==
  SumOver(SelectSeq(Overlapping, LAMBDA b : b.site0 = i), LAMBDA b : Occupancy(b.site1))

CoordinationByTypes(i, type) ==
  SumOver(SelectSeq(NeighborBonds(i),
            LAMBDA b : Overlap(b) > 0 /\ mstructure.sites[b.site1].type = type),
          LAMBDA b : Occupancy(b.site1))

(* Slip: every bond of the two sites is counted once. *)
FlipDiffTotalOneWay(i, j) ==
  IF RadiusAt(i, i, i) = RadiusAt(j, j, j) THEN 0
  ELSE SumOver(NeighborBonds(i) \o NeighborBonds(j),
         LAMBDA b : Occupancy(b.site0) * Occupancy(b.site1) * Multiplicity(b.site0)
                    * (SubOverlap(b, i, j) * SubOverlap(b, i, j) - Overlap(b) * Overlap(b)))

(***************************************************************************)
(* Twice flipDiffTotal.  Only bonds from the two sites are visited, and    *)
(* those to other sites stand for the bonds in the other direction too.    *)
(***************************************************************************)
FlipDiffTotal(i, j) ==
  IF RadiusAt(i, i, i) = RadiusAt(j, j, j) THEN 0
  ELSE MapThenSumSet(
         LAMBDA k : LET b == mvalue[k]
                    IN  (IF b.site0 = b.site1 THEN 1 ELSE 2)
                        * Occupancy(b.site0) * Occupancy(b.site1) * Multiplicity(b.site0)
                        * (SubOverlap(b, i, j) * SubOverlap(b, i, j) - Overlap(b) * Overlap(b)),
         ToSet(GetNeighborIds(i)) \cup ToSet(GetNeighborIds(j)))

Gradient(j) ==
  SumOver(SelectSeq(Overlapping, LAMBDA b : b.site1 = j),
          LAMBDA b : -2 * Overlap(b) * Sign(b.r01))

-----------------------------------------------------------------------------
(* Neighborhoods: each site points to a set of sites or to none (zero);    *)
(* a set is named after the site it was made for.                          *)

Claimed(groups, i) ==
  IF groups.at[i] # 0 THEN groups
  ELSE [at |-> [groups.at EXCEPT ![i] = i], members |-> [groups.members EXCEPT ![i] = {i}]]

Invited(groups, i, j) ==
  IF groups.at[j] # 0 THEN groups
  ELSE LET p == groups.at[i]
       IN  [at |-> [groups.at EXCEPT ![j] = p],
            members |-> [groups.members EXCEPT ![p] = @ \cup {j}]]

(* Slip: only the site at hand points to the united set. *)
UnitedAtOneSite(groups, i, j) ==
  LET p == groups.at[i]
      q == groups.at[j]
  IN  [at |-> [groups.at EXCEPT ![j] = p],
       members |-> [groups.members EXCEPT ![p] = @ \cup groups.members[q]]]

United(groups, i, j) ==
  LET p == groups.at[i]
      q == groups.at[j]
  IN  [at |-> [k \in DOMAIN groups.at |-> IF k \in groups.members[q] THEN p ELSE groups.at[k]],
       members |-> [groups.members EXCEPT ![p] = @ \cup groups.members[q]]]

(* Sites without overlaps are on their own, unless all their pairs are masked. *)
Alone(groups) ==
  {i \in DOMAIN groups.at : groups.at[i] = 0 /\ \E j \in DOMAIN groups.at : {i, j} \notin masked}

Neighborhoods ==
  LET none == [at |-> [i \in Sites(mstructure) |-> 0],
               members |-> [i \in Sites(mstructure) |-> {}]]
      join(groups, b) == United(Invited(Claimed(groups, b.site0), b.site0, b.site1),
                                b.site0, b.site1)
      groups == FoldLeft(join, none, Overlapping)
  IN  {groups.members[p] : p \in Range(groups.at) \ {0}} \cup {{i} : i \in Alone(groups)}

-----------------------------------------------------------------------------
(* Actions.                                                                *)

(* resetValue in the course of setStructure. *)
Reset(s) ==
  /\ mstructure' = s
  /\ mstructure_cache' = CacheStructureData(s)
  /\ mneighborids' = [i \in Sites(s) |-> <<>>]
  /\ mneighborids_cached' = FALSE
  /\ used' = [rmax |-> mrmax, masked |-> masked]
  /\ disturbed' = {}
  /\ edits' = 0
  /\ UNCHANGED <<table, mrmax, masked>>

Eval(s) ==
  /\ Reset(s)
  /\ mvalue' = Appended(s, RmaxUsed(CacheStructureData(s)), masked, 0, 1)
  /\ missing' = {}

(* A master of parallel workers that are sent this calculator and evaluate s. *)
SetStructure(s) ==
  /\ Reset(s)
  /\ mvalue' = <<>>
  /\ missing' = 0..(Ncpu - 1)

(* The shares arrive in any order and are appended to the list. *)
MergeParallelData(cpu) ==
  /\ cpu \in missing
  /\ mvalue' = mvalue \o Appended(mstructure, Min({used.rmax, mstructure_cache.maxseparation}),
                                  used.masked, cpu, Ncpu)
  /\ missing' = missing \ {cpu}
  /\ disturbed' = IF mneighborids_cached THEN disturbed \cup {"merge"} ELSE disturbed
  /\ UNCHANGED <<config, mstructure, mstructure_cache, used, mneighborids, mneighborids_cached>>

(* Any question that needs the index makes it. *)
AskForNeighbors ==
  /\ ~mneighborids_cached
  /\ mneighborids' = Indexed
  /\ mneighborids_cached' = TRUE
  /\ UNCHANGED <<config, value, disturbed>>

(***************************************************************************)
(* The calculator is saved and loaded: the index is in the archive, the    *)
(* flag that says so is not.  Once for a list: every further time would    *)
(* make the index longer.                                                  *)
(***************************************************************************)
Reload ==
  /\ "reload" \notin disturbed
  /\ mneighborids_cached' = FALSE
  /\ disturbed' = IF \E i \in DOMAIN mneighborids : mneighborids[i] # <<>>
                  THEN disturbed \cup {"reload"} ELSE disturbed
  /\ UNCHANGED <<config, value, mneighborids>>

(* Setters of the table click no ticker and leave the cached radii alone. *)
Edit == edits < MaxEdits /\ edits' = edits + 1

SetTable(t) ==
  /\ Edit
  /\ table' = t
  /\ UNCHANGED <<mrmax, masked, value, index>>

SetCustom(symbol, r) == SetTable([table EXCEPT !.custom = (symbol :> r) @@ @])

ResetCustom(symbol) ==
  SetTable([table EXCEPT !.custom = Restrict(@, DOMAIN @ \ {symbol})])

ResetAll == SetTable([table EXCEPT !.custom = <<>>])

(* Either all entries are well formed or none is used. *)
FromString(entries) ==
  SetTable([table EXCEPT !.custom = [a \in {e[1] : e \in entries} |-> (CHOOSE e \in entries : e[1] = a)[2]] @@ @])

SetDefault(r) == SetTable([table EXCEPT !.default = r])

SetRmax(r) ==
  /\ Edit
  /\ mrmax' = r
  /\ UNCHANGED <<table, masked, value, index>>

SetMask(m) ==
  /\ Edit
  /\ masked' = m
  /\ UNCHANGED <<table, mrmax, value, index>>

Init ==
  /\ mstructure = NoStructure
  /\ table = [custom |-> <<>>, default |-> 0]
  /\ mrmax \in Rmaxes
  /\ masked = {}
  /\ mstructure_cache = [siteradii |-> <<>>, maxseparation |-> 0]
  /\ mvalue = <<>>
  /\ mneighborids = <<>>
  /\ mneighborids_cached = FALSE
  /\ missing = {}
  /\ used = [rmax |-> mrmax, masked |-> masked]
  /\ disturbed = {}
  /\ edits = 0

Next ==
  \/ \E s \in Structures : Eval(s) \/ SetStructure(s)
  \/ \E cpu \in missing : MergeParallelData(cpu)
  \/ AskForNeighbors
  \/ Reload
  \/ \E a \in AtomTypes, r \in Radii : SetCustom(a, r)
  \/ \E a \in AtomTypes : ResetCustom(a)
  \/ ResetAll
  \/ \E t \in Tables : SetTable(t)
  \/ \E entries \in Entries : FromString(entries)
  \/ \E r \in Radii : SetDefault(r)
  \/ \E r \in Rmaxes : SetRmax(r)
  \/ \E m \in Masks : SetMask(m)

Spec == Init /\ [][Next]_vars

-----------------------------------------------------------------------------
(* Properties.                                                             *)

Complete == missing = {}

TypeOK ==
  /\ mstructure \in Structures
  /\ DOMAIN table.custom \subseteq AtomTypes
  /\ DOMAIN mstructure_cache.siteradii = Sites(mstructure)
  /\ \A k \in DOMAIN mvalue :
       /\ mvalue[k].site0 \in Sites(mstructure) /\ mvalue[k].site1 \in Sites(mstructure)
       /\ Abs(mvalue[k].r01) \in 1..mstructure_cache.maxseparation
  /\ DOMAIN mneighborids = Sites(mstructure)
  /\ \A i \in Sites(mstructure) : ToSet(mneighborids[i]) \subseteq DOMAIN mvalue
  /\ missing \subseteq 0..(Ncpu - 1)

(* All bonds of two atoms that overlap, told from geometry. *)
TrueOverlaps ==
  {b \in BondsWithin(mstructure, used.rmax) :
     /\ Overlap(b) > 0
     /\ {b.site0, b.site1} \notin used.masked}

CoordinationsAdd ==
  \A i \in Sites(mstructure) :
    Coordinations(i) = MapThenSumSet(LAMBDA a : CoordinationByTypes(i, a), AtomTypes)

NeighborsAreMutual ==
  \A i, j \in Sites(mstructure) : i \in GetNeighborSites(j) <=> j \in GetNeighborSites(i)

(***************************************************************************)
(* The list of overlaps is complete and has no bond twice, although it is  *)
(* cut at the largest separation and may be appended from shares; changes  *)
(* of the table since then do not matter (OverlapCalculator.cpp:523).      *)
(* What is read from the index of neighbors, which outlives lists, agrees  *)
(* with what is read from the list: coordination numbers of types add up,  *)
(* and neighbors are mutual (OverlapCalculator.cpp:547).                   *)
(***************************************************************************)
OverlapsAreListed ==
  /\ Complete => /\ ToSet(Overlapping) = TrueOverlaps
                 /\ Len(Overlapping) = Cardinality(TrueOverlaps)
  /\ disturbed = {} => CoordinationsAdd /\ (Complete => NeighborsAreMutual)

(***************************************************************************)
(* neighborhoods are the connected components of the overlaps, in whatever *)
(* order bonds come; a site is left out only if it touches none and all    *)
(* its pairs are masked (OverlapCalculator.cpp:313).                       *)
(***************************************************************************)
NeighborhoodsAreComponents ==
  LET sites == Sites(mstructure)
      touching == {<<b.site0, b.site1>> : b \in TrueOverlaps}
      connected == ConnectionsIn([node |-> sites, edge |-> touching])
      hood(i) == {i} \cup {j \in sites : connected[i, j]}
  IN  Complete =>
        Neighborhoods = {hood(i) : i \in {k \in sites :
                           \/ \E e \in touching : k \in {e[1], e[2]}
                           \/ \E j \in sites : {k, j} \notin masked}}

(* The total if the radii of sites i and j were exchanged. *)
TotalFlipped(i, j) ==
  SumOver(mvalue, LAMBDA b :
            SubOverlap(b, i, j) * SubOverlap(b, i, j) * Multiplicity(b.site0)
            * Occupancy(b.site0) * Occupancy(b.site1))

(* The total if site k were moved by h. *)
TotalMoved(k, h) ==
  LET s == [mstructure EXCEPT !.sites[k].orbit = {p + h : p \in @}]
      bonds == {b \in BondsWithin(s, used.rmax) : {b.site0, b.site1} \notin used.masked}
  IN  MapThenSumSet(LAMBDA b : Overlap(b) * Overlap(b) * Occupancy(b.site0) * Occupancy(b.site1)
                               * Cardinality(s.sites[b.site0].orbit), bonds)

(* The total has a slope at site k that a symmetric difference of two tells. *)
Smooth(k) ==
  \A b \in BondsWithin(mstructure, used.rmax + 1) :
    k \in {b.site0, b.site1} =>
      /\ Abs(b.r01) > 1 /\ Abs(b.r01) < used.rmax
      /\ RadiusAt(b.site0, 1, 1) + RadiusAt(b.site1, 1, 1) # Abs(b.r01)

SimpleSites ==
  \A i \in Sites(mstructure) : Occupancy(i) = 1 /\ Multiplicity(i) = 1

(***************************************************************************)
(* flipDiffTotal, which looks at the bonds of two sites, tells by how much *)
(* the total over all bonds changes when their radii are exchanged         *)
(* (OverlapCalculator.cpp:184).  The index it uses must be that of the     *)
(* list; a doubled one does no harm.  gradients are the slopes of the      *)
(* total at each site (OverlapCalculator.cpp:228), for structures without  *)
(* partial occupancies and symmetry.                                       *)
(***************************************************************************)
ChangesAreExact ==
  Complete =>
    /\ "merge" \notin disturbed =>
         \A i, j \in Sites(mstructure) :
           FlipDiffTotal(i, j) = TotalFlipped(i, j) - TotalSquareOverlap
    /\ SimpleSites =>
         \A k \in Sites(mstructure) :
           Smooth(k) => 4 * Gradient(k) = TotalMoved(k, 1) - TotalMoved(k, -1)
=============================================================================
