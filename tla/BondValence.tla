----------------------------- MODULE BondValence -----------------------------
(***************************************************************************)
(* BVSCalculator and PairCounter: half sums over the bonds of a structure, *)
(* and the table of bond parameters that the valences come from.           *)
(*                                                                         *)
(* Atoms lie on a line and a site is an orbit of equivalent positions.     *)
(* Every parameter has the softness 1 / ln 2 or none, so a bond one unit   *)
(* longer has half of the valence; valences are counted in 2^-Finest and   *)
(* the halves that the code adds up are kept undivided.                    *)
(***************************************************************************)
EXTENDS Integers, FiniteSets, SequencesExt, FiniteSetsExt, Functions, TLC

CONSTANTS
  Structures,    \* sequences of [orbit, type, occupancy]
  AtomTypes,     \* records [bare, digit, sign]: a symbol with its trailing ion charge
  NoDigit,       \* no digit before the sign
  StandardSet,   \* the parameters in bvparm2011sel.cif
  CustomParams,  \* parameters a user may set
  AtomValences,  \* pairs of an atom type and a valence a user may assign to it
  Rmaxes,
  Precisions,    \* m stands for the valence precision 2^-m
  Finest,        \* no bond is longer than the largest Ro plus Finest
  MaxEdits       \* bound on changes of the configuration between two sums

BondValenceAssumption ==
  /\ MaxEdits \in Nat /\ Finest \in Nat
  /\ <<>> \in Structures
  /\ \A t \in AtomTypes : t.sign \in {-1, 0, 1} /\ t.digit \in {NoDigit} \cup 0..9

VARIABLES
  mcustomtable,
  matomvalence,        \* custom valences by atom type
  the_set,             \* the standard table, static in the process
  mvalenceprecision,
  mrmax,
  mstructure,
  mstructure_cache,    \* site -> bare symbol and valence
  mvalue,              \* twice the valence sums
  used,                \* history: what the last complete sum was made with, or Nothing
  edits                \* changes of the configuration since

table == <<mcustomtable, matomvalence>>
config == <<mvalenceprecision, mrmax>>
value == <<mstructure, mstructure_cache, mvalue, used>>
vars == <<table, the_set, config, value, edits>>

-----------------------------------------------------------------------------
(* Symbols.                                                                *)

(* All trailing digits but nine are taken off. *)
AtomBareSymbol(t) == IF t.digit = 9 THEN <<t.bare, 9>> ELSE <<t.bare>>

AtomValence(t) == IF t.digit \in 0..8 THEN t.sign * t.digit ELSE t.sign

GetAtomValence(t) ==
  IF t \in DOMAIN matomvalence THEN matomvalence[t] ELSE AtomValence(t)

-----------------------------------------------------------------------------
(* Parameters and their table.                                             *)

(* The cation is put first; atoms of equal valence stay as they came. *)
BVParam(a0, v0, a1, v1, Ro, B) ==
  IF v0 < v1
  THEN [atom0 |-> a1, valence0 |-> v1, atom1 |-> a0, valence1 |-> v0, Ro |-> Ro, B |-> B]
  ELSE [atom0 |-> a0, valence0 |-> v0, atom1 |-> a1, valence1 |-> v1, Ro |-> Ro, B |-> B]

None == BVParam(<<>>, 0, <<>>, 0, 0, 0)

(* The table hashes and compares the atoms and valences only. *)
BondEqual(p, q) == [p EXCEPT !.Ro = 0, !.B = 0] = [q EXCEPT !.Ro = 0, !.B = 0]

Find(params, key) == {p \in params : BondEqual(p, key)}

(* Where lookup searches, in turn; valence 9 stands for any cation. *)
Places(standard, key) ==
  LET nine == [key EXCEPT !.valence0 = IF key.valence0 > 0 THEN 9 ELSE @]
  IN  <<Find(mcustomtable, key), Find(standard, key), Find(mcustomtable, nine), Find(standard, nine)>>

LookupParam(standard, key) ==
  LET hits == SelectSeq(Places(standard, key), LAMBDA found : found # {})
  IN  IF hits = <<>> THEN None ELSE CHOOSE p \in hits[1] : TRUE

Lookup(standard, a, b) ==
  LookupParam(standard, BVParam(a.bare, a.valence, b.bare, b.valence, 0, 0))

(* What lookups see once the standard table is in memory. *)
Standard == IF the_set = "broken" THEN {} ELSE StandardSet

BondValence(p, distance) == IF p.B > 0 THEN 2^(Finest + p.Ro - distance) ELSE 0

BondValenceToDistance(p, m) == p.Ro + p.B * m

-----------------------------------------------------------------------------
(* Half sums.                                                              *)

Abs(x) == IF x < 0 THEN -x ELSE x
Sites(s) == DOMAIN s
Anchor(s, i) == Min(s[i].orbit)

Neighbors(s, i, j, rmax) ==
  {y \in s[j].orbit \ {Anchor(s, i)} : Abs(y - Anchor(s, i)) =< rmax}

Distances(s, i, j, rmax) ==
  {Abs(y - Anchor(s, i)) : y \in Neighbors(s, i, j, rmax)}

(* Neighbours of site i in orbit j at the given distance. *)
Count(s, i, j, d) == Cardinality({y \in Neighbors(s, i, j, d) : Abs(y - Anchor(s, i)) = d})

SumOverBonds(s, i, j, rmax, f(_)) ==
  MapThenSumSet(LAMBDA d : Count(s, i, j, d) * f(d), Distances(s, i, j, rmax))

SummationScale(i, j) == IF i = j THEN 1 ELSE 2

PM(valence) == IF valence >= 0 THEN 1 ELSE -1

(* Slip: each site adds its own occupancy instead of that of its neighbour. *)
AddOwnOccupancy(s, cache, standard, rmax, sums, i, j) ==
  LET p == Lookup(standard, cache[i], cache[j])
      v == SummationScale(i, j) * SumOverBonds(s, i, j, rmax, LAMBDA d : BondValence(p, d))
      first == [sums EXCEPT ![i] = @ + PM(cache[i].valence) * v * s[i].occupancy]
  IN  [first EXCEPT ![j] = @ + PM(cache[j].valence) * v * s[j].occupancy]

(* What the bonds from anchor i to the sites up to i add to both ends. *)
AddPairContribution(s, cache, standard, rmax, sums, i, j) ==
  LET p == Lookup(standard, cache[i], cache[j])
      v == SummationScale(i, j) * SumOverBonds(s, i, j, rmax, LAMBDA d : BondValence(p, d))
      first == [sums EXCEPT ![i] = @ + PM(cache[i].valence) * v * s[j].occupancy]
  IN  [first EXCEPT ![j] = @ + PM(cache[j].valence) * v * s[i].occupancy]

Pairs(s) == {ij \in Sites(s) \X Sites(s) : ij[2] =< ij[1]}

ValenceSums(s, cache, standard, rmax) ==
  FoldSet(LAMBDA ij, sums : AddPairContribution(s, cache, standard, rmax, sums, ij[1], ij[2]),
          [i \in Sites(s) |-> 0], Pairs(s))

(* Twice what PairCounter counts. *)
PairCounter(s, rmax) ==
  MapThenSumSet(LAMBDA ij : SummationScale(ij[1], ij[2])
                            * SumOverBonds(s, ij[1], ij[2], rmax, LAMBDA d : 1),
                Pairs(s))

CacheStructureData(s) ==
  [i \in Sites(s) |-> [bare |-> AtomBareSymbol(s[i].type), valence |-> GetAtomValence(s[i].type)]]

(* Every pair is looked up once, in the order of the hash table. *)
UsedParams(found, order) ==
  UNION {{found[order[k], order[l]] : l \in k..Len(order)} : k \in DOMAIN order}

RmaxFromPrecision(used_params) ==
  Max({0} \cup {BondValenceToDistance(p, mvalenceprecision) : p \in used_params})

(* One for each order. *)
RmaxesUsed(cache, standard) ==
  LET found == [a, b \in Range(cache) |-> Lookup(standard, a, b)]
  IN  {Min({mrmax, RmaxFromPrecision(UsedParams(found, order))}) : order \in SetToSeqs(Range(cache))}

(* The standard table is not read while custom entries answer everything. *)
NeedsStandardSet(cache) ==
  \E a, b \in Range(cache) :
    Find(mcustomtable, BVParam(a.bare, a.valence, b.bare, b.valence, 0, 0)) = {}

-----------------------------------------------------------------------------
(* Actions.                                                                *)

Nothing == [rmax |-> -1, custom |-> {}, precision |-> 0, limit |-> 0]

(* resetValue in the course of setStructure. *)
Reset(s) ==
  /\ mstructure' = s
  /\ mstructure_cache' = CacheStructureData(s)
  /\ edits' = 0
  /\ UNCHANGED <<table, config>>

SetStructure(s) ==
  /\ Reset(s)
  /\ mvalue' = [i \in Sites(s) |-> 0]
  /\ used' = Nothing
  /\ UNCHANGED the_set

(***************************************************************************)
(* The standard table is made on the first lookup that needs it, and made  *)
(* empty before the file is found and read: when that throws, all later    *)
(* lookups go without it.                                                  *)
(***************************************************************************)
FirstLookupFails == the_set = "unread" /\ the_set' = "broken"

FirstLookupReads == the_set' = IF the_set = "unread" THEN "read" ELSE the_set

Eval(s) ==
  LET cache == CacheStructureData(s)
  IN  /\ Reset(s)
      /\ IF NeedsStandardSet(cache) THEN FirstLookupReads ELSE UNCHANGED the_set
      /\ \E rmax \in RmaxesUsed(cache, Standard) :
           /\ mvalue' = ValenceSums(s, cache, Standard, rmax)
           /\ used' = [rmax |-> rmax, custom |-> mcustomtable,
                       precision |-> mvalenceprecision, limit |-> mrmax]

EvalThrows(s) ==
  /\ NeedsStandardSet(CacheStructureData(s))
  /\ FirstLookupFails
  /\ Reset(s)
  /\ mvalue' = [i \in Sites(s) |-> 0]
  /\ used' = Nothing

(* getAll, or a lookup of the user's. *)
ReadTable ==
  /\ the_set = "unread"
  /\ FirstLookupReads \/ FirstLookupFails
  /\ UNCHANGED <<table, config, value, edits>>

Edit == edits < MaxEdits /\ edits' = edits + 1

EditTable(custom, valences) ==
  /\ Edit
  /\ mcustomtable' = custom
  /\ matomvalence' = valences
  /\ UNCHANGED <<the_set, config, value>>

SetCustom(p) == EditTable((mcustomtable \ Find(mcustomtable, p)) \cup {p}, matomvalence)

ResetCustom(p) == EditTable(mcustomtable \ Find(mcustomtable, p), matomvalence)

ResetAll == EditTable({}, matomvalence)

SetAtomValence(t, v) == EditTable(mcustomtable, (t :> v) @@ matomvalence)

ResetAtomValences == EditTable(mcustomtable, <<>>)

(* A new table; the standard one is shared. *)
SetBVParamTable == EditTable({}, <<>>)

EditConfig(m, r) ==
  /\ Edit
  /\ mvalenceprecision' = m
  /\ mrmax' = r
  /\ UNCHANGED <<table, the_set, value>>

SetValencePrecision(m) == EditConfig(m, mrmax)

SetRmax(r) == EditConfig(mvalenceprecision, r)

Init ==
  /\ mcustomtable = {}
  /\ matomvalence = <<>>
  /\ the_set = "unread"
  /\ mvalenceprecision \in Precisions
  /\ mrmax \in Rmaxes
  /\ mstructure = <<>>
  /\ mstructure_cache = <<>>
  /\ mvalue = <<>>
  /\ used = Nothing
  /\ edits = 0

Next ==
  \/ \E s \in Structures : SetStructure(s) \/ Eval(s) \/ EvalThrows(s)
  \/ ReadTable
  \/ \E p \in CustomParams : SetCustom(p) \/ ResetCustom(p)
  \/ ResetAll
  \/ \E tv \in AtomValences : SetAtomValence(tv[1], tv[2])
  \/ ResetAtomValences
  \/ SetBVParamTable
  \/ \E m \in Precisions : SetValencePrecision(m)
  \/ \E r \in Rmaxes : SetRmax(r)

Spec == Init /\ [][Next]_vars

-----------------------------------------------------------------------------
(* Properties.                                                             *)

TypeOK ==
  /\ mcustomtable \subseteq CustomParams
  /\ DOMAIN matomvalence \subseteq AtomTypes
  /\ the_set \in {"unread", "read", "broken"}
  /\ mvalenceprecision \in Precisions /\ mrmax \in Rmaxes
  /\ mstructure \in Structures
  /\ DOMAIN mstructure_cache = Sites(mstructure)
  /\ mvalue \in [Sites(mstructure) -> Int]
  /\ used.rmax =< used.limit
  /\ edits \in 0..MaxEdits

Multiplicity(i) == Cardinality(mstructure[i].orbit)

(* The lookup of a pair depends on its order for two atoms of one valence. *)
OneWay(a, b) == a.valence = b.valence /\ a.bare # b.bare

(* The table as it was when the sum was made. *)
AsUsed == used # Nothing /\ used.custom = mcustomtable

(* Twice the valence sum of site i over all of its neighbours. *)
FullSum(i) ==
  MapThenSumSet(
    LAMBDA j : LET p == Lookup(StandardSet, mstructure_cache[i], mstructure_cache[j])
               IN  2 * PM(mstructure_cache[i].valence) * mstructure[j].occupancy
                   * SumOverBonds(mstructure, i, j, used.rmax, LAMBDA d : BondValence(p, d)),
    Sites(mstructure))

AgreesWithFullSum(i) ==
  \/ \E a, b \in Range(mstructure_cache) : OneWay(a, b)
  \/ mvalue[i] = FullSum(i)

LaterSitesAreAlike(i) ==
  \A j \in Sites(mstructure) : j > i => Multiplicity(j) = Multiplicity(i)

(* Bonds of sites i and j that rmax permits and the used range does not. *)
Neglected(i, j) == Distances(mstructure, i, j, used.limit) \ 0..used.rmax

IsSmall(i, j, d) ==
  LET a == mstructure_cache[i]
      b == mstructure_cache[j]
  IN  OneWay(a, b) \/ BondValence(Lookup(Standard, a, b), d) < 2^(Finest - used.precision)

BondsFrom(i) ==
  UNION {Neighbors(mstructure, i, j, mrmax) : j \in Sites(mstructure)}

(***************************************************************************)
(* The valence sum of a site, which a half sum collects while the site is  *)
(* an anchor and while it is a neighbour of others, runs over all of its   *)
(* neighbours in the range of bonds, and each bond that is beyond this     *)
(* range but not beyond rmax has less valence than the precision.  In the  *)
(* same way pairs are counted from both of their ends.  Left out: a site   *)
(* with a later one of another multiplicity, atoms of equal valence, and a *)
(* standard table that could not be read (addPairContribution and          *)
(* rmaxFromPrecision of BVSCalculator, PairCounter,                        *)
(* PQEvaluatorBasic::updateValue).                                         *)
(***************************************************************************)
HalfSumsAreFull ==
  /\ AsUsed =>
       \A i \in Sites(mstructure) :
         /\ LaterSitesAreAlike(i) /\ the_set # "broken" => AgreesWithFullSum(i)
         /\ \A j \in Sites(mstructure) : \A d \in Neglected(i, j) : IsSmall(i, j, d)
  /\ (\A i \in Sites(mstructure) : LaterSitesAreAlike(i)) =>
       PairCounter(mstructure, mrmax) =
         MapThenSumSet(LAMBDA i : Cardinality(BondsFrom(i)), Sites(mstructure))

(***************************************************************************)
(* The sum runs over all neighbours of every site, as the doc of bvdiff    *)
(* has it: the difference between expected and calculated valence at each  *)
(* site (BVSCalculator.hpp:38).                                            *)
(***************************************************************************)
SumsAreValences ==
  AsUsed /\ the_set # "broken" => \A i \in Sites(mstructure) : AgreesWithFullSum(i)
=============================================================================
