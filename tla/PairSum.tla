------------------------------- MODULE PairSum -------------------------------
(***************************************************************************)
(* The pair sum that every calculator of this library evaluates, and the   *)
(* pairs each loop of the evaluators visits.                               *)
(*                                                                         *)
(* A value is a ledger: a function from contributions to nonzero integers, *)
(* the number of times each contribution has been added (with its          *)
(* summation scale) less the times it has been removed.  A contribution is *)
(* identified by everything the number it stands for is computed from: the *)
(* frame of the structure, the two sites with the factors cached for them, *)
(* and the configuration of the calculator.                                *)
(***************************************************************************)
EXTENDS StructureDiff

CONSTANTS
  FullSum,      \* flag USEFULLSUM: every pair is visited from both its ends
  FixedSites    \* flag FIXEDSITEINDEX: results refer to sites by their index

ASSUME FlagsAssumption == FullSum \in BOOLEAN /\ FixedSites \in BOOLEAN

-----------------------------------------------------------------------------
(* Ledgers.                                                                *)

Empty == [k \in {} |-> 0]

Amount(ledger, k) == IF k \in DOMAIN ledger THEN ledger[k] ELSE 0

(* first + sign * second, with the contributions that cancel dropped. *)
Combine(first, sign, second) ==
  LET sum(k) == Amount(first, k) + sign * Amount(second, k)
  IN  [k \in {c \in DOMAIN first \cup DOMAIN second : sum(c) # 0} |-> sum(k)]

-----------------------------------------------------------------------------
(* Pairs and their contributions.  A visit <<i, j>> is a pair of sites of  *)
(* which i is the anchor of the bond generator.                            *)

(* cached[i] past the end of the cache is whatever the memory holds. *)
Garbage == "garbage"

Site(s, cached, i) ==
  [atom   |-> s.atoms[i],
   factor |-> IF i \in DOMAIN cached THEN cached[i] ELSE Garbage,
   index  |-> IF FixedSites THEN i ELSE 0]

Contribution(s, cached, config, v) ==
  LET a == Site(s, cached, v[1])
      b == Site(s, cached, v[2])
  IN  [frame  |-> Frame(s),
       ends   |-> IF FullSum THEN <<a, b>> ELSE {a, b},
       config |-> config]

(* summationscale, without the sign of a removal. *)
Scale(v) == IF FullSum \/ v[1] = v[2] THEN 1 ELSE 2

(* An atom bonds to a copy of itself only where the frame makes copies. *)
Bonded(s, v) == Frame(s).cell = NoCell => s.atoms[v[1]].at # s.atoms[v[2]].at

(* What a calculation sums up when its loop makes the given visits. *)
Tally(s, cached, config, visits) ==
  LET hits(k) == {v \in visits : Contribution(s, cached, config, v) = k}
  IN  [k \in {Contribution(s, cached, config, v) : v \in visits} |->
         Cardinality(hits(k)) + Cardinality({v \in hits(k) : Scale(v) = 2})]

-----------------------------------------------------------------------------
(* Masks: pairs hidden by site index or by atom type, never both.          *)

NoMask == [pairs |-> {}, types |-> {}]

HasPairMask(mask) == mask.pairs # {}

(***************************************************************************)
(* The type mask was spread to the site indices of the structure `shown'   *)
(* when that was set; the pair mask holds indices to begin with.           *)
(***************************************************************************)
Hidden(mask, shown, v) ==
  \/ {v[1], v[2]} \in mask.pairs
  \/ /\ v[1] \in Sites(shown) /\ v[2] \in Sites(shown)
     /\ {shown.atoms[v[1]].type, shown.atoms[v[2]].type} \in mask.types

Seen(s, shown, mask, visits) ==
  {v \in visits : Bonded(s, v) /\ ~Hidden(mask, shown, v)}

-----------------------------------------------------------------------------
(* The loops.                                                              *)

(* PQEvaluatorBasic: each site is anchored once. *)
AllVisits(s) ==
  {v \in Sites(s) \X Sites(s) : FullSum \/ v[2] =< v[1]}

(* Slip: popped sites anchored before stay selected. *)
PopVisitsReselected(s, pop) ==
  IF FullSum THEN {v \in Sites(s) \X Sites(s) : v[1] \in pop \/ v[2] \in pop}
  ELSE pop \X Sites(s)

(***************************************************************************)
(* PQEvaluatorOptimized, first loop.  With the half sum the anchors are    *)
(* the popped sites alone, and the popped sites anchored before are        *)
(* deselected; with the full sum the unchanged sites are anchored too, but *)
(* then only the popped ones are selected.                                 *)
(***************************************************************************)
PopVisits(s, pop) ==
  IF FullSum THEN {v \in Sites(s) \X Sites(s) : v[1] \in pop \/ v[2] \in pop}
  ELSE {v \in pop \X Sites(s) : v[2] \in pop => v[1] =< v[2]}

(***************************************************************************)
(* Second loop.  With the half sum an added site becomes active when it is *)
(* anchored, after all the unchanged ones.                                 *)
(***************************************************************************)
AddVisits(s, add) ==
  IF FullSum THEN {v \in Sites(s) \X Sites(s) : v[1] \in add \/ v[2] \in add}
  ELSE {v \in add \X Sites(s) : v[2] \in add => v[2] =< v[1]}

-----------------------------------------------------------------------------
(* Site factors.                                                           *)

(* The cache of scattering factors, as cacheStructureData leaves it. *)
SiteData(s) == [i \in Sites(s) |-> s.atoms[i].type]

(* The value of a complete evaluation of s. *)
FullValue(s, mask, config) ==
  Tally(s, SiteData(s), config, Seen(s, s, mask, AllVisits(s)))
=============================================================================
