------------------------------- MODULE Shares --------------------------------
(***************************************************************************)
(* How the evaluators deal out the bonds of a structure to the CPUs of a   *)
(* parallel run.  The complete sum deals out whole anchors or single bonds,*)
(* the update always anchors, in an order of its own.                      *)
(*                                                                         *)
(* `bonds` are the visits <<i, j>> in which the generator finds a bond.    *)
(***************************************************************************)
EXTENDS PairSum

CONSTANT SitesPerCpu    \* 1 / CPU_LOAD_VARIANCE

ASSUME LoadAssumption == SitesPerCpu \in Nat \ {0}

-----------------------------------------------------------------------------
(* Whatever is counted by the loop counter n, which starts at the index of *)
(* the CPU, falls to the CPU where n is a multiple of ncpu.                *)

(* Slip: every CPU starts to count at zero. *)
MineFromZero(index, n, position) == position % n = 0

Mine(index, n, position) == (index + position) % n = 0

(* Few sites are not worth splitting the outer loop. *)
ChopOuter(s, n) == (n - 1) * SitesPerCpu =< CountSites(s) - 1

Precedes(v, w) == v[1] < w[1] \/ (v[1] = w[1] /\ v[2] < w[2])

(* Bonds before v in the order of the loops of PQEvaluatorBasic. *)
BondPosition(bonds, v) == Cardinality({w \in bonds : Precedes(w, v)})

ShareOfAll(s, bonds, index, n) ==
  IF n = 1 THEN bonds
  ELSE IF ChopOuter(s, n) THEN {v \in bonds : Mine(index, n, v[1] - 1)}
  ELSE {v \in bonds : Mine(index, n, BondPosition(bonds, v))}

Rank(set, i) == Cardinality({j \in set : j < i})

(* The first loop of an update anchors at the popped sites first. *)
PopPosition(s, pop, i) ==
  IF i \in pop THEN Rank(pop, i) ELSE Cardinality(pop) + Rank(Sites(s) \ pop, i)

(* Number of anchors in the first loop. *)
PopAnchors(s, pop) == IF FullSum /\ pop # {} THEN CountSites(s) ELSE Cardinality(pop)

(* The second loop anchors at the added sites last, and counts on. *)
AddPosition(s, pop, t, add, i) ==
  LET first == PopAnchors(s, pop)
      unchanged == Sites(t) \ add
  IN  IF i \notin add THEN first + Rank(unchanged, i)
      ELSE IF FullSum THEN first + Cardinality(unchanged) + Rank(add, i)
      ELSE first + Rank(add, i)

ShareOfPopped(s, pop, bonds, index, n) ==
  {v \in bonds : Mine(index, n, PopPosition(s, pop, v[1]))}

ShareOfAdded(s, pop, t, add, bonds, index, n) ==
  {v \in bonds : Mine(index, n, AddPosition(s, pop, t, add, v[1]))}
=============================================================================
