------------------------------ MODULE MCShares -------------------------------
(***************************************************************************)
(* Sums and lists that several calculators make a share of.  A behaviour   *)
(* is of one part, "sum" of ParallelRun or "bonds" of BondCalculator;      *)
(* variables of the other keep a value.                                    *)
(***************************************************************************)
EXTENDS ParallelRun, TLC

CONSTANT Parts

VARIABLES
  part,
  ncpu, config, fresh, evtype, last, lists, stash, thrown, aborted, whole, bondmaster

bondvars == <<ncpu, config, fresh, evtype, last, lists, stash, thrown, aborted, whole, bondmaster>>

allvars == <<part, vars, bondvars>>

Row(points) ==
  [kind |-> "atomic", wrap |-> "none", cell |-> NoCell,
   atoms |-> [i \in DOMAIN points |-> [at |-> points[i], type |-> "C"]],
   custom |-> KeepConfig]

-----------------------------------------------------------------------------
(***************************************************************************)
(* Two CPUs and two structures.  Four sites are the least number that      *)
(* allows a site to be replaced in an update; the larger structure has a   *)
(* moved site and one more, and too many changes for an update back.  The  *)
(* outer loop is split for five sites and not for four: CPU_LOAD_VARIANCE  *)
(* is 1/4, where the source has 1/10.                                      *)
(***************************************************************************)
MCStructures == {Row(<<1, 2, 3, 4>>), Row(<<1, 2, 6, 4, 5>>)}

Alike == Permutations(Workers)

-----------------------------------------------------------------------------
(***************************************************************************)
(* Four sites on a line, the least number that lets one be replaced in an  *)
(* update.  Distances repeat, so that site indices decide the order.       *)
(***************************************************************************)
Plain == Row(<<1, 3, 5, 6>>)
Moved == Row(<<1, 3, 4, 6>>)
Longer == Row(<<1, 3, 5, 6, 8>>)
Turned == Row(<<6, 5, 3, 1>>)
Customised == [Moved EXCEPT !.custom = "own"]

Bonds == INSTANCE BondCalculator WITH
  FullSum <- TRUE, FixedSites <- TRUE,
  Structures <- {Plain, Moved, Longer, Turned, Customised}, Shared <- {Plain, Moved, Turned},
  OwnConfig <- [rmax |-> 2, cones |-> {}], Ranges <- {2, 3}, DefaultRmax <- 3, Cones <- {{1}},
  Cpus <- {0, 1}, MaxPopped <- 2,
  mlast <- last, master <- bondmaster

ASSUME BondAssumption == Bonds!BondAssumption

(* Workers, masters and their lists keep their types.                      *)
TypesOK == TypeOK /\ (part = "bonds" => Bonds!TypeOK)

(* Calculators, and masters of merged shares, list all bonds.              *)
ListsAllBonds == part = "bonds" => Bonds!ListsAllBonds

(* On its own, a calculator never has more bonds to pop than bonds.        *)
PopsWhatItHas == part = "bonds" => Bonds!PopsWhatItHas

(* No worker has more bonds to pop than bonds.                             *)
WorkersPopWhatTheyHave == part = "bonds" => Bonds!WorkersPopWhatTheyHave

-----------------------------------------------------------------------------
MCInit ==
  /\ part \in Parts
  /\ Init /\ (part = "sum" \/ (mstructure = Row(<<1, 2, 3, 4>>) /\ \A w \in Workers : optimized[w]))
  /\ Bonds!Init /\ (part = "bonds" \/ (ncpu = 1 /\ \A w \in {0, 1} : config[w].cones = {}))

MCNext ==
  /\ UNCHANGED part
  /\ \/ part = "sum" /\ Next /\ UNCHANGED bondvars
     \/ part = "bonds" /\ Bonds!Next /\ UNCHANGED vars

MCSpec == MCInit /\ [][MCNext]_allvars
=============================================================================
