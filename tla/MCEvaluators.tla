---------------------------- MODULE MCEvaluators -----------------------------
(***************************************************************************)
(* PairQuantity for calculators that use the half sum and cache a factor   *)
(* for each site, as PDFCalculator does.  A behaviour is of one size: with *)
(* the structures of MCSmall, or with "seven" sites, the least number that *)
(* allows two sites to be replaced in one update, so that the pair of the  *)
(* two replaced sites is removed and added as well.                        *)
(***************************************************************************)
EXTENDS MCSmall

VARIABLE size

Seven == <<At(1, "C"), At(2, "C"), At(3, "C"), At(4, "O"), At(5, "C"), At(6, "O"), At(7, "C")>>

Complete == Cluster(Seven)

(* Two sites replaced: one atom moves, another changes its type. *)
TwoChanged == Cluster([Seven EXCEPT ![3] = At(8, "C"), ![6] = At(6, "C")])

(* A site erased from the middle: the others match in another order. *)
Erased == Cluster(<<Seven[1], Seven[3], Seven[4], Seven[5], Seven[6], Seven[7]>>)

(* Two sites with equal atoms. *)
WithEqualAtoms == Cluster([Seven EXCEPT ![7] = Seven[2]])

(* A structure that reconfigures the calculator. *)
Reconfigures == [Complete EXCEPT !.custom = "c2"]

(* The same atoms in a lattice. *)
InLattice == Lattice(Complete, "periodic", "cubic", "none")

SevenMasks ==
  {NoMask,
   [NoMask EXCEPT !.pairs = {{1, 3}, {3, 6}, {4}}],
   [NoMask EXCEPT !.types = {{"C", "O"}}]}

OfSeven == INSTANCE PairQuantity WITH
  Structures <- {MCEmpty, Complete, TwoChanged, Erased, WithEqualAtoms, Reconfigures, InLattice},
  Presets <- {}, Masks <- SevenMasks, MaxTick <- 4

ASSUME SevenAssumption == OfSeven!CalculatorAssumption

(* Calculators and evaluators keep their types.                            *)
TypesOK == IF size = "seven" THEN OfSeven!TypeOK ELSE TypeOK

MCInit ==
  \/ size = "small" /\ Init
  \/ size = "seven" /\ OfSeven!Init

MCNext ==
  /\ UNCHANGED size
  /\ \/ size = "small" /\ Next
     \/ size = "seven" /\ OfSeven!Next

MCSpec == MCInit /\ [][MCNext]_<<size, vars>>
=============================================================================
