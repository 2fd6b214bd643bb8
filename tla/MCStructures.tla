---------------------------- MODULE MCStructures -----------------------------
(***************************************************************************)
(* Structures and what is made of them.  A behaviour is of one part:       *)
(* "bonds" of BondGenerator, "lattice" of Lattice, "cell" of CrystalCell,  *)
(* "valence" of BondValence, "overlap" of Overlap, "objcryst" of           *)
(* ObjCrystAdapter; variables of the others keep a value.                  *)
(***************************************************************************)
EXTENDS BondGenerator

CONSTANTS Parts, Nil, NoDigit

VARIABLES
  part,
  lat, torn,
  stru, msymatoms, msymmetry_cached, unseen,
  mrmax, mstructure, mstructure_cache, mvalue, used, edits,
  mcustomtable, matomvalence, the_set, mvalenceprecision,
  table, masked, mneighborids, mneighborids_cached, missing, disturbed,
  crystal, adpt

latticevars == <<lat, torn>>
cellvars == <<stru, msymatoms, msymmetry_cached, unseen>>
sumvars == <<mrmax, mstructure, mstructure_cache, mvalue, used, edits>>
valencevars == <<mcustomtable, matomvalence, the_set, mvalenceprecision>>
overlapvars == <<table, masked, mneighborids, mneighborids_cached, missing, disturbed>>
objcrystvars == <<crystal, adpt>>

allvars == <<part, vars, latticevars, cellvars, sumvars, valencevars, overlapvars, objcrystvars>>

Diag(a, b, c) == <<<<a, 0, 0>>, <<0, b, 0>>, <<0, 0, c>>>>

Operation(R) == [R |-> R, t |-> <<0, 0, 0>>]

Same == Operation(Diag(1, 1, 1))
Inversion == Operation(Diag(-1, -1, -1))

MCSymOps == {Same, Inversion}

-----------------------------------------------------------------------------
(* A skew cell; a position near its border and one outside.                *)

MCL == <<<<4, 1, 1>>, <<0, 3, -1>>, <<0, 0, 2>>>>

MCPositions == {<<0, 0, 1>>, <<8, -8, 24>>}

MCRadii == {<<0, 2>>, <<8, 8>>}

-----------------------------------------------------------------------------
(* Cubic, oblong and oblique cells, turned and not.                        *)

(* Rows of lengths 5, 5 and 1, of which those of the reciprocal cell are integers. *)
Oblique == <<<<3, -4, 0>>, <<0, 5, 0>>, <<0, 0, 1>>>>
ReciprocalOblique == <<<<3, 4, 0>>, <<0, 5, 0>>, <<0, 0, 15>>>>
Mirror == <<<<3, -4, 0>>, <<0, 5, 0>>, <<0, 0, 15>>>>

Long == Diag(1, 2, 3)

(* These bases in other orientations, and two that setLatBase refuses. *)
MCBases ==
  {Long, <<<<0, 1, 0>>, <<-2, 0, 0>>, <<0, 0, 3>>>>, <<<<0, 1, 0>>, <<0, 0, 2>>, <<3, 0, 0>>>>,
   Oblique, <<<<4, 3, 0>>, <<-5, 0, 0>>, <<0, 0, 1>>>>, <<<<0, 3, -4>>, <<0, 0, 5>>, <<1, 0, 0>>>>,
   <<<<0, 1, 0>>, <<1, 0, 0>>, <<0, 0, 1>>>>, <<<<1, 0, 0>>, <<0, 1, 0>>, <<1, 1, 0>>>>}

Lat == INSTANCE Lattice WITH
  Grid <- 4, MaxIndex <- 8, MaxRadius <- 4, Shapes <- {Diag(1, 1, 1), Long, Oblique},
  StandardBases <- {Diag(1, 1, 1), Long, Oblique, Diag(6, 3, 2), ReciprocalOblique, Mirror},
  Bases <- MCBases, Coordinates <- {<<0, 0, 0>>, <<3, 0, -5>>, <<-1, 7, 2>>},
  Qranges <- {<<0, 2>>, <<3, 4>>}

ASSUME CellsAssumption == Lat!CellsAssumption

(* All members of a lattice belong to one base, unless a base was refused. *)
LatticeIsWhole == part = "lattice" => Lat!LatticeIsWhole

(* All reflections between two limits of Q are listed.                     *)
ReflectionsAreComplete == part = "lattice" => Lat!ReflectionsAreComplete

(* No reflection is listed with a Q below the lower limit.                 *)
NoneBelowQmin == part = "lattice" => Lat!NoneBelowQmin

-----------------------------------------------------------------------------
(***************************************************************************)
(* Two atoms, a center of inversion, and cells in which one of the atoms   *)
(* is on a center and not in the other.                                    *)
(***************************************************************************)
MCCells ==
  {[base |-> Diag(1, 1, 1), adj |-> Diag(1, 1, 1), det |-> 1],
   [base |-> Diag(2, 1, 1), adj |-> Diag(1, 2, 2), det |-> 2]}

Cell == INSTANCE CrystalCell WITH
  Grid <- 8, Cells <- MCCells,
  Atoms <- {[xyz |-> <<4, 0, 0>>, occupancy |-> 2], [xyz |-> <<4, 4, 0>>, occupancy |-> 1]},
  SymOps <- MCSymOps, Precisions <- {0, 1}, MaxAtoms <- 2

(* Images that questions are answered from are those of the present crystal. *)
ImagesAreCurrent == part = "cell" => Cell!ImagesAreCurrent

(***************************************************************************)
(* All equivalent atoms in the unit cell are returned, of the atoms and in *)
(* the cell of now, and those on the border of the cell too.               *)
(***************************************************************************)
EquivalentAtomsAreReturned ==
  /\ part = "cell" => Cell!EquivalentAtomsAreInCell
  /\ part = "bonds" => BorderIsRepresented

-----------------------------------------------------------------------------
(***************************************************************************)
(* A molecule, crystals in which sites have different multiplicities, and  *)
(* cations of a specified and an unspecified charge.                       *)
(***************************************************************************)
Site(orbit, type, occupancy) == [orbit |-> orbit, type |-> type, occupancy |-> occupancy]

Ion(bare, digit, sign) == [bare |-> bare, digit |-> digit, sign |-> sign]

Sodium == Ion("Na", NoDigit, 0)
Cation == Ion("Na", NoDigit, 1)
Calcium == Ion("Ca", 2, 1)
Fluoride == Ion("F", 1, -1)
Odd == Ion("Na", 9, 1)

Molecule ==
  <<Site({0}, Cation, 1), Site({2}, Fluoride, 2), Site({3}, Calcium, 1), Site({9}, Fluoride, 1)>>

(* A cation on the inversion center with an anion on both of its sides. *)
Fluorite == <<Site({0}, Calcium, 2), Site({-2, 2}, Fluoride, 1)>>

Bare == <<Site({2, -2}, Sodium, 1), Site({1, -1}, Odd, 1)>>

Param(atom0, valence0, atom1, valence1, Ro, B) ==
  [atom0 |-> <<atom0>>, valence0 |-> valence0, atom1 |-> <<atom1>>, valence1 |-> valence1,
   Ro |-> Ro, B |-> B]

Valence == INSTANCE BondValence WITH
  Structures <- {<<>>, Molecule, Fluorite, Bare},
  AtomTypes <- {Sodium, Cation, Calcium, Fluoride, Odd},
  StandardSet <- {Param("Na", 1, "F", -1, 2, 1), Param("Ca", 9, "F", -1, 3, 1)},
  CustomParams <- {Param("Na", 9, "F", -1, 4, 1), Param("Ca", 2, "F", -1, 3, 0),
                   Param("Na", 1, "F", -1, 3, 1)},
  AtomValences <- {<<Sodium, 1>>},
  Rmaxes <- {4, 20}, Precisions <- {1, 4}, Finest <- 10, MaxEdits <- 1

ASSUME BondValenceAssumption == Valence!BondValenceAssumption

(* The sums of valences and of pairs have every bond from both ends.       *)
HalfSumsAreFull == part = "valence" => Valence!HalfSumsAreFull

(* The valence of a site is the sum over its own bonds.                    *)
SumsAreValences == part = "valence" => Valence!SumsAreValences

-----------------------------------------------------------------------------
(***************************************************************************)
(* Five atoms, of which the last ones may or may not touch the others; and *)
(* a crystal with an inversion and a partly occupied site, whose atoms     *)
(* overlap with their own images and with more than one image of another.  *)
(***************************************************************************)
Ball(positions, type, occupancy) == [orbit |-> positions, type |-> type, occupancy |-> occupancy]

NoBalls == [sites |-> <<>>, period |-> 0]

Chain ==
  [NoBalls EXCEPT !.sites = <<Ball({4}, "A", 1), Ball({9}, "B", 1), Ball({0}, "B", 1),
                              Ball({7}, "A", 1), Ball({19}, "B", 1)>>]

Inverted == [sites |-> <<Ball({0}, "A", 2), Ball({3, -3}, "B", 1)>>, period |-> 8]

Overlaps == INSTANCE Overlap WITH
  Structures <- {NoBalls, Chain, Inverted}, NoStructure <- NoBalls, AtomTypes <- {"A", "B"},
  Radii <- {3}, Tables <- {[custom |-> <<>>, default |-> 0]}, Entries <- {{<<"A", 3>>, <<"B", 4>>}},
  Rmaxes <- {4, 12}, Masks <- {{}, {{1, 3}, {3}, {3, 2}, {3, 4}, {3, 5}}},
  Ncpu <- 2, MaxEdits <- 1, SitesPerCpu <- 3

ASSUME OverlapAssumption == Overlaps!OverlapAssumption

(* Every pair of touching atoms is listed, from both of its ends.          *)
OverlapsAreListed == part = "overlap" => Overlaps!OverlapsAreListed

(* Changes of the total by flips and moves are told from local bonds.      *)
ChangesAreExact == part = "overlap" => Overlaps!ChangesAreExact

(* neighborhoods() are the connected components of the overlaps.           *)
NeighborhoodsAreComponents == part = "overlap" => Overlaps!NeighborhoodsAreComponents

-----------------------------------------------------------------------------
(***************************************************************************)
(* Space groups with translations, screws, and inversion centers away from *)
(* the origin, and a cell in which a mirror mixes axes of two lengths.     *)
(***************************************************************************)
CellOf(base, normbase, reclengths) ==
  [base |-> base, adj |-> Lat!Adjugate(base), det |-> Lat!Determinant(base),
   normbase |-> normbase, normadj |-> Lat!Adjugate(normbase), normdet |-> Lat!Determinant(normbase),
   reclengths |-> reclengths]

Cubic == CellOf(Diag(1, 1, 1), Diag(1, 1, 1), <<1, 1, 1>>)
Tetragonal == CellOf(Diag(2, 2, 1), Diag(1, 1, 1), <<1, 1, 2>>)
Monoclinic ==
  CellOf(<<<<1, 0, 0>>, <<0, 1, 0>>, <<3, 0, 4>>>>, <<<<5, 0, 0>>, <<0, 4, 0>>, <<3, 0, 4>>>>, <<5, 4, 1>>)
Centered ==
  CellOf(<<<<6, 0, 0>>, <<3, 4, 0>>, <<0, 0, 1>>>>, <<<<5, 0, 0>>, <<3, 4, 0>>, <<0, 0, 4>>>>, <<5, 6, 24>>)

Origin == <<0, 0, 0>>
Body == <<8, 8, 8>>
Turn == <<<<0, -1, 0>>, <<1, 0, 0>>, <<0, 0, 1>>>>

Group(smx, trx, inversion) == [smx |-> smx, trx |-> trx, inversion |-> inversion]

Fourfold == <<Same, Operation(Turn), Operation(Diag(-1, -1, 1)), Operation(Lat!Transpose(Turn))>>
Screw == <<Same, [R |-> Diag(-1, 1, -1), t |-> <<0, 8, 8>>]>>
Twofolds ==
  <<Same, Operation(Diag(1, -1, -1)), Operation(Diag(-1, 1, -1)), Operation(Diag(-1, -1, 1))>>
MirrorOfCentered == <<Same, Operation(<<<<1, 1, 0>>, <<0, -1, 0>>, <<0, 0, 1>>>>)>>

MCCrystals ==
  {<<Group(<<Same>>, <<Origin>>, <<<<2, 2, 2>>>>), Monoclinic>>,
   <<Group(Screw, <<Origin>>, <<Origin>>), Monoclinic>>,
   <<Group(Fourfold, <<Origin, Body>>, <<>>), Tetragonal>>,
   <<Group(Fourfold, <<Origin, Body>>, <<<<4, 4, 4>>>>), Tetragonal>>,
   <<Group(Twofolds, <<Origin, <<0, 8, 8>>, <<8, 0, 8>>, <<8, 8, 0>>>>, <<<<2, 2, 2>>>>), Cubic>>,
   <<Group(MirrorOfCentered, <<Origin>>, <<>>), Centered>>}

Power(isotropic, B, Bij) == [isotropic |-> isotropic, B |-> B, Bij |-> Bij]

Sphere == Power(TRUE, 6400, Nil)
Needle == Power(FALSE, 0, Diag(1, 1, 4))
Slanted == Power(FALSE, 0, <<<<2, 1, 0>>, <<1, 3, 1>>, <<0, 1, 4>>>>)

Scatterer(xyz, power) == [xyz |-> xyz, power |-> power]

Oc == INSTANCE ObjCrystAdapter WITH
  Grid <- 16, Crystals <- MCCrystals,
  Components <- {Scatterer(Origin, Nil), Scatterer(Origin, Sphere),
                 Scatterer(<<3, 1, 2>>, Slanted), Scatterer(<<8, 0, 4>>, Needle)},
  MaxComponents <- 2

(* The operations made of a space group are a group.                       *)
OperationsAreGroup == part = "objcryst" => Oc!OperationsAreGroup

(* Equivalent atoms are an orbit of their site, with its tensor turned.    *)
ImagesAreOrbits == part = "objcryst" => Oc!ImagesAreOrbits

-----------------------------------------------------------------------------
(* Structures, generators, lattices and sums of all parts keep their types. *)
TypesOK ==
  /\ TypeOK
  /\ part = "lattice" => Lat!TypeOK
  /\ part = "cell" => Cell!TypeOK
  /\ part = "valence" => Valence!TypeOK
  /\ part = "overlap" => Overlaps!TypeOK
  /\ part = "objcryst" => Oc!TypeOK

-----------------------------------------------------------------------------
(* Variables without a use.                                                *)

NoSum ==
  /\ mrmax = Nil /\ mstructure = Nil /\ mstructure_cache = Nil
  /\ mvalue = Nil /\ used = Nil /\ edits = Nil

NoValence ==
  /\ mcustomtable = Nil /\ matomvalence = Nil /\ the_set = Nil /\ mvalenceprecision = Nil

NoOverlaps ==
  /\ table = Nil /\ masked = Nil /\ mneighborids = Nil
  /\ mneighborids_cached = Nil /\ missing = Nil /\ disturbed = Nil

MCInit ==
  /\ part \in Parts
  /\ Init /\ (part = "bonds" \/ kind = "atomic")
  /\ IF part = "lattice" THEN Lat!Init ELSE lat = Nil /\ torn = Nil
  /\ IF part = "cell" THEN Cell!Init
     ELSE stru = Nil /\ msymatoms = Nil /\ msymmetry_cached = Nil /\ unseen = Nil
  /\ CASE part = "valence" -> Valence!Init /\ NoOverlaps
       [] part = "overlap" -> Overlaps!Init /\ NoValence
       [] OTHER -> NoSum /\ NoValence /\ NoOverlaps
  /\ IF part = "objcryst" THEN Oc!Init ELSE crystal = Nil /\ adpt = Nil

MCNext ==
  /\ UNCHANGED part
  /\ \/ /\ part = "bonds" /\ Next
        /\ UNCHANGED <<latticevars, cellvars, sumvars, valencevars, overlapvars, objcrystvars>>
     \/ /\ part = "lattice" /\ Lat!Next
        /\ UNCHANGED <<vars, cellvars, sumvars, valencevars, overlapvars, objcrystvars>>
     \/ /\ part = "cell" /\ Cell!Next
        /\ UNCHANGED <<vars, latticevars, sumvars, valencevars, overlapvars, objcrystvars>>
     \/ /\ part = "valence" /\ Valence!Next
        /\ UNCHANGED <<vars, latticevars, cellvars, overlapvars, objcrystvars>>
     \/ /\ part = "overlap" /\ Overlaps!Next
        /\ UNCHANGED <<vars, latticevars, cellvars, valencevars, objcrystvars>>
     \/ /\ part = "objcryst" /\ Oc!Next
        /\ UNCHANGED <<vars, latticevars, cellvars, sumvars, valencevars, overlapvars>>

MCSpec == MCInit /\ [][MCNext]_allvars /\ Fairness
=============================================================================
