----------------------------- MODULE CrystalCell -----------------------------
(***************************************************************************)
(* The atoms and the cell of a crystal adapter while they are edited, and  *)
(* the equivalent atoms that it caches for multiplicities, occupancies and *)
(* densities.  Atoms are kept in Cartesian coordinates, the images of a    *)
(* site are made in fractional ones.                                       *)
(***************************************************************************)
EXTENDS SymmetryPositions, FiniteSets

CONSTANTS
  Cells,      \* records of a base, its adjugate and determinant
  Atoms,      \* [xyz, occupancy]
  SymOps,
  Precisions,
  MaxAtoms    \* bound on the number of atoms

VARIABLES
  stru,       \* matoms, mlattice, msymops, msymmetry_precision
  msymatoms,
  msymmetry_cached,
  unseen      \* history: edits since the images were made that leave the cache

cache == <<msymatoms, msymmetry_cached>>
vars == <<stru, cache, unseen>>

-----------------------------------------------------------------------------
(* The structure s and its images.                                         *)

Sites(s) == DOMAIN s.matoms

(* Exact: the coordinates of atoms are whole in the cells that are used.  *)
Fractional(cell, x) ==
  LET w == Cartesian(cell.adj, x) IN [k \in 1..3 |-> w[k] \div cell.det]

(* expandLatticeAtom between toFractional and toCartesian. *)
Images(s, atom) ==
  LET places == ExpandLatticeAtom(s.mlattice.base, s.msymops, s.msymmetry_precision,
                                  Fractional(s.mlattice, atom.xyz))
  IN  [k \in DOMAIN places |-> [atom EXCEPT !.xyz = Cartesian(s.mlattice.base, places[k])]]

UpdatedSymmetryPositions(s) == [i \in Sites(s) |-> Images(s, s.matoms[i])]

IsSymmetryCached(s, images, cached) == cached /\ Len(images) = Len(s.matoms)

(* What siteMultiplicity and getEquivalentAtoms answer from. *)
EquivalentAtoms ==
  IF IsSymmetryCached(stru, msymatoms, msymmetry_cached) THEN msymatoms
  ELSE UpdatedSymmetryPositions(stru)

-----------------------------------------------------------------------------
(* Actions.                                                                *)

(* An edit that does not touch the cache. *)
EditAtoms(edit, atoms) ==
  /\ stru' = [stru EXCEPT !.matoms = atoms]
  /\ stru' # stru
  /\ unseen' = IF msymmetry_cached THEN unseen \cup {edit} ELSE {}
  /\ UNCHANGED cache

SetAtom(i, atom) == EditAtoms("position", [stru.matoms EXCEPT ![i] = atom])

Insert(i, atom) ==
  /\ Len(stru.matoms) < MaxAtoms
  /\ EditAtoms("number", SubSeq(stru.matoms, 1, i - 1) \o <<atom>> \o SubSeq(stru.matoms, i, Len(stru.matoms)))

Erase(first, last) ==
  /\ first =< last
  /\ EditAtoms("number", SubSeq(stru.matoms, 1, first - 1) \o SubSeq(stru.matoms, last, Len(stru.matoms)))

Clear == EditAtoms("number", <<>>)

SetLatPar(cell) ==
  /\ stru' = [stru EXCEPT !.mlattice = cell]
  /\ stru' # stru
  /\ unseen' = IF msymmetry_cached THEN unseen \cup {"lattice"} ELSE {}
  /\ UNCHANGED cache

(* An edit that drops the cache. *)
EditSymmetry(s) ==
  /\ stru' = s
  /\ msymmetry_cached' = FALSE
  /\ unseen' = {}
  /\ UNCHANGED msymatoms

(* Slip: operations may be added while the images are kept. *)
AddSymOpQuietly(op) ==
  /\ Len(stru.msymops) < Cardinality(SymOps)
  /\ stru' = [stru EXCEPT !.msymops = Append(@, op)]
  /\ UNCHANGED <<cache, unseen>>

AddSymOp(op) ==
  /\ Len(stru.msymops) < Cardinality(SymOps)
  /\ EditSymmetry([stru EXCEPT !.msymops = Append(@, op)])

ClearSymOps == EditSymmetry([stru EXCEPT !.msymops = <<>>])

SetSymmetryPrecision(eps) ==
  /\ eps # stru.msymmetry_precision
  /\ EditSymmetry([stru EXCEPT !.msymmetry_precision = eps])

UpdateSymmetryPositions ==
  /\ msymatoms' = UpdatedSymmetryPositions(stru)
  /\ msymmetry_cached' = TRUE
  /\ unseen' = {}
  /\ UNCHANGED stru

(* A question makes the images only when it finds none of this number. *)
AskForMultiplicity ==
  ~IsSymmetryCached(stru, msymatoms, msymmetry_cached) /\ UpdateSymmetryPositions

(* A bond generator always has them made. *)
CreateBondGenerator == UpdateSymmetryPositions

Init ==
  /\ \E cell \in Cells, eps \in Precisions :
       stru = [matoms |-> <<>>, mlattice |-> cell, msymops |-> <<>>, msymmetry_precision |-> eps]
  /\ msymatoms = <<>>
  /\ msymmetry_cached = FALSE
  /\ unseen = {}

Next ==
  \/ \E i \in Sites(stru), atom \in Atoms : SetAtom(i, atom)
  \/ \E i \in 1..Len(stru.matoms) + 1, atom \in Atoms : Insert(i, atom)
  \/ \E i \in Sites(stru), k \in 1..Len(stru.matoms) + 1 : Erase(i, k)
  \/ Clear
  \/ \E cell \in Cells : SetLatPar(cell)
  \/ \E op \in SymOps : AddSymOp(op)
  \/ ClearSymOps
  \/ \E eps \in Precisions : SetSymmetryPrecision(eps)
  \/ AskForMultiplicity
  \/ CreateBondGenerator

Spec == Init /\ [][Next]_vars

-----------------------------------------------------------------------------
(* Properties.                                                             *)

TypeOK ==
  /\ Len(stru.matoms) =< MaxAtoms
  /\ stru.mlattice \in Cells
  /\ stru.msymmetry_precision \in Precisions
  /\ \A i \in Sites(stru) : stru.matoms[i] \in Atoms
  /\ DOMAIN EquivalentAtoms = Sites(stru)
  /\ msymmetry_cached \in BOOLEAN
  /\ unseen \subseteq {"position", "number", "lattice"}

(***************************************************************************)
(* Whatever was edited, the images that questions are answered from are    *)
(* those of the present atoms in the present cell, unless atoms or the     *)
(* cell were changed while images of as many atoms were cached             *)
(* (CrystalStructureAdapter::getEquivalentAtoms, isSymmetryCached;         *)
(* PeriodicStructureAdapter::setLatPar).                                   *)
(***************************************************************************)
ImagesAreCurrent == unseen = {} => EquivalentAtoms = UpdatedSymmetryPositions(stru)

-----------------------------------------------------------------------------
(* What the documentation promises without those exceptions.               *)

(***************************************************************************)
(* CrystalStructureAdapter.hpp:90: getEquivalentAtoms returns all symmetry *)
(* equivalent atoms in the unit cell, hence in the cell that was set last, *)
(* and of the atoms that are there.  Atoms whose position was changed are  *)
(* excepted, since hpp:110 says that this is not checked; it does say that *)
(* addition and removal of an atom are.                                    *)
(***************************************************************************)
EquivalentAtomsAreInCell ==
  "position" \notin unseen => EquivalentAtoms = UpdatedSymmetryPositions(stru)
=============================================================================
