--------------------------- MODULE ObjCrystAdapter ---------------------------
(***************************************************************************)
(* Adapters made of the crystals and molecules of ObjCryst: which atoms    *)
(* they get, the operations made of a space group, and the equivalent      *)
(* atoms with their displacement tensors.                                  *)
(*                                                                         *)
(* The unit of displacement is that of B / (8 pi^2).  A cell is a base and *)
(* its normbase, the base times the lengths of the reciprocal vectors,     *)
(* with adjugates and determinants of both; all are scaled to integers.    *)
(***************************************************************************)
EXTENDS SymmetryPositions, FiniteSets, FiniteSetsExt

LOCAL INSTANCE SequencesExt

CONSTANTS
  Crystals,      \* external: pairs of a space group [smx, trx, inversion], the last of them
                 \* a sequence of a center or none, and of a cell that has its symmetry,
                 \* [base, adj, det, normbase, normadj, normdet, reclengths]
  Components,    \* external: [xyz, power], the last Nil for a dummy atom
  MaxComponents, \* bound on the number of scatterers
  Nil

VARIABLES
  crystal,       \* external: the scatterers, the space group and the cell
  adpt           \* atoms, operations and equivalent atoms of the adapter, or Nil

vars == <<crystal, adpt>>

-----------------------------------------------------------------------------
(* Tensors.                                                                *)

(* The congruence that changes the base of a tensor. *)
Sandwich(U, M) == Product(Transpose(M), Product(U, M))

OverSquare(U, d) == [i \in 1..3 |-> [k \in 1..3 |-> U[i][k] \div (d * d)]]

CartesianMatrix(cell, U) == Sandwich(U, cell.normbase)

FractionalMatrix(cell, U) == OverSquare(Sandwich(U, cell.normadj), cell.normdet)

-----------------------------------------------------------------------------
(* The operations of a space group.                                        *)

NbSymmetrics(g) == Len(g.smx) * Len(g.trx) * (1 + Len(g.inversion))

(* The first translation is added where the others start from. *)
Translated(g) ==
  LET n == Len(g.smx)
      Moved(op, t) == [op EXCEPT !.t = Plus(@, t)]
      First(i) == Moved(g.smx[i], g.trx[1])
  IN  [k \in 1..n * Len(g.trx) |->
         LET i == ((k - 1) % n) + 1
             nt == ((k - 1) \div n) + 1
         IN  IF nt = 1 THEN First(i) ELSE Moved(First(i), g.trx[nt])]

Inverted(op, tinv) ==
  [R |-> [i \in 1..3 |-> [k \in 1..3 |-> -op.R[i][k]]], t |-> Minus(tinv, op.t)]

(* Slip: the inversion center is taken for the translation. *)
OperationsAboutCenter(g) ==
  LET ops == Translated(g)
  IN  IF g.inversion = <<>> THEN ops
      ELSE ops \o [i \in DOMAIN ops |-> Inverted(ops[i], g.inversion[1])]

FetchSymmetryOperations(g) ==
  LET ops == Translated(g)
  IN  IF g.inversion = <<>> THEN ops
      ELSE LET tinv == Plus(g.inversion[1], g.inversion[1])
           IN  ops \o [i \in DOMAIN ops |-> Inverted(ops[i], tinv)]

-----------------------------------------------------------------------------
(* Atoms.                                                                  *)

Isotropic(B) == <<<<B, 0, 0>>, <<0, B, 0>>, <<0, 0, B>>>>

GetUij(power) == IF power.isotropic THEN Isotropic(power.B) ELSE power.Bij

Real(c) == c.power # Nil

Scatterers(scl) == SelectSeq(scl, Real)

(* Atoms of a crystal have positions and tensors in a Cartesian base. *)
CrystalAtom(cell, c) ==
  LET U == GetUij(c.power)
  IN  [xyz |-> Cartesian(cell.base, c.xyz),
       uij |-> IF c.power.isotropic THEN U ELSE CartesianMatrix(cell, U)]

MoleculeAtom(c) == [xyz |-> c.xyz, uij |-> GetUij(c.power)]

FractionalPosition(cell, x) ==
  LET w == Cartesian(cell.adj, x) IN [k \in 1..3 |-> w[k] \div cell.det]

(* The first operation that leads from x to the image. *)
Leading(ops, x, image) == SelectInSeq(ops, LAMBDA op : Image(op, x) = image)

(* The default symmetry precision is below the grid of positions. *)
EquivalentAtoms(cell, ops, atom) ==
  LET x == FractionalPosition(cell, atom.xyz)
      U == FractionalMatrix(cell, atom.uij)
      sites == Duplicates(cell.base, ops, 0, x)
      Turned(R) == Product(R, Product(U, Transpose(R)))
  IN  [k \in DOMAIN sites |->
         [xyz |-> Cartesian(cell.base, Mean(sites[k])),
          uij |-> CartesianMatrix(cell, Turned(ops[Leading(ops, x, sites[k].first)].R))]]

CreateCrystalAdapter ==
  LET scl == Scatterers(crystal.scl)
      atoms == [i \in DOMAIN scl |-> CrystalAtom(crystal.cell, scl[i])]
      ops == FetchSymmetryOperations(crystal.spacegroup)
  IN  /\ adpt' = [atoms |-> atoms, symops |-> ops, cell |-> crystal.cell,
                  symatoms |-> [i \in DOMAIN atoms |-> EquivalentAtoms(crystal.cell, ops, atoms[i])]]
      /\ UNCHANGED crystal

(* A molecule of the same scatterers, aperiodic and in a Cartesian cell. *)
CreateMoleculeAdapter ==
  LET molecule == Scatterers(crystal.scl)
  IN  /\ adpt' = [atoms |-> [i \in DOMAIN molecule |-> MoleculeAtom(molecule[i])],
                  symops |-> <<>>, cell |-> Nil, symatoms |-> <<>>]
      /\ UNCHANGED crystal

(* External: the crystal is built and changed by its owner. *)
AddComponent(c) ==
  /\ Len(crystal.scl) < MaxComponents
  /\ crystal' = [crystal EXCEPT !.scl = Append(@, c)]
  /\ adpt' = Nil

Init ==
  /\ \E c \in Crystals : crystal = [scl |-> <<>>, spacegroup |-> c[1], cell |-> c[2]]
  /\ adpt = Nil

Next ==
  \/ \E c \in Components : AddComponent(c)
  \/ CreateCrystalAdapter
  \/ CreateMoleculeAdapter

Spec == Init /\ [][Next]_vars

-----------------------------------------------------------------------------
(* Properties.                                                             *)

IsCrystal == adpt # Nil /\ adpt.symops # <<>>

SameModuloLattice(op1, op2) ==
  op1.R = op2.R /\ UcvFractional(op1.t) = UcvFractional(op2.t)

Composed(op1, op2) == [R |-> Product(op1.R, op2.R), t |-> Image(op1, op2.t)]

(***************************************************************************)
(* The operations of an adapter are as many as the space group has, no two *)
(* of them the same up to a translation of the lattice, and one after      *)
(* another is again one of them (fetchSymmetryOperations).                 *)
(***************************************************************************)
OperationsAreGroup ==
  IsCrystal =>
    LET ops == adpt.symops
    IN  /\ Len(ops) = NbSymmetrics(crystal.spacegroup)
        /\ \A i, k \in DOMAIN ops :
             /\ i # k => ~SameModuloLattice(ops[i], ops[k])
             /\ \E n \in DOMAIN ops : SameModuloLattice(Composed(ops[i], ops[k]), ops[n])

PlaceOf(atom) == UcvFractional(FractionalPosition(adpt.cell, atom.xyz))

Led(op, place) == UcvFractional(Image(op, place))

(* The operation in Cartesian coordinates, times the volume of the cell. *)
CartesianRotation(cell, R) == Product(Transpose(cell.base), Product(R, Transpose(cell.adj)))

Turns(cell, R, U, V) ==
  LET C == CartesianRotation(cell, R)
  IN  Product(C, Product(U, Transpose(C))) = [i \in 1..3 |-> [k \in 1..3 |-> cell.det * cell.det * V[i][k]]]

(* Axes that the operation mixes have equal reciprocal lengths. *)
MixesEqualAxes(cell, R) ==
  \A i, k \in 1..3 : R[i][k] # 0 => cell.reclengths[i] = cell.reclengths[k]

(* The site symmetry leaves the tensor as it is. *)
TensorFitsSite(atom) ==
  \A n \in DOMAIN adpt.symops :
    Led(adpt.symops[n], PlaceOf(atom)) = PlaceOf(atom) =>
      Turns(adpt.cell, adpt.symops[n].R, atom.uij, atom.uij)

(* One atom in each place, and as many operations lead to each place. *)
IsOrbit(i) ==
  LET places == {PlaceOf(adpt.symatoms[i][k]) : k \in DOMAIN adpt.symatoms[i]}
      ledTo == [n \in DOMAIN adpt.symops |-> Led(adpt.symops[n], PlaceOf(adpt.atoms[i]))]
  IN  /\ \A n \in DOMAIN adpt.symops : {Led(adpt.symops[n], x) : x \in places} = places
      /\ \A x \in places :
           Cardinality({n \in DOMAIN ledTo : ledTo[n] = x}) * Len(adpt.symatoms[i]) = Len(adpt.symops)

TensorsAreTurned(i) ==
  \A n \in DOMAIN adpt.symops, k \in DOMAIN adpt.symatoms[i] :
    Led(adpt.symops[n], PlaceOf(adpt.atoms[i])) = PlaceOf(adpt.symatoms[i][k]) =>
      Turns(adpt.cell, adpt.symops[n].R, adpt.atoms[i].uij, adpt.symatoms[i][k].uij)

(***************************************************************************)
(* The equivalent atoms of a site are an orbit: every operation takes one  *)
(* of them to one of them, and as many operations take the site to each as *)
(* leave it in place, so that its multiplicity divides the number of       *)
(* operations.  Each has the displacement tensor of the site turned by the *)
(* operation that leads to it, whichever of them that is, where the tensor *)
(* obeys the symmetry of its site and operations mix only axes of equal    *)
(* reciprocal lengths (CrystalStructureAdapter::expandLatticeAtom, between *)
(* toFractional and toCartesian, where tensors are referred to normalized  *)
(* axes; createStructureAdapter).                                          *)
(***************************************************************************)
ImagesAreOrbits ==
  IsCrystal =>
    LET equal == \A n \in DOMAIN adpt.symops : MixesEqualAxes(adpt.cell, adpt.symops[n].R)
    IN  \A i \in DOMAIN adpt.atoms :
          /\ IsOrbit(i)
          /\ equal /\ TensorFitsSite(adpt.atoms[i]) => TensorsAreTurned(i)

TypeOK ==
  /\ Len(crystal.scl) =< MaxComponents
  /\ adpt # Nil =>
       /\ Len(adpt.atoms) = Cardinality({i \in DOMAIN crystal.scl : Real(crystal.scl[i])})
       /\ adpt.symops # <<>> => DOMAIN adpt.symatoms = DOMAIN adpt.atoms
=============================================================================
