------------------------------ MODULE MCSmall --------------------------------
(***************************************************************************)
(* PairQuantity with structures of about four sites, the least number that *)
(* allows one site to be replaced in an update.                            *)
(***************************************************************************)
EXTENDS PairQuantity

At(p, type) == [at |-> p, type |-> type]

Cluster(atoms) ==
  [kind |-> "atomic", wrap |-> "none", cell |-> NoCell, atoms |-> atoms,
   custom |-> KeepConfig]

Lattice(s, kind, lattice, symops) ==
  [s EXCEPT !.kind = kind,
            !.cell = [lattice |-> lattice, symops |-> symops, precision |-> "fine"]]

Four == <<At(1, "C"), At(2, "O"), At(3, "C"), At(4, "O")>>

MCEmpty == [Cluster(<<>>) EXCEPT !.kind = "opaque"]
Plain == Cluster(Four)
Moved == Cluster([Four EXCEPT ![2] = At(5, "O")])
Shorter == Cluster(SubSeq(Four, 1, 3))
Doubled == Cluster([Four EXCEPT ![4] = Four[2]])
Strange == Cluster([Four EXCEPT ![1] = At(5, "O"), ![3] = At(3, "Xx")])
Customised == [Plain EXCEPT !.custom = "c2"]
NoMeta == [Customised EXCEPT !.wrap = "nometa"]
Cubic == Lattice(Plain, "periodic", "cubic", "none")
CubicMoved == Lattice(Moved, "periodic", "cubic", "none")
Tetragonal == Lattice(Plain, "periodic", "tetragonal", "none")
Crystal == Lattice(Plain, "crystal", "cubic", "inversion")
Unfolded == [Crystal EXCEPT !.wrap = "nosymmetry"]

(* Classes, lattices and proxies side by side. *)
FramedStructures == {NoMeta, Customised, Cubic, CubicMoved, Tetragonal, Crystal, Unfolded}

(* Evaluations that are abandoned, structures set by hand. *)
CarelessStructures == {MCEmpty, Plain, Moved, Shorter, Doubled, Strange}
CarelessPresets == {Moved, Shorter, Strange}

MixedStructures == FramedStructures \cup CarelessStructures

OneMask == {NoMask}
=============================================================================
