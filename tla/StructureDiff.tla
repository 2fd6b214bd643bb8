---------------------------- MODULE StructureDiff ----------------------------
(***************************************************************************)
(* Structures as the pair evaluators see them, and the difference between  *)
(* two structures that decides whether a quantity may be updated instead   *)
(* of being summed anew.                                                   *)
(*                                                                         *)
(* A structure is a record with                                            *)
(*   kind     the adapter class: "atomic" < "periodic" < "crystal" (each   *)
(*            derives from the one before), or "opaque" for a class that   *)
(*            keeps the base-class diff, such as the empty adapter;        *)
(*   wrap     "none", or the proxy around it: "nometa", "nosymmetry";      *)
(*   cell     lattice, symmetry operations and symmetry precision;         *)
(*   atoms    its sites, in order, each with a position and a type;        *)
(*   custom   the configuration its customPQConfig sets, or KeepConfig.    *)
(* Sites are numbered from 1; the source counts them from 0.               *)
(***************************************************************************)
EXTENDS Integers, Sequences, FiniteSets

KeepConfig == "keep"

Sites(s) == DOMAIN s.atoms

CountSites(s) == Len(s.atoms)

(***************************************************************************)
(* The classes a dynamic cast of the other structure accepts in the diff   *)
(* method of each class: the class itself and everything derived from it.  *)
(***************************************************************************)
CastAccepts == [atomic   |-> {"atomic", "periodic", "crystal"},
                periodic |-> {"periodic", "crystal"},
                crystal  |-> {"crystal"},
                opaque   |-> {}]

(* The fields of the unit cell that each diff method compares for equality. *)
CellAgrees(s, t) ==
  /\ s.kind \in {"periodic", "crystal"} => s.cell.lattice = t.cell.lattice
  /\ s.kind = "crystal" => /\ s.cell.precision = t.cell.precision
                           /\ s.cell.symops = t.cell.symops

(* s.diff(t) gets as far as comparing atoms. *)
Comparable(s, t) ==
  /\ s.wrap = t.wrap
  /\ t.kind \in CastAccepts[s.kind]
  /\ CellAgrees(s, t)

(***************************************************************************)
(* pop < (1 - sqrt(1/2)) * n0, in integers.  A structure without sites     *)
(* never allows a fast update.                                             *)
(***************************************************************************)
AllowsFastUpdate(n0, npop) == 2 * (n0 - npop) * (n0 - npop) > n0 * n0

(* Sites of s whose atom differs from the atom at the same site of t. *)
Mismatched(s, t) ==
  {i \in Sites(s) : i \notin Sites(t) \/ s.atoms[i] # t.atoms[i]}

(* How many sites up to and including i hold the same atom as i. *)
Occurrence(s, i) == Cardinality({j \in 1..i : s.atoms[j] = s.atoms[i]})

(* The sites of t that hold the given atom. *)
Holding(t, atom) == {j \in Sites(t) : t.atoms[j] = atom}

(***************************************************************************)
(* Sites of s left over when each atom of s is matched with an equal atom  *)
(* of t: the set_symmetric_difference of the two sorted lists of atoms.    *)
(* Which of several equal atoms is left over does not matter.              *)
(***************************************************************************)
Surplus(s, t) ==
  {i \in Sites(s) : Occurrence(s, i) > Cardinality(Holding(t, s.atoms[i]))}

SideBySide(s, t) == AllowsFastUpdate(CountSites(s), Cardinality(Mismatched(s, t)))

Diff(s, t) ==
  IF ~Comparable(s, t)
    THEN [method |-> "NONE", pop |-> Sites(s), add |-> Sites(t)]
  ELSE IF SideBySide(s, t)
    THEN [method |-> "SIDEBYSIDE", pop |-> Mismatched(s, t), add |-> Mismatched(t, s)]
  ELSE [method |-> "SORTED", pop |-> Surplus(s, t), add |-> Surplus(t, s)]

(***************************************************************************)
(* What shapes the bonds of every site alike: the images that the bond     *)
(* generator of the class makes of an atom.  NoSymmetryStructureAdapter    *)
(* hands out the plain generator, which makes none.                        *)
(***************************************************************************)
NoCell == [lattice |-> "none", symops |-> "none", precision |-> "none"]

Frame(s) == IF s.wrap = "nosymmetry" THEN [kind |-> "atomic", cell |-> NoCell]
            ELSE [kind |-> s.kind, cell |-> s.cell]

(* The configuration that customPQConfig of s asks for. *)
Requested(s, config) ==
  IF s.wrap = "nometa" \/ s.custom = KeepConfig THEN config ELSE s.custom
=============================================================================
