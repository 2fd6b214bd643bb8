------------------------------ MODULE BondLoop -------------------------------
(***************************************************************************)
(* What the users of a bond generator rely on, whatever its class: a loop  *)
(*     for (bnds.rewind(); !bnds.finished(); bnds.next())                  *)
(* stands at every bond of the chosen anchor and sites once, in any order, *)
(* and is finished when none is left.  Selections, limits and structures   *)
(* are changed between loops.                                              *)
(***************************************************************************)
VARIABLES
  bonds,     \* the bonds that the present loop is over
  at,        \* the set of the bond the loop is at; empty when it is finished
  visited,   \* bonds that it has come to
  complete   \* whether the structure is one that all bonds are promised for

vars == <<bonds, at, visited, complete>>

Init == at = {} /\ visited = {} /\ bonds = {} /\ complete \in BOOLEAN

(* The loop is at a bond it has not been to, or at none if there is none left. *)
Continue(before) ==
  \/ \E b \in bonds' \ before : at' = {b} /\ visited' = before \cup {b}
  \/ ((bonds' \subseteq before \/ ~complete) /\ at' = {} /\ visited' = before)

Rewind == at = {} /\ Continue({}) /\ UNCHANGED complete

Move == at # {} /\ Continue(visited) /\ UNCHANGED <<bonds, complete>>

(* Between loops, or when one is not gone through to its end. *)
Select == bonds' = {} /\ at' = {} /\ visited' = {}

Next == Rewind \/ Move \/ Select

Spec == Init /\ [][Next]_vars

-----------------------------------------------------------------------------
(***************************************************************************)
(* A loop stands at bonds that it is over, and when it is finished it has  *)
(* come to all of them, if they are promised (BaseBondGenerator.hpp:38-46).*)
(***************************************************************************)
AllVisited ==
  /\ at \subseteq visited /\ visited \subseteq bonds
  /\ complete /\ at = {} => visited = bonds
=============================================================================
