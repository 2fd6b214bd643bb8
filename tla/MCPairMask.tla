----------------------------- MODULE MCPairMask ------------------------------
(***************************************************************************)
(* Two atom types and structures of one and of three sites: types have     *)
(* partners of their own and of the other type, and an index may be past   *)
(* the end of the structure.                                               *)
(***************************************************************************)
EXTENDS PairMask

MCStructures == {<<"C">>, <<"C", "O", "C">>}
=============================================================================
