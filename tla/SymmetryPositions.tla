-------------------------- MODULE SymmetryPositions --------------------------
(***************************************************************************)
(* Positions in a lattice and their expansion by symmetry operations.      *)
(*                                                                         *)
(* Fractional coordinates are multiples of 1 / Grid, written as integers;  *)
(* Cartesian ones are in units of 1 / Grid as well.  A lattice is a matrix *)
(* of integers whose rows are the base vectors.  Grid is even, and fine    *)
(* enough for the means below to be integers.                              *)
(***************************************************************************)
EXTENDS Integers, Sequences, FiniteSetsExt

CONSTANT Grid

ASSUME GridAssumption == Grid \in Nat \ {0}

Vectors == Int \X Int \X Int

Matrices == Vectors \X Vectors \X Vectors

Minus(x, y) == <<x[1] - y[1], x[2] - y[2], x[3] - y[3]>>

Plus(x, y) == <<x[1] + y[1], x[2] + y[2], x[3] + y[3]>>

Inner(x, y) == x[1] * y[1] + x[2] * y[2] + x[3] * y[3]

Column(M, k) == <<M[1][k], M[2][k], M[3][k]>>

(* A row vector times a matrix: fractional to Cartesian. *)
Cartesian(L, x) == <<Inner(x, Column(L, 1)), Inner(x, Column(L, 2)), Inner(x, Column(L, 3))>>

Transpose(M) == <<Column(M, 1), Column(M, 2), Column(M, 3)>>

Product(M, N) == <<Cartesian(N, M[1]), Cartesian(N, M[2]), Cartesian(N, M[3])>>

Normsq(v) == Inner(v, v)

UcvFractional(x) == <<x[1] % Grid, x[2] % Grid, x[3] % Grid>>

(* R and t of a symmetry operation. *)
Image(op, x) == Plus(<<Inner(op.R[1], x), Inner(op.R[2], x), Inner(op.R[3], x)>>, op.t)

(* x - round(x), halves being rounded away from zero. *)
Remainder(x) ==
  [k \in 1..3 |->
     LET r == x[k] % Grid
     IN  IF 2 * r < Grid \/ (2 * r = Grid /\ x[k] < 0) THEN r ELSE r - Grid]

EqualPosition(L, eps, x, y) == Normsq(Cartesian(L, Remainder(Minus(x, y)))) =< eps * eps

FirstOf(places) == IF places = {} THEN 0 ELSE Min(places)

(* Slip: positions are compared without regard to the lattice. *)
FindSamePosition(L, eps, sites, x) ==
  FirstOf({k \in DOMAIN sites : Normsq(Cartesian(L, Minus(sites[k].first, x))) =< eps * eps})

(* The first of the sites that is at x or at its copy in another cell, or 0. *)
FindEqualPosition(L, eps, sites, x) ==
  FirstOf({k \in DOMAIN sites : EqualPosition(L, eps, sites[k].first, x)})

WithImage(L, eps, sites, a1) ==
  LET ieq == FindEqualPosition(L, eps, sites, a1)
  IN  IF ieq = 0
        THEN Append(sites, [first |-> a1, sum |-> UcvFractional(a1), count |-> 1])
        ELSE [sites EXCEPT ![ieq].sum = Plus(@, UcvFractional(a1)), ![ieq].count = @ + 1]

(* The distinct images of x, each with the sum and number of its duplicates. *)
Duplicates(L, ops, eps, x) ==
  LET sites[n \in 0..Len(ops)] ==
        IF n = 0 THEN <<>> ELSE WithImage(L, eps, sites[n - 1], Image(ops[n], x))
  IN  sites[Len(ops)]

(* Slip: the sum is not divided. *)
SumForMean(e) == e.sum

Mean(e) == [k \in 1..3 |-> e.sum[k] \div e.count]

(* Slip: without symmetry operations there is no position. *)
ExpandByOperations(L, ops, eps, x) ==
  LET sites == Duplicates(L, ops, eps, x) IN [k \in DOMAIN sites |-> Mean(sites[k])]

(* P1 without symmetry operations. *)
ExpandLatticeAtom(L, ops, eps, x) ==
  IF ops = <<>> THEN <<x>>
  ELSE LET sites == Duplicates(L, ops, eps, x) IN [k \in DOMAIN sites |-> Mean(sites[k])]
=============================================================================
