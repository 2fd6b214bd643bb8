------------------------------- MODULE Lattice -------------------------------
(***************************************************************************)
(* The class Lattice: a base with everything that is derived from it, set  *)
(* from cell parameters or from base vectors.                              *)
(*                                                                         *)
(* A matrix is a triple of rows of integers.  Cell lengths and angles      *)
(* stand for the metric tensor they make, an inverse matrix for an         *)
(* adjugate and a determinant, and a standard base is the upper triangular *)
(* matrix with the given metrics.                                          *)
(***************************************************************************)
EXTENDS SymmetryPositions, PointsInSphere

CONSTANTS
  MaxIndex,   \* bound on indices of reflections that are told from geometry
  Shapes,     \* standard bases of the cells that are set
  StandardBases, \* these and the ones of their reciprocal cells
  Bases,      \* matrices that may be set as base, good or bad
  Coordinates,\* fractional and Cartesian coordinates in units of 1 / Grid
  Qranges     \* pairs of limits of Q / (2 pi), times the volume of the cell

VARIABLES
  lat,        \* members of the lattice
  torn        \* history: the last base was refused

vars == <<lat, torn>>

-----------------------------------------------------------------------------
(* R3.                                                                     *)

Divided(M, d) == [i \in 1..3 |-> [k \in 1..3 |-> M[i][k] \div d]]

Identity == <<<<1, 0, 0>>, <<0, 1, 0>>, <<0, 0, 1>>>>

After(k) == (k % 3) + 1

(* The inverse times the determinant. *)
Adjugate(M) ==
  [i \in 1..3 |-> [k \in 1..3 |->
     M[After(k)][After(i)] * M[After(After(k))][After(After(i))]
       - M[After(k)][After(After(i))] * M[After(After(k))][After(i)]]]

Determinant(M) == Product(M, Adjugate(M))[1][1]

RecBase(M) == [adj |-> Adjugate(M), det |-> Determinant(M)]

-----------------------------------------------------------------------------
(* Metrics, standard base and what is made of them.                        *)

Metrics(base) == Product(base, Transpose(base))

StandardBase(metrics) == CHOOSE S \in StandardBases : Metrics(S) = metrics

(* Slip: the standard base is taken without the rotation of the cell. *)
Unrotated(l, metrics) ==
  LET std == StandardBase(metrics)
  IN  [base |-> std, metrics |-> metrics, stdbase |-> std,
       baserot |-> l.baserot, recbase |-> RecBase(std)]

(* setLatPar keeps the rotation that the last setLatBase found. *)
SetLatPar(l, metrics) ==
  LET std == StandardBase(metrics)
      base == Product(std, l.baserot)
  IN  [base |-> base, metrics |-> metrics, stdbase |-> std,
       baserot |-> l.baserot, recbase |-> RecBase(base)]

SetLatBase(base) ==
  LET std == StandardBase(Metrics(base))
  IN  [base |-> base, metrics |-> Metrics(base), stdbase |-> std,
       baserot |-> Divided(Product(Adjugate(std), base), Determinant(std)),
       recbase |-> RecBase(base)]

Dot(l, u, v) == LET w == Cartesian(l.metrics, u) IN w[1] * v[1] + w[2] * v[2] + w[3] * v[3]

(* Fractional coordinates times the determinant of the base they belong to. *)
Fractional(l, cv) == Cartesian(l.recbase.adj, cv)

(* The position in the unit cell that is equivalent to cv, in like units. *)
UcvCartesian(l, cv) ==
  LET f == Fractional(l, cv)
  IN  Cartesian(l.base, [k \in 1..3 |-> f[k] % (Grid * l.recbase.det)])

-----------------------------------------------------------------------------
(* Reflections are lattice points of the reciprocal lattice, whose metrics *)
(* and standard base are here in units of 1 / volume.                      *)

(* Slip: the angles are not exchanged, and those of the cell add up with them to 180. *)
ReciprocalWithAngles(metrics) ==
  [i \in 1..3 |-> [k \in 1..3 |-> (IF i = k THEN 1 ELSE -1) * Adjugate(metrics)[i][k]]]

Reciprocal(metrics) == Adjugate(metrics)

ReflectionsInQminQmax(l, q) ==
  AllPoints(PointsInSphere(StandardBase(Reciprocal(l.metrics)), q[1], q[2]))

-----------------------------------------------------------------------------
(***************************************************************************)
(* Cells and their reciprocal cells have standard bases of integers, those *)
(* that are turned are turned by a matrix of integers, and no reflection   *)
(* on the inner sphere is beyond the bound of indices.                     *)
(***************************************************************************)
GoodBases == {base \in Bases : Determinant(base) > 0}

CellMetrics == {Metrics(M) : M \in Shapes \cup GoodBases \cup {Identity}}

CellsAssumption ==
  /\ MaxRadius \in Nat /\ MaxIndex \in Nat
  /\ Bases \cup StandardBases \subseteq Matrices /\ Coordinates \subseteq Vectors
  /\ \A S \in StandardBases :
       /\ S[1][1] > 0 /\ S[2][2] > 0 /\ S[3][3] > 0
       /\ S[2][1] = 0 /\ S[3][1] = 0 /\ S[3][2] = 0
  /\ \A m \in CellMetrics :
       \E S, T \in StandardBases : Metrics(S) = m /\ Metrics(T) = Reciprocal(m)
  /\ \A base \in GoodBases :
       LET std == StandardBase(Metrics(base))
       IN  \A i, k \in 1..3 : Product(Adjugate(std), base)[i][k] % Determinant(std) = 0
  /\ Qranges \subseteq Nat \X Nat
  /\ \A q \in Qranges :
       /\ q[1] =< MaxRadius /\ q[2] =< MaxRadius
       /\ \A m \in CellMetrics : Square(q[1]) * m[3][3] =< Square(MaxIndex) * Determinant(m)

-----------------------------------------------------------------------------
(* Actions.                                                                *)

ChangeLatPar(metrics) ==
  /\ lat' = SetLatPar(lat, metrics)
  /\ torn' = FALSE

ChangeLatBase(base) ==
  /\ Determinant(base) > 0
  /\ lat' = SetLatBase(base)
  /\ torn' = FALSE

(* A flat or left-handed base is refused when it has already been stored. *)
RefuseLatBase(base) ==
  /\ Determinant(base) =< 0
  /\ lat' = [lat EXCEPT !.base = base]
  /\ torn' = TRUE

Init ==
  /\ lat = SetLatPar([baserot |-> Identity], Identity)
  /\ torn = FALSE

Next ==
  \/ \E S \in Shapes : ChangeLatPar(Metrics(S))
  \/ \E base \in Bases : ChangeLatBase(base) \/ RefuseLatBase(base)

Spec == Init /\ [][Next]_vars

-----------------------------------------------------------------------------
(* Properties.                                                             *)

TypeOK ==
  /\ DOMAIN lat = {"base", "metrics", "stdbase", "baserot", "recbase"}
  /\ lat.stdbase \in StandardBases
  /\ lat.recbase.det > 0
  /\ torn \in BOOLEAN

(***************************************************************************)
(* Whatever bases and cell parameters were set in whatever order, the base *)
(* is the standard base of its metrics turned by a proper rotation, lengths*)
(* measured in the cell are those of the base, and the inverse undoes the  *)
(* base.  A position moved to the unit cell stays at its place there, and  *)
(* equivalent positions are moved to the same place.  Only a refused base  *)
(* breaks this, and the next one that is accepted mends it                 *)
(* (Lattice::setLatPar, setLatBase, ucvCartesian).                         *)
(***************************************************************************)
LatticeIsWhole ==
  ~torn =>
    /\ lat.base = Product(lat.stdbase, lat.baserot)
    /\ Product(lat.baserot, Transpose(lat.baserot)) = Identity
    /\ Determinant(lat.baserot) = 1
    /\ lat.metrics = Metrics(lat.base)
    /\ \A x \in Coordinates :
         /\ Fractional(lat, Cartesian(lat.base, x)) = [k \in 1..3 |-> lat.recbase.det * x[k]]
         /\ Dot(lat, x, x) = Normsq(Cartesian(lat.base, x))
    /\ \A x \in Coordinates :
         LET inside == UcvCartesian(lat, x)
         IN  /\ \A i \in 1..3 :
                  UcvCartesian(lat, Plus(x, [k \in 1..3 |-> Grid * lat.base[i][k]])) = inside
             /\ \A k \in 1..3 : inside[k] % lat.recbase.det = 0
             /\ UcvCartesian(lat, [k \in 1..3 |-> inside[k] \div lat.recbase.det]) = inside

(* The square of h in the reciprocal base, whose vectors are columns of recbase. *)
RSquare(h) == Normsq(Cartesian(Transpose(lat.recbase.adj), h))

Indices == [1..3 -> -MaxIndex..MaxIndex]

(* The inner sphere leaves the line of h at a lattice point. *)
LeavesAtPoint(h, r) == \E l \in -MaxIndex..MaxIndex : RSquare([h EXCEPT ![3] = l]) = r * r

(***************************************************************************)
(* All reflections between the limits of Q are listed, none is beyond the  *)
(* upper limit, and one below the lower limit is only listed if the line   *)
(* it is on goes into the inner sphere at a lattice point; in cells set    *)
(* either way and turned any way (ReflectionsInQminQmax,                   *)
(* LatticeParameters::reciprocal, PointsInSphere).                         *)
(***************************************************************************)
ReflectionsAreComplete ==
  \A q \in Qranges :
    LET listed == ReflectionsInQminQmax(lat, q)
    IN  /\ \A h \in Indices :
             RSquare(h) >= q[1] * q[1] /\ RSquare(h) < q[2] * q[2] => h \in listed
        /\ \A h \in listed :
             /\ RSquare(h) < q[2] * q[2]
             /\ RSquare(h) < q[1] * q[1] => LeavesAtPoint(h, q[1])

(***************************************************************************)
(* The doc of PointsInSphere has all points outside of the inner sphere,   *)
(* so no reflection has a Q below the lower limit.                         *)
(***************************************************************************)
NoneBelowQmin ==
  \A q \in Qranges : \A h \in ReflectionsInQminQmax(lat, q) : RSquare(h) >= q[1] * q[1]
=============================================================================
