--------------------------- MODULE PointsInSphere ----------------------------
(***************************************************************************)
(* The iteration over lattice points between two spheres: planes m, lines  *)
(* n in a plane, points o on a line.                                       *)
(*                                                                         *)
(* A lattice L is an upper triangular matrix of integers; its rows are the *)
(* base vectors, the third along the lines and the second in the planes.   *)
(* Then ar, b2r and c1r are 1 / L[1][1], 1 / L[2][2] and 1 / L[3][3], all  *)
(* that the iteration takes a square root of is an integer, and a quotient *)
(* by an integer that is rounded may have its root rounded first.          *)
(***************************************************************************)
EXTENDS Integers, FiniteSetsExt

CONSTANT MaxRadius     \* bound on the outer radius

Square(x) == x * x

(* A radius below zero has a square below zero. *)
SignedSquare(r) == IF r < 0 THEN -Square(r) ELSE Square(r)

Roots ==
  [X \in 0..Square(MaxRadius) |->
     CHOOSE k \in 0..MaxRadius : Square(k) >= X /\ (k = 0 \/ Square(k - 1) < X)]

(* sqrt(X), or zero if X is negative, rounded up and down. *)
RootUp(X) == IF X < 0 THEN 0 ELSE Roots[X]

RootDown(X) == IF Square(RootUp(X)) > X /\ X > 0 THEN RootUp(X) - 1 ELSE RootUp(X)

(* floor((c - sqrt(X)) / d), *)
FloorBelow(c, d, X) == (c - RootUp(X)) \div d

(* ceil((c + sqrt(X)) / d), *)
CeilAbove(c, d, X) == -FloorBelow(-c, d, X)

(* and ceil((c - sqrt(X)) / d). *)
CeilBelow(c, d, X) == -((RootDown(X) - c) \div d)

(* The integers k for which k * d is less than sqrt(X) away from c. *)
Between(c, d, X) == FloorBelow(c, d, X) + 1..CeilAbove(c, d, X) - 1

-----------------------------------------------------------------------------
(* An iteration p is its lattice, its radii and the indices of a point.    *)

HiM(p) == CeilAbove(0, p.L[1][1], SignedSquare(p.Rmax))

Finished(p) == p.m >= HiM(p)

(* How far the plane m, the line n and the nearest point lie off the origin. *)
OffLine(p, m) == -(m * p.L[1][2])

OffPoint(p, m, n) == -(m * p.L[1][3] + n * p.L[2][3])

PlaneSquare(p, m) == SignedSquare(p.Rmax) - Square(m * p.L[1][1])

LineSquare(p, m, n) == PlaneSquare(p, m) - Square(n * p.L[2][2] - OffLine(p, m))

ExclSquare(p, m, n) == LineSquare(p, m, n) - SignedSquare(p.Rmax) + SignedSquare(p.Rmin)

LinesIn(p, m) ==
  Between(OffLine(p, m), p.L[2][2], PlaneSquare(p, m))

(***************************************************************************)
(* The hole that the inner sphere makes in a line: it is skipped from the  *)
(* first point on, unless that point is where the line enters the sphere.  *)
(***************************************************************************)
HoleOf(c, d, X) ==
  IF X > 0 /\ Square(CeilBelow(c, d, X) * d - c) < X
    THEN CeilBelow(c, d, X)..CeilAbove(c, d, X) - 1
    ELSE {}

Hole(p, m, n) == HoleOf(OffPoint(p, m, n), p.L[3][3], ExclSquare(p, m, n))

PointsOn(p, m, n) ==
  Between(OffPoint(p, m, n), p.L[3][3], LineSquare(p, m, n)) \ Hole(p, m, n)

(* Lines and planes are left for the next one that has a point. *)
LinesWithPoints(p, m) == {n \in LinesIn(p, m) : PointsOn(p, m, n) # {}}

At(p, m, n, o) == [p EXCEPT !.m = m, !.n = n, !.o = o]

FirstOn(p, m, n) == At(p, m, n, Min(PointsOn(p, m, n)))

NextM(p) ==
  LET planes == {m \in p.m + 1..HiM(p) - 1 : LinesWithPoints(p, m) # {}}
  IN  IF planes = {} THEN At(p, HiM(p), 0, 0)
      ELSE FirstOn(p, Min(planes), Min(LinesWithPoints(p, Min(planes))))

NextN(p) ==
  LET lines == {n \in LinesWithPoints(p, p.m) : n > p.n}
  IN  IF lines = {} THEN NextM(p) ELSE FirstOn(p, p.m, Min(lines))

NextO(p) ==
  LET points == {o \in PointsOn(p, p.m, p.n) : o > p.o}
  IN  IF points = {} THEN NextN(p) ELSE At(p, p.m, p.n, Min(points))

(* From a plane that only touches the sphere. *)
Rewound(p) == NextO(At(p, -HiM(p), 0, 0))

PointsInSphere(L, rmin, rmax) ==
  Rewound([L |-> L, Rmin |-> rmin, Rmax |-> rmax, m |-> 0, n |-> 0, o |-> 0])

(* All points, as a loop over p lists them. *)
AllPoints(p) ==
  UNION {UNION {{<<m, n, o>> : o \in PointsOn(p, m, n)} : n \in LinesIn(p, m)} :
           m \in 1 - HiM(p)..HiM(p) - 1}
=============================================================================
