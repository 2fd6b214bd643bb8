-------------------------- MODULE Structures_proofs --------------------------
(***************************************************************************)
(* Generators and the lattice.                                             *)
(*                                                                         *)
(* The generators of bonds of all three classes implement BondLoop: for    *)
(* every lattice, structure, set of operations and limits, and whatever is *)
(* edited, selected or changed between loops, a loop comes to every bond   *)
(* within its limits and to none twice.                                    *)
(*                                                                         *)
(* Loops of PointsInSphere go through the points between two spheres in an *)
(* order of planes, lines and points, and through all of them.  A loop of  *)
(* a generator is ordered by sites, images and points, or by points and    *)
(* sites; a step takes the first of the later positions, and skipping the  *)
(* first that is valid.  Valid positions and bonds are in one-to-one       *)
(* correspondence: the sphere has all points that bonds can need, as it is *)
(* greater by the longest diagonal of a cell, and no two positions are at  *)
(* the same place, as those of a site are apart and in one cell.           *)
(*                                                                         *)
(* The members of a lattice belong to one base, by the algebra of products,*)
(* adjugates and determinants of matrices.  Reflections are points of the  *)
(* same spheres, in the reciprocal lattice.  Theorems about the lattice    *)
(* have CellsAssumption for an hypothesis.  They use none of the           *)
(* assumptions on generators, but that the grid has a step.                *)
(***************************************************************************)
EXTENDS BondGenerator, FiniteSetTheorems, WellFoundedInduction, TLAPS

-----------------------------------------------------------------------------
(* Roots and quotients, rounded.                                           *)

(* What is not empty and bounded has a least element. *)
LEMMA LeastNatural ==
  ASSUME NEW T, T \subseteq Nat, T # {}
  PROVE  \E n \in T : \A o \in T : n =< o
<1>1. PICK n \in T : \A o \in T : ~(<<o, n>> \in OpToRel(<, Nat))
  BY WFMin, NatLessThanWellFounded
<1>2. \A o \in T : o \in Nat
  OBVIOUS
<1>3. \A o \in T : ~(o < n)
  BY <1>1, <1>2 DEF OpToRel
<1> QED BY <1>2, <1>3

(* A set that is bounded from below has a minimum, which Min chooses. *)
LEMMA MinIs ==
  ASSUME NEW a \in Int, NEW T, T \subseteq Int, \A x \in T : a =< x, T # {}
  PROVE  Min(T) \in T /\ \A x \in T : Min(T) =< x
<1> DEFINE U == {n \in Nat : a + n \in T}
<1>1. \A x \in T : x - a \in U /\ a + (x - a) = x
  OBVIOUS
<1>2. U \subseteq Nat /\ U # {}
  BY <1>1
<1>3. PICK n \in U : \A o \in U : n =< o
  <2> HIDE DEF U
  <2> QED BY <1>2, LeastNatural
<1>4. a + n \in T /\ \A x \in T : a + n =< x
  BY <1>1, <1>3
<1> QED BY <1>4 DEF Min

(* Squares are ordered as their roots. *)
LEMMA SquaresOrder ==
  ASSUME NEW x \in Nat, NEW y \in Nat
  PROVE  x < y <=> x * x < y * y
<1>1. ASSUME NEW u \in Nat, NEW v \in Nat, u =< v PROVE u * u =< v * v
  <2>1. u * u =< u * v
    BY <1>1
  <2>2. u * v =< v * v
    BY <1>1
  <2> QED BY <2>1, <2>2
<1>2. ASSUME x < y PROVE x * x < y * y
  <2>1. x * x =< x * y
    BY <1>2
  <2>2. x * y < y * y
    BY <1>2
  <2> QED BY <2>1, <2>2
<1>3. ASSUME ~(x < y) PROVE y * y =< x * x
  BY <1>1, <1>3
<1>4. x * x \in Int /\ y * y \in Int
  OBVIOUS
<1> QED BY <1>2, <1>3, <1>4

(* Roots are rounded up. *)
LEMMA RootsAre ==
  ASSUME MaxRadius \in Nat, NEW X \in 0..MaxRadius * MaxRadius
  PROVE  /\ Roots[X] \in 0..MaxRadius
         /\ X =< Roots[X] * Roots[X]
         /\ Roots[X] = 0 \/ (Roots[X] - 1) * (Roots[X] - 1) < X
<1> DEFINE T == {k \in 0..MaxRadius : k * k >= X}
<1>1. T \subseteq Nat /\ MaxRadius \in T
  OBVIOUS
<1>2. PICK k \in T : \A o \in T : k =< o
  <2> HIDE DEF T
  <2> QED BY <1>1, LeastNatural
<1>3. k = 0 \/ (k - 1) * (k - 1) < X
  <2> SUFFICES ASSUME k # 0 PROVE (k - 1) * (k - 1) < X
    OBVIOUS
  <2>1. k - 1 \in 0..MaxRadius /\ ~(k =< k - 1)
    BY <1>2
  <2>2. k - 1 \notin T
    BY <1>2, <2>1
  <2>3. (k - 1) * (k - 1) \in Int
    BY <2>1
  <2> QED BY <2>1, <2>2, <2>3
<1>4. \E j \in 0..MaxRadius : Square(j) >= X /\ (j = 0 \/ Square(j - 1) < X)
  BY <1>2, <1>3 DEF Square
<1>5. Roots[X] = CHOOSE j \in 0..MaxRadius : Square(j) >= X /\ (j = 0 \/ Square(j - 1) < X)
  BY DEF Roots, Square
<1>6. Roots[X] \in 0..MaxRadius /\ Square(Roots[X]) >= X /\ (Roots[X] = 0 \/ Square(Roots[X] - 1) < X)
  BY <1>4, <1>5
<1> QED BY <1>6 DEF Square

Bounded(X) == X \in Int /\ X =< MaxRadius * MaxRadius

(* Integers between two roots are those of which the square is less. *)
LEMMA RootUpIs ==
  ASSUME MaxRadius \in Nat, NEW X, Bounded(X), NEW t \in Int
  PROVE  /\ RootUp(X) \in Nat
         /\ -RootUp(X) < t /\ t < RootUp(X) <=> t * t < X
<1>1. CASE X < 0
  <2>1. RootUp(X) = 0
    BY <1>1 DEF RootUp
  <2>2. t * t >= 0
    OBVIOUS
  <2> QED BY <1>1, <2>1, <2>2 DEF Bounded
<1>2. CASE ~(X < 0)
  <2>1. X \in 0..MaxRadius * MaxRadius /\ RootUp(X) = Roots[X]
    BY <1>2 DEF RootUp, Bounded
  <2> DEFINE r == Roots[X]
  <2>2. r \in Nat /\ X =< r * r /\ (r = 0 \/ (r - 1) * (r - 1) < X)
    BY <2>1, RootsAre
  <2> HIDE DEF r
  <2> DEFINE s == IF t < 0 THEN -t ELSE t
  <2>3. s \in Nat /\ s * s = t * t /\ (s < r <=> -r < t /\ t < r)
    BY <2>2
  <2> HIDE DEF s
  <2>4. ASSUME s < r PROVE s * s < X
    <3>1. r - 1 \in Nat /\ s < (r - 1) + 1 /\ r # 0
      BY <2>2, <2>3, <2>4
    <3>2. ~(r - 1 < s)
      BY <2>3, <3>1
    <3>3. ~((r - 1) * (r - 1) < s * s)
      BY <2>3, <3>1, <3>2, SquaresOrder
    <3>4. s * s \in Int /\ (r - 1) * (r - 1) \in Int
      BY <2>3, <3>1
    <3> QED BY <2>1, <2>2, <3>1, <3>3, <3>4
  <2>5. ASSUME ~(s < r) PROVE ~(s * s < X)
    <3>1. ~(s * s < r * r)
      BY <2>2, <2>3, <2>5, SquaresOrder
    <3>2. s * s \in Int /\ r * r \in Int
      BY <2>2, <2>3
    <3> QED BY <2>1, <2>2, <3>1, <3>2
  <2> QED BY <2>1, <2>2, <2>3, <2>4, <2>5 DEF r
<1> QED BY <1>1, <1>2 DEF Bounded

(* Roots rounded down are at most one less. *)
LEMMA RootDownIs ==
  ASSUME MaxRadius \in Nat, NEW X, Bounded(X), X > 0
  PROVE  /\ RootDown(X) \in Nat
         /\ RootDown(X) * RootDown(X) =< X
         /\ RootUp(X) - 1 =< RootDown(X) /\ RootDown(X) =< RootUp(X)
<1>1. X \in 0..MaxRadius * MaxRadius /\ RootUp(X) = Roots[X]
  BY DEF RootUp, Bounded
<1> DEFINE r == Roots[X]
<1>2. r \in Nat /\ X =< r * r /\ (r = 0 \/ (r - 1) * (r - 1) < X)
  BY <1>1, RootsAre
<1> HIDE DEF r
<1>3. RootDown(X) = IF r * r > X /\ X > 0 THEN r - 1 ELSE r
  BY <1>1 DEF RootDown, Square, r
<1>4. r * r \in Int /\ (r - 1) * (r - 1) \in Int /\ r # 0
  BY <1>2, <1>1
<1>5. RootUp(X) = r
  BY <1>1 DEF r
<1>6. CASE r * r > X
  BY <1>1, <1>2, <1>3, <1>4, <1>5, <1>6
<1>7. CASE ~(r * r > X)
  BY <1>1, <1>2, <1>3, <1>4, <1>5, <1>7
<1> QED BY <1>6, <1>7

(* Quotients rounded down. *)
LEMMA FloorIs ==
  ASSUME NEW a \in Int, NEW d \in Nat \ {0}, NEW k \in Int
  PROVE  /\ a \div d \in Int
         /\ k =< a \div d <=> k * d =< a
<1> DEFINE q == a \div d
<1>1. q \in Int /\ q * d =< a /\ a < (q + 1) * d
  <2>1. q \in Int /\ a % d \in 0..d - 1 /\ a = d * q + (a % d)
    OBVIOUS
  <2>2. d * q = q * d /\ (q + 1) * d = q * d + d
    BY <2>1
  <2>3. q * d \in Int
    BY <2>1
  <2> HIDE DEF q
  <2> QED BY <2>1, <2>2, <2>3
<1> HIDE DEF q
<1>2. ASSUME k =< q PROVE k * d =< q * d
  BY <1>1, <1>2
<1>3. ASSUME ~(k =< q) PROVE (q + 1) * d =< k * d
  <2>1. q + 1 =< k
    BY <1>1, <1>3
  <2> QED BY <1>1, <2>1
<1>4. k * d \in Int /\ q * d \in Int /\ (q + 1) * d \in Int
  BY <1>1
<1>5. k =< q <=> k * d =< a
  BY <1>1, <1>2, <1>3, <1>4
<1> QED BY <1>1, <1>5 DEF q

(* Between has the numbers it is said to have. *)
LEMMA BetweenIs ==
  ASSUME MaxRadius \in Nat, NEW c \in Int, NEW d \in Nat \ {0}, NEW X, Bounded(X), NEW k \in Int
  PROVE  /\ FloorBelow(c, d, X) \in Int /\ CeilAbove(c, d, X) \in Int
         /\ k \in Between(c, d, X) <=> (k * d - c) * (k * d - c) < X
         /\ k < CeilAbove(c, d, X) <=> k * d - c < RootUp(X)
<1> DEFINE r == RootUp(X)
           t == k * d - c
           f == FloorBelow(c, d, X)
           g == FloorBelow(-c, d, X)
<1>1. r \in Nat /\ (-r < t /\ t < r <=> t * t < X)
  BY RootUpIs
<1>2. f \in Int /\ (k =< f <=> k * d =< c - r)
  BY <1>1, FloorIs DEF FloorBelow
<1>3. g \in Int /\ (-k =< g <=> (-k) * d =< -c - r)
  <2>1. g = (-c - r) \div d
    BY DEF FloorBelow
  <2> HIDE DEF r, g
  <2>2. -c - r \in Int /\ -k \in Int
    BY <1>1
  <2> QED BY <2>1, <2>2, FloorIs
<1>4. CeilAbove(c, d, X) = -g
  BY DEF CeilAbove
<1>5. k \in Between(c, d, X) <=> f + 1 =< k /\ k =< -g - 1
  BY <1>2, <1>3, <1>4 DEF Between
<1>6. k * d \in Int /\ (-k) * d = -(k * d)
  OBVIOUS
<1>7. f + 1 =< k <=> -r < t
  BY <1>1, <1>2, <1>6
<1>8. k =< -g - 1 <=> t < r
  BY <1>1, <1>3, <1>6
<1>9. k < -g <=> t < r
  BY <1>3, <1>8
<1> QED BY <1>1, <1>2, <1>3, <1>4, <1>5, <1>7, <1>8, <1>9

(* A range of numbers below and above which there are none. *)
LEMMA BetweenRange ==
  ASSUME MaxRadius \in Nat, NEW c \in Int, NEW d \in Nat \ {0}, NEW X, Bounded(X)
  PROVE  /\ FloorBelow(c, d, X) \in Int /\ CeilAbove(c, d, X) \in Int
         /\ Between(c, d, X) \subseteq Int
         /\ \A k \in Between(c, d, X) : FloorBelow(c, d, X) + 1 =< k
  BY BetweenIs DEF Between

(* CeilBelow is the first number that is not before the sphere. *)
LEMMA CeilBelowIs ==
  ASSUME MaxRadius \in Nat, NEW c \in Int, NEW d \in Nat \ {0}, NEW X, Bounded(X), X > 0, NEW k \in Int
  PROVE  /\ CeilBelow(c, d, X) \in Int
         /\ CeilBelow(c, d, X) =< k <=> -RootDown(X) =< k * d - c
<1> DEFINE r == RootDown(X)
           f == (r - c) \div d
<1>1. r \in Nat
  BY RootDownIs
<1>2. f \in Int /\ (-k =< f <=> (-k) * d =< r - c)
  <2>1. f = (r - c) \div d
    OBVIOUS
  <2> HIDE DEF r, f
  <2>2. r - c \in Int /\ -k \in Int
    BY <1>1
  <2> QED BY <2>1, <2>2, FloorIs
<1>3. CeilBelow(c, d, X) = -f
  BY DEF CeilBelow
<1>4. k * d \in Int /\ (-k) * d = -(k * d)
  OBVIOUS
<1> HIDE DEF r, f
<1>5. -f =< k <=> -k =< f
  BY <1>2
<1>6. -k =< f <=> -r =< k * d - c
  BY <1>1, <1>2, <1>4
<1> QED BY <1>2, <1>3, <1>5, <1>6 DEF r

(***************************************************************************)
(* The hole has only points of the inner sphere, and all that are strictly *)
(* inside of it unless the line enters it at a lattice point.  Numbers in  *)
(* the hole are inside,                                                    *)
(***************************************************************************)
LEMMA HoleIsInside ==
  ASSUME MaxRadius \in Nat, NEW c \in Int, NEW d \in Nat \ {0}, NEW X, Bounded(X),
         NEW k \in HoleOf(c, d, X)
  PROVE  k \in Int /\ X > 0 /\ (k * d - c) * (k * d - c) =< X
<1>1. X > 0 /\ k \in CeilBelow(c, d, X)..CeilAbove(c, d, X) - 1
  BY DEF HoleOf
<1> DEFINE r == RootDown(X)
           t == k * d - c
<1>2. k \in Int
  BY <1>1
<1>3. CeilBelow(c, d, X) \in Int /\ CeilAbove(c, d, X) \in Int
  BY <1>1, CeilBelowIs, BetweenRange
<1>4. CeilBelow(c, d, X) =< k /\ k < CeilAbove(c, d, X)
  BY <1>1, <1>3
<1>5. t < RootUp(X) /\ -r =< t
  BY <1>1, <1>2, <1>4, CeilBelowIs, BetweenIs
<1>6. r \in Nat /\ r * r =< X /\ RootUp(X) - 1 =< r /\ RootUp(X) \in Nat
  BY <1>1, RootDownIs, RootUpIs
<1>7. t \in Int
  BY <1>2
<1> HIDE DEF r, t
<1> DEFINE s == IF t < 0 THEN -t ELSE t
<1>8. s \in Nat /\ s * s = t * t /\ s =< r
  BY <1>5, <1>6, <1>7
<1> HIDE DEF s
<1>9. ~(r * r < s * s)
  BY <1>6, <1>8, SquaresOrder
<1>10. s * s \in Int /\ r * r \in Int /\ X \in Int
  BY <1>6, <1>8 DEF Bounded
<1>11. t * t =< X
  BY <1>6, <1>8, <1>9, <1>10
<1> QED BY <1>1, <1>2, <1>11 DEF t

(* and numbers inside are in the hole, unless one is on its edge. *)
LEMMA InsideIsHole ==
  ASSUME MaxRadius \in Nat, NEW c \in Int, NEW d \in Nat \ {0}, NEW X, Bounded(X),
         NEW k \in Int, (k * d - c) * (k * d - c) < X, k \notin HoleOf(c, d, X)
  PROVE  \E l \in Int : l =< k /\ (l * d - c) * (l * d - c) = X
<1> DEFINE r == RootDown(X)
           t == k * d - c
           b == CeilBelow(c, d, X)
           e == b * d - c
<1>1. t \in Int /\ t * t \in Nat /\ X \in Int /\ X > 0
  BY DEF Bounded
<1>2. RootUp(X) \in Nat /\ -RootUp(X) < t /\ t < RootUp(X)
  BY RootUpIs
<1>3. r \in Nat /\ r * r =< X /\ RootUp(X) - 1 =< r /\ r =< RootUp(X)
  BY <1>1, RootDownIs
<1>4. b \in Int /\ b =< k
  <2>1. b \in Int /\ (b =< k <=> -r =< t)
    BY <1>1, CeilBelowIs
  <2> HIDE DEF r, t, b
  <2> QED BY <1>1, <1>2, <1>3, <2>1
<1>5. k < CeilAbove(c, d, X) /\ CeilAbove(c, d, X) \in Int
  BY <1>2, BetweenIs
<1>6. ~(e * e < X)
  BY <1>1, <1>4, <1>5 DEF HoleOf, Square
<1>7. b * d =< k * d
  BY <1>4
<1>8. e \in Int /\ e =< t /\ -r =< e
  <2>1. b =< b <=> -r =< e
    BY <1>1, <1>4, CeilBelowIs
  <2>2. b * d \in Int /\ k * d \in Int
    BY <1>4
  <2>3. b =< b
    BY <1>4
  <2>4. e \in Int /\ e =< t
    <3> HIDE DEF b
    <3> QED BY <1>7, <2>2
  <2> QED BY <2>1, <2>3, <2>4
<1> HIDE DEF r, t, b, e
<1>9. e * e \in Int /\ r * r \in Int
  BY <1>3, <1>8
<1>10. ~(-r < e)
  <2> SUFFICES ASSUME -r < e PROVE FALSE
    OBVIOUS
  <2> DEFINE u == RootUp(X)
  <2>1. u \in Nat /\ -u < e /\ e < u
    <3> HIDE DEF u
    <3>1. u \in Nat /\ t < u /\ r =< u
      BY <1>2, <1>3 DEF u
    <3> QED BY <1>1, <1>3, <1>8, <3>1
  <2>2. e * e < X
    BY <1>8, <2>1, RootUpIs
  <2> QED BY <1>6, <2>2
<1>11. e = -r
  BY <1>3, <1>8, <1>10
<1>12. e * e = r * r
  BY <1>3, <1>11
<1>13. e * e = X
  BY <1>1, <1>3, <1>6, <1>9, <1>12
<1> QED BY <1>4, <1>13 DEF e

-----------------------------------------------------------------------------
(* The sphere: planes, lines and points.                                   *)

(* A lattice that spheres are made of, and an iteration over one. *)
Triangular(M) ==
  /\ M \in Matrices
  /\ M[1][1] > 0 /\ M[2][2] > 0 /\ M[3][3] > 0
  /\ M[2][1] = 0 /\ M[3][1] = 0 /\ M[3][2] = 0

IsSphere(p) ==
  /\ p \in [L : Matrices, Rmin : Int, Rmax : Int, m : Int, n : Int, o : Int]
  /\ Triangular(p.L)
  /\ Bounded(SignedSquare(p.Rmin)) /\ Bounded(SignedSquare(p.Rmax))

(* The square of the distance of a lattice point from the origin. *)
Plane(p, m) == m * p.L[1][1]
Line(p, m, n) == n * p.L[2][2] + m * p.L[1][2]
Spot(p, m, n, o) == o * p.L[3][3] + (m * p.L[1][3] + n * p.L[2][3])
Far(p, m, n, o) ==
  Plane(p, m) * Plane(p, m) + Line(p, m, n) * Line(p, m, n) + Spot(p, m, n, o) * Spot(p, m, n, o)

(* Entries of matrices are integers. *)
LEMMA MatrixEntries ==
  ASSUME NEW M \in Matrices
  PROVE  \A i, k \in 1..3 : M[i][k] \in Int
  BY DEF Matrices, Vectors

(* Squares of radii that are not negative. *)
LEMMA SignedSquareIs ==
  ASSUME NEW r \in Int
  PROVE  /\ SignedSquare(r) \in Int
         /\ r >= 0 => SignedSquare(r) = r * r
         /\ r < 0 => SignedSquare(r) < 0
<1>1. r * r \in Int
  OBVIOUS
<1>2. r < 0 => r * r > 0
  OBVIOUS
<1> QED BY <1>1, <1>2 DEF SignedSquare, Square

(* The distances of planes, lines and points along the three axes, *)
LEMMA AlongAxes ==
  ASSUME NEW p, IsSphere(p), NEW m \in Int, NEW n \in Int, NEW o \in Int
  PROVE  /\ p.L[1][1] \in Nat \ {0} /\ p.L[2][2] \in Nat \ {0} /\ p.L[3][3] \in Nat \ {0}
         /\ Plane(p, m) \in Int /\ Line(p, m, n) \in Int /\ Spot(p, m, n, o) \in Int
         /\ OffLine(p, m) \in Int /\ n * p.L[2][2] - OffLine(p, m) = Line(p, m, n)
         /\ OffPoint(p, m, n) \in Int /\ o * p.L[3][3] - OffPoint(p, m, n) = Spot(p, m, n, o)
<1>1. p.L \in Matrices /\ p.L[1][1] > 0 /\ p.L[2][2] > 0 /\ p.L[3][3] > 0
  BY DEF IsSphere, Triangular
<1>2. \A i, k \in 1..3 : p.L[i][k] \in Int
  BY <1>1, MatrixEntries
<1>3. /\ p.L[1][1] \in Int /\ p.L[2][2] \in Int /\ p.L[3][3] \in Int
      /\ p.L[1][2] \in Int /\ p.L[1][3] \in Int /\ p.L[2][3] \in Int
  BY <1>2
<1>4. /\ m * p.L[1][1] \in Int /\ n * p.L[2][2] \in Int /\ o * p.L[3][3] \in Int
      /\ m * p.L[1][2] \in Int /\ m * p.L[1][3] \in Int /\ n * p.L[2][3] \in Int
  BY <1>3
<1> DEFINE a == p.L[1][1]
           b == p.L[2][2]
           c == p.L[3][3]
           ma == m * p.L[1][1]
           nb == n * p.L[2][2]
           oc == o * p.L[3][3]
           u == m * p.L[1][2]
           v == m * p.L[1][3]
           w == n * p.L[2][3]
<1>5. /\ a \in Int /\ b \in Int /\ c \in Int /\ a > 0 /\ b > 0 /\ c > 0
      /\ ma \in Int /\ nb \in Int /\ oc \in Int /\ u \in Int /\ v \in Int /\ w \in Int
  BY <1>1, <1>3, <1>4
<1>6. /\ Plane(p, m) = ma /\ Line(p, m, n) = nb + u /\ Spot(p, m, n, o) = oc + (v + w)
      /\ OffLine(p, m) = -u /\ OffPoint(p, m, n) = -(v + w)
  BY DEF Plane, Line, Spot, OffLine, OffPoint
<1> HIDE DEF a, b, c, ma, nb, oc, u, v, w
<1>7. /\ nb - (-u) = nb + u /\ oc - (-(v + w)) = oc + (v + w)
      /\ -u \in Int /\ -(v + w) \in Int /\ nb + u \in Int /\ oc + (v + w) \in Int
  BY <1>5
<1>8. a \in Nat \ {0} /\ b \in Nat \ {0} /\ c \in Nat \ {0}
  BY <1>5
<1> QED BY <1>5, <1>6, <1>7, <1>8 DEF a, b, c, nb, oc

(* and what they leave of the square of the radius. *)
LEMMA SquaresAre ==
  ASSUME NEW p, IsSphere(p), NEW m \in Int, NEW n \in Int, NEW o \in Int
  PROVE  /\ SignedSquare(p.Rmin) \in Int /\ SignedSquare(p.Rmax) \in Int
         /\ Plane(p, m) * Plane(p, m) \in Nat /\ Line(p, m, n) * Line(p, m, n) \in Nat
         /\ Spot(p, m, n, o) * Spot(p, m, n, o) \in Nat
         /\ PlaneSquare(p, m) = SignedSquare(p.Rmax) - Plane(p, m) * Plane(p, m)
         /\ LineSquare(p, m, n) = PlaneSquare(p, m) - Line(p, m, n) * Line(p, m, n)
         /\ ExclSquare(p, m, n) =
              LineSquare(p, m, n) - SignedSquare(p.Rmax) + SignedSquare(p.Rmin)
<1>1. p.Rmin \in Int /\ p.Rmax \in Int
  BY DEF IsSphere
<1>2. \A x \in Int : x * x \in Nat
  OBVIOUS
<1>3. n * p.L[2][2] - OffLine(p, m) = Line(p, m, n)
  BY AlongAxes
<1> QED BY <1>1, <1>2, <1>3, SignedSquareIs, AlongAxes
        DEF PlaneSquare, LineSquare, ExclSquare, Square, Plane

(* Planes that the sphere cuts are those below HiM. *)
LEMMA HiMIs ==
  ASSUME MaxRadius \in Nat, NEW p, IsSphere(p), NEW m \in Int
  PROVE  /\ HiM(p) \in Int
         /\ m < HiM(p) <=> m * p.L[1][1] < RootUp(SignedSquare(p.Rmax))
<1>1. PICK z \in Int : z = 0
  OBVIOUS
<1> DEFINE a == p.L[1][1]
           X == SignedSquare(p.Rmax)
<1>2. a \in Nat \ {0}
  BY AlongAxes
<1>3. Bounded(X)
  BY DEF IsSphere
<1>4. HiM(p) = CeilAbove(z, a, X)
  BY <1>1 DEF HiM
<1> HIDE DEF a, X
<1>5. CeilAbove(z, a, X) \in Int /\ (m < CeilAbove(z, a, X) <=> m * a - z < RootUp(X))
  BY <1>2, <1>3, BetweenIs
<1>6. m * a \in Int /\ m * a - z = m * a
  BY <1>1, <1>2
<1> QED BY <1>4, <1>5, <1>6 DEF a, X

(* No square is greater than that of the bound of radii. *)
LEMMA RangesAreBounded ==
  ASSUME MaxRadius \in Nat, NEW p, IsSphere(p), NEW m \in Int, NEW n \in Int
  PROVE  /\ Bounded(PlaneSquare(p, m)) /\ Bounded(LineSquare(p, m, n)) /\ Bounded(ExclSquare(p, m, n))
         /\ HiM(p) \in Nat
<1>1. MaxRadius * MaxRadius \in Int
  OBVIOUS
<1>2. Bounded(SignedSquare(p.Rmin)) /\ Bounded(SignedSquare(p.Rmax))
  BY DEF IsSphere
<1>3. Bounded(PlaneSquare(p, m)) /\ Bounded(LineSquare(p, m, n)) /\ Bounded(ExclSquare(p, m, n))
  <2> DEFINE A == Plane(p, m) * Plane(p, m)
             B == Line(p, m, n) * Line(p, m, n)
             lo == SignedSquare(p.Rmin)
             hi == SignedSquare(p.Rmax)
  <2>1. /\ A \in Nat /\ B \in Nat /\ lo \in Int /\ hi \in Int /\ PlaneSquare(p, m) = hi - A
        /\ LineSquare(p, m, n) = PlaneSquare(p, m) - B
        /\ ExclSquare(p, m, n) = LineSquare(p, m, n) - hi + lo
    BY SquaresAre
  <2>2. hi =< MaxRadius * MaxRadius /\ lo =< MaxRadius * MaxRadius
    BY <1>2 DEF Bounded
  <2> HIDE DEF A, B, lo, hi
  <2> QED BY <1>1, <2>1, <2>2 DEF Bounded
<1>4. HiM(p) \in Int
  BY HiMIs
<1>6. HiM(p) >= 0
  <2> SUFFICES ASSUME HiM(p) < 0 PROVE FALSE
    BY <1>4
  <2> DEFINE x == HiM(p)
             r == RootUp(SignedSquare(p.Rmax))
             a == p.L[1][1]
  <2>1. x < x <=> x * a < r
    BY <1>4, HiMIs
  <2>2. r \in Nat /\ a \in Nat \ {0}
    BY <1>2, RootUpIs, AlongAxes
  <2> HIDE DEF x, r, a
  <2>3. x \in Int /\ x < 0
    BY <1>4 DEF x
  <2>4. x * a < 0
    BY <2>2, <2>3
  <2> QED BY <2>1, <2>2, <2>3, <2>4
<1> QED BY <1>3, <1>4, <1>6

(* The hole of a line is that of a sphere. *)
LEMMA HoleIs ==
  ASSUME NEW p, NEW m, NEW n
  PROVE  Hole(p, m, n) = HoleOf(OffPoint(p, m, n), p.L[3][3], ExclSquare(p, m, n))
  BY DEF Hole

(* The points that the loops come to. *)
LEMMA PointsAre ==
  ASSUME MaxRadius \in Nat, NEW p, IsSphere(p), NEW m \in Int, NEW n \in Int, NEW o \in Int
  PROVE  /\ o \in PointsOn(p, m, n) <=>
              Far(p, m, n, o) < SignedSquare(p.Rmax) /\ o \notin Hole(p, m, n)
         /\ o \in PointsOn(p, m, n) => n \in LinesIn(p, m) /\ m \in 1 - HiM(p)..HiM(p) - 1
<1> DEFINE X == LineSquare(p, m, n)
<1>a. /\ OffPoint(p, m, n) \in Int /\ p.L[3][3] \in Nat \ {0} /\ Bounded(X)
      /\ OffLine(p, m) \in Int /\ p.L[2][2] \in Nat \ {0} /\ Bounded(PlaneSquare(p, m))
      /\ p.L[1][1] \in Nat \ {0} /\ Bounded(SignedSquare(p.Rmax))
  BY RangesAreBounded, AlongAxes DEF IsSphere
<1>b. /\ o * p.L[3][3] - OffPoint(p, m, n) = Spot(p, m, n, o)
      /\ n * p.L[2][2] - OffLine(p, m) = Line(p, m, n)
  <2> HIDE DEF X
  <2>1. o * p.L[3][3] - OffPoint(p, m, n) = Spot(p, m, n, o)
    BY AlongAxes
  <2>2. n * p.L[2][2] - OffLine(p, m) = Line(p, m, n)
    BY AlongAxes
  <2> QED BY <2>1, <2>2
<1>1. o \in Between(OffPoint(p, m, n), p.L[3][3], X)
        <=> Spot(p, m, n, o) * Spot(p, m, n, o) < X
  BY <1>a, <1>b, BetweenIs
<1>2. n \in LinesIn(p, m) <=> Line(p, m, n) * Line(p, m, n) < PlaneSquare(p, m)
  BY <1>a, <1>b, BetweenIs DEF LinesIn
<1>3. m \in 1 - HiM(p)..HiM(p) - 1 <=> Plane(p, m) * Plane(p, m) < SignedSquare(p.Rmax)
  <2> DEFINE r == RootUp(SignedSquare(p.Rmax))
             a == p.L[1][1]
             h == HiM(p)
  <2>1. -m \in Int /\ m * a \in Int /\ (-m) * a = -(m * a)
    BY <1>a
  <2>2. h \in Int /\ (m < h <=> m * a < r) /\ (-m < h <=> (-m) * a < r)
    BY <2>1, HiMIs
  <2>3. r \in Nat /\ (-r < m * a /\ m * a < r <=> (m * a) * (m * a) < SignedSquare(p.Rmax))
    BY <1>a, <2>1, RootUpIs
  <2>4. m \in 1 - h..h - 1 <=> m < h /\ -m < h
    BY <2>2
  <2>5. -(m * a) < r <=> -r < m * a
    BY <2>1, <2>3
  <2> QED BY <2>1, <2>2, <2>3, <2>4, <2>5 DEF Plane
<1>5. /\ Plane(p, m) * Plane(p, m) \in Nat /\ Line(p, m, n) * Line(p, m, n) \in Nat
      /\ Spot(p, m, n, o) * Spot(p, m, n, o) \in Nat /\ SignedSquare(p.Rmax) \in Int
      /\ PlaneSquare(p, m) = SignedSquare(p.Rmax) - Plane(p, m) * Plane(p, m)
      /\ X = PlaneSquare(p, m) - Line(p, m, n) * Line(p, m, n)
  BY SquaresAre
<1>6. Spot(p, m, n, o) * Spot(p, m, n, o) < X <=> Far(p, m, n, o) < SignedSquare(p.Rmax)
  <2> HIDE DEF X
  <2> QED BY <1>5 DEF Far
<1>7. Far(p, m, n, o) < SignedSquare(p.Rmax) =>
        /\ Line(p, m, n) * Line(p, m, n) < PlaneSquare(p, m)
        /\ Plane(p, m) * Plane(p, m) < SignedSquare(p.Rmax)
  BY <1>5 DEF Far
<1> QED BY <1>1, <1>2, <1>3, <1>6, <1>7 DEF PointsOn

(* Points in the hole are not beyond the inner sphere. *)
LEMMA HoleIsNear ==
  ASSUME MaxRadius \in Nat, NEW p, IsSphere(p), NEW m \in Int, NEW n \in Int,
         NEW o \in Hole(p, m, n)
  PROVE  o \in Int /\ Far(p, m, n, o) =< SignedSquare(p.Rmin)
<1> DEFINE X == ExclSquare(p, m, n)
<1>1. o \in HoleOf(OffPoint(p, m, n), p.L[3][3], X)
  BY HoleIs
<1>2. OffPoint(p, m, n) \in Int /\ p.L[3][3] \in Nat \ {0} /\ Bounded(X)
  BY AlongAxes, RangesAreBounded
<1>3. o \in Int /\ (o * p.L[3][3] - OffPoint(p, m, n)) * (o * p.L[3][3] - OffPoint(p, m, n)) =< X
  BY <1>1, <1>2, HoleIsInside
<1>4. Spot(p, m, n, o) * Spot(p, m, n, o) =< X
  BY <1>3, AlongAxes
<1> QED BY <1>3, <1>4, SquaresAre DEF Far

-----------------------------------------------------------------------------
(* The order in which a sphere is gone through.                            *)

(* The order in which points are gone through. *)
Precedes(p, q) ==
  p.m < q.m \/ (p.m = q.m /\ (p.n < q.n \/ (p.n = q.n /\ p.o < q.o)))

(* The iterations that p can turn into, all of its points and those after it. *)
Turns(p) == [L : {p.L}, Rmin : {p.Rmin}, Rmax : {p.Rmax}, m : Int, n : Int, o : Int]

SphereAll(p) == {q \in Turns(p) : q.o \in PointsOn(p, q.m, q.n)}

SphereLater(p) == {q \in SphereAll(p) : Precedes(p, q)}

(* An iteration is told by its three indices. *)
LEMMA AtIs ==
  ASSUME NEW p, IsSphere(p), NEW m \in Int, NEW n \in Int, NEW o \in Int
  PROVE  /\ At(p, m, n, o) \in Turns(p) /\ At(p, m, n, o).m = m
         /\ At(p, m, n, o).n = n /\ At(p, m, n, o).o = o
         /\ \A q \in Turns(p) : q.m = m /\ q.n = n /\ q.o = o => q = At(p, m, n, o)
  BY DEF IsSphere, At, Turns

(* Turns of an iteration have the same points. *)
LEMMA TurnsAre ==
  ASSUME NEW p, IsSphere(p), NEW q \in Turns(p)
  PROVE  /\ IsSphere(q) /\ Turns(q) = Turns(p) /\ HiM(q) = HiM(p)
         /\ q.m \in Int /\ q.n \in Int /\ q.o \in Int
         /\ \A m, n : PointsOn(q, m, n) = PointsOn(p, m, n)
         /\ SphereAll(q) = SphereAll(p) /\ p \in Turns(q)
<1>1. /\ q.L = p.L /\ q.Rmin = p.Rmin /\ q.Rmax = p.Rmax /\ q.m \in Int /\ q.n \in Int /\ q.o \in Int
      /\ q \in [L : Matrices, Rmin : Int, Rmax : Int, m : Int, n : Int, o : Int]
  BY DEF Turns, IsSphere
<1>2. \A m, n : PointsOn(q, m, n) = PointsOn(p, m, n)
  BY <1>1 DEF PointsOn, Hole, OffPoint, LineSquare, PlaneSquare, ExclSquare, OffLine
<1>3. IsSphere(q) /\ Turns(q) = Turns(p) /\ HiM(q) = HiM(p)
  BY <1>1 DEF IsSphere, Turns, HiM
<1>4. p \in Turns(p)
  BY DEF IsSphere, Turns
<1> QED BY <1>1, <1>2, <1>3, <1>4 DEF SphereAll

(* Points on a line, *)
LEMMA FirstPoint ==
  ASSUME MaxRadius \in Nat, NEW p, IsSphere(p), NEW m \in Int, NEW n \in Int,
         NEW T, T \subseteq PointsOn(p, m, n), T # {}
  PROVE  Min(T) \in T /\ T \subseteq Int /\ \A o \in T : Min(T) =< o
<1>1. /\ OffPoint(p, m, n) \in Int /\ p.L[3][3] \in Nat \ {0} /\ Bounded(LineSquare(p, m, n))
  BY RangesAreBounded, AlongAxes, MatrixEntries DEF IsSphere
<1> DEFINE a == FloorBelow(OffPoint(p, m, n), p.L[3][3], LineSquare(p, m, n)) + 1
           b == CeilAbove(OffPoint(p, m, n), p.L[3][3], LineSquare(p, m, n)) - 1
<1>2. a \in Int /\ b \in Int
  <2>1. /\ FloorBelow(OffPoint(p, m, n), p.L[3][3], LineSquare(p, m, n)) \in Int
        /\ CeilAbove(OffPoint(p, m, n), p.L[3][3], LineSquare(p, m, n)) \in Int
    BY <1>1, BetweenRange
  <2> QED BY <2>1
<1>3. T \subseteq a..b
  BY DEF PointsOn, Between
<1> HIDE DEF a, b
<1>4. T \subseteq Int /\ \A o \in T : a =< o
  BY <1>2, <1>3
<1> QED BY <1>2, <1>4, MinIs

(* and lines in a plane have a first one. *)
LEMMA FirstLine ==
  ASSUME MaxRadius \in Nat, NEW p, IsSphere(p), NEW m \in Int,
         NEW T, T \subseteq LinesWithPoints(p, m), T # {}
  PROVE  Min(T) \in T /\ T \subseteq Int /\ \A n \in T : Min(T) =< n
<1>1. PICK z \in Int : z = 0
  OBVIOUS
<1>2. /\ OffLine(p, m) \in Int /\ p.L[2][2] \in Nat \ {0} /\ Bounded(PlaneSquare(p, m))
  BY <1>1, RangesAreBounded, AlongAxes
<1> DEFINE a == FloorBelow(OffLine(p, m), p.L[2][2], PlaneSquare(p, m)) + 1
           b == CeilAbove(OffLine(p, m), p.L[2][2], PlaneSquare(p, m)) - 1
<1>3. a \in Int /\ b \in Int
  <2>1. /\ FloorBelow(OffLine(p, m), p.L[2][2], PlaneSquare(p, m)) \in Int
        /\ CeilAbove(OffLine(p, m), p.L[2][2], PlaneSquare(p, m)) \in Int
    BY <1>2, BetweenRange
  <2> QED BY <2>1
<1>4. T \subseteq a..b
  BY DEF LinesWithPoints, LinesIn, Between
<1> HIDE DEF a, b
<1>5. T \subseteq Int /\ \A n \in T : a =< n
  BY <1>3, <1>4
<1> QED BY <1>3, <1>5, MinIs

(* A line with points starts at the first of them. *)
LEMMA LineIs ==
  ASSUME MaxRadius \in Nat, NEW p, IsSphere(p), NEW m \in Int, NEW n \in Int
  PROVE  /\ n \in LinesWithPoints(p, m) <=> PointsOn(p, m, n) # {}
         /\ n \in LinesWithPoints(p, m) =>
              /\ FirstOn(p, m, n) \in SphereAll(p)
              /\ FirstOn(p, m, n).m = m /\ FirstOn(p, m, n).n = n
              /\ \A q \in SphereAll(p) : q.m = m /\ q.n = n =>
                    q = FirstOn(p, m, n) \/ FirstOn(p, m, n).o < q.o
<1>1. ASSUME PointsOn(p, m, n) # {}
      PROVE  /\ n \in LinesIn(p, m)
             /\ FirstOn(p, m, n) \in SphereAll(p)
             /\ FirstOn(p, m, n).m = m /\ FirstOn(p, m, n).n = n
             /\ \A q \in SphereAll(p) : q.m = m /\ q.n = n =>
                   q = FirstOn(p, m, n) \/ FirstOn(p, m, n).o < q.o
  <2> DEFINE o == Min(PointsOn(p, m, n))
  <2>1. o \in PointsOn(p, m, n) /\ o \in Int /\ \A k \in PointsOn(p, m, n) : o =< k
    BY <1>1, FirstPoint
  <2>2. FirstOn(p, m, n) = At(p, m, n, o)
    BY DEF FirstOn
  <2> HIDE DEF o
  <2>3. /\ FirstOn(p, m, n) \in Turns(p) /\ FirstOn(p, m, n).m = m /\ FirstOn(p, m, n).n = n
        /\ FirstOn(p, m, n).o = o
        /\ \A q \in Turns(p) : q.m = m /\ q.n = n /\ q.o = o => q = FirstOn(p, m, n)
    BY <2>1, <2>2, AtIs
  <2>4. n \in LinesIn(p, m)
    BY <2>1, PointsAre
  <2>5. ASSUME NEW q \in SphereAll(p), q.m = m, q.n = n
        PROVE  q = FirstOn(p, m, n) \/ FirstOn(p, m, n).o < q.o
    <3>1. q \in Turns(p) /\ q.o \in PointsOn(p, m, n) /\ q.o \in Int
      BY <2>5 DEF SphereAll, Turns
    <3> QED BY <2>1, <2>3, <2>5, <3>1
  <2> QED BY <2>1, <2>3, <2>4, <2>5 DEF SphereAll
<1> QED BY <1>1 DEF LinesWithPoints

LaterPlanes(p) == {q \in SphereAll(p) : p.m < q.m}

LaterLines(p) == {q \in SphereAll(p) : p.m < q.m \/ (p.m = q.m /\ p.n < q.n)}

(* q is the first of the iterations in T, or the end if there are none. *)
IsFirst(p, q, T) ==
  \/ T = {} /\ q = At(p, HiM(p), 0, 0)
  \/ q \in T /\ \A r \in T : r = q \/ Precedes(q, r)

(* The next point in another plane, *)
LEMMA NextMIs ==
  ASSUME MaxRadius \in Nat, NEW p, IsSphere(p)
  PROVE  IsFirst(p, NextM(p), LaterPlanes(p))
<1> DEFINE planes == {m \in p.m + 1..HiM(p) - 1 : LinesWithPoints(p, m) # {}}
<1>1. p.m \in Int /\ HiM(p) \in Int
  <2>1. p.m \in Int
    BY DEF IsSphere
  <2> QED BY <2>1, HiMIs
<1>2. ASSUME NEW q \in LaterPlanes(p)
      PROVE  q.m \in planes /\ q.n \in LinesWithPoints(p, q.m) /\ q \in SphereAll(p)
  <2>1. /\ q.m \in Int /\ q.n \in Int /\ q.o \in Int /\ q.o \in PointsOn(p, q.m, q.n)
        /\ p.m < q.m /\ q \in SphereAll(p)
    BY DEF LaterPlanes, SphereAll, Turns
  <2>2. q.m \in 1 - HiM(p)..HiM(p) - 1
    BY <2>1, PointsAre
  <2>3. q.n \in LinesWithPoints(p, q.m)
    BY <2>1, LineIs
  <2>4. q.m \in p.m + 1..HiM(p) - 1
    BY <1>1, <2>1, <2>2
  <2> QED BY <2>1, <2>3, <2>4
<1>3. CASE planes = {}
  <2>1. LaterPlanes(p) = {}
    BY <1>2, <1>3
  <2>2. NextM(p) = At(p, HiM(p), 0, 0)
    BY <1>3 DEF NextM
  <2> QED BY <2>1, <2>2 DEF IsFirst
<1>4. CASE planes # {}
  <2> DEFINE m == Min(planes)
             n == Min(LinesWithPoints(p, m))
             h == NextM(p)
  <2>1. m \in planes /\ \A k \in planes : m =< k
    <3> HIDE DEF planes
    <3>1. planes \subseteq Int /\ \A k \in planes : p.m =< k
      BY <1>1 DEF planes
    <3> QED BY <1>1, <1>4, <3>1, MinIs
  <2>2. h = FirstOn(p, m, n)
    BY <1>4 DEF NextM
  <2>3. m \in Int /\ p.m < m /\ LinesWithPoints(p, m) # {}
    BY <1>1, <2>1
  <2> HIDE DEF m, planes
  <2>4. n \in LinesWithPoints(p, m) /\ n \in Int /\ \A k \in LinesWithPoints(p, m) : n =< k
    BY <2>3, FirstLine
  <2> HIDE DEF n, h
  <2>5. /\ h \in SphereAll(p) /\ h.m = m /\ h.n = n
        /\ \A q \in SphereAll(p) : q.m = m /\ q.n = n => q = h \/ h.o < q.o
    BY <2>2, <2>3, <2>4, LineIs
  <2>6. h \in LaterPlanes(p)
    BY <2>3, <2>5 DEF LaterPlanes
  <2>7. ASSUME NEW q \in LaterPlanes(p) PROVE q = h \/ Precedes(h, q)
    <3>1. q.m \in planes /\ q.n \in LinesWithPoints(p, q.m) /\ q \in SphereAll(p)
      BY <1>2
    <3>2. q.m \in Int /\ q.n \in Int
      BY <3>1 DEF SphereAll, Turns
    <3>3. m =< q.m /\ (q.m = m => n =< q.n)
      BY <2>1, <2>4, <3>1
    <3> QED BY <2>3, <2>4, <2>5, <3>1, <3>2, <3>3 DEF Precedes
  <2> QED BY <2>6, <2>7 DEF IsFirst, h
<1> QED BY <1>3, <1>4

(* on another line, *)
LEMMA NextNIs ==
  ASSUME MaxRadius \in Nat, NEW p, IsSphere(p)
  PROVE  IsFirst(p, NextN(p), LaterLines(p))
<1> DEFINE lines == {n \in LinesWithPoints(p, p.m) : n > p.n}
           h == NextN(p)
<1>1. p.m \in Int /\ p.n \in Int
  BY DEF IsSphere
<1>2. ASSUME NEW q \in LaterLines(p)
      PROVE  /\ q \in SphereAll(p) /\ q.m \in Int /\ q.n \in Int
             /\ q \in LaterPlanes(p) \/ (q.m = p.m /\ q.n \in lines)
  <2>1. /\ q.m \in Int /\ q.n \in Int /\ q.o \in Int /\ q.o \in PointsOn(p, q.m, q.n)
        /\ q \in SphereAll(p)
    BY DEF LaterLines, SphereAll, Turns
  <2>3. q.n \in LinesWithPoints(p, q.m)
    BY <2>1, LineIs
  <2> QED BY <1>1, <2>1, <2>3 DEF LaterLines, LaterPlanes
<1>3. CASE lines = {}
  <2>1. LaterLines(p) = LaterPlanes(p)
    BY <1>2, <1>3 DEF LaterLines, LaterPlanes
  <2>2. NextN(p) = NextM(p)
    BY <1>3 DEF NextN
  <2> QED BY <2>1, <2>2, NextMIs
<1>4. CASE lines # {}
  <2> DEFINE n == Min(lines)
  <2>1. lines \subseteq LinesWithPoints(p, p.m)
    OBVIOUS
  <2>2. n \in lines /\ lines \subseteq Int /\ \A k \in lines : n =< k
    <3> HIDE DEF lines
    <3> QED BY <1>1, <1>4, <2>1, FirstLine
  <2>3. h = FirstOn(p, p.m, n)
    BY <1>4 DEF NextN
  <2>4. n \in LinesWithPoints(p, p.m) /\ n \in Int /\ p.n < n
    BY <1>1, <2>2
  <2> HIDE DEF n, h, lines
  <2>5. /\ h \in SphereAll(p) /\ h.m = p.m /\ h.n = n
        /\ \A q \in SphereAll(p) : q.m = p.m /\ q.n = n => q = h \/ h.o < q.o
    BY <1>1, <2>3, <2>4, LineIs
  <2>6. h \in LaterLines(p)
    BY <2>4, <2>5 DEF LaterLines
  <2>7. ASSUME NEW q \in LaterLines(p) PROVE q = h \/ Precedes(h, q)
    <3>1. /\ q \in SphereAll(p) /\ q.m \in Int /\ q.n \in Int
          /\ q \in LaterPlanes(p) \/ (q.m = p.m /\ q.n \in lines)
      BY <1>2
    <3>2. CASE q \in LaterPlanes(p)
      BY <2>5, <3>2 DEF LaterPlanes, Precedes
    <3>3. CASE q.m = p.m /\ q.n \in lines
      <4>1. n =< q.n
        BY <2>2, <3>3
      <4> QED BY <2>4, <2>5, <3>1, <3>3, <4>1 DEF Precedes
    <3> QED BY <3>1, <3>2, <3>3
  <2> QED BY <2>6, <2>7 DEF IsFirst, h
<1> QED BY <1>3, <1>4

(* and the next point of all. *)
LEMMA NextOIs ==
  ASSUME MaxRadius \in Nat, NEW p, IsSphere(p)
  PROVE  IsFirst(p, NextO(p), SphereLater(p))
<1> DEFINE points == {o \in PointsOn(p, p.m, p.n) : o > p.o}
           h == NextO(p)
<1>1. p.m \in Int /\ p.n \in Int /\ p.o \in Int
  BY DEF IsSphere
<1>2. ASSUME NEW q \in SphereLater(p)
      PROVE  /\ q \in SphereAll(p) /\ q \in Turns(p) /\ q.m \in Int /\ q.n \in Int /\ q.o \in Int
             /\ q \in LaterLines(p) \/ (q.m = p.m /\ q.n = p.n /\ q.o \in points)
  BY <1>1 DEF SphereLater, LaterLines, SphereAll, Turns, Precedes
<1>3. CASE points = {}
  <2>1. SphereLater(p) = LaterLines(p)
    BY <1>2, <1>3 DEF LaterLines, SphereLater, Precedes
  <2>2. NextO(p) = NextN(p)
    BY <1>3 DEF NextO
  <2> QED BY <2>1, <2>2, NextNIs
<1>4. CASE points # {}
  <2> DEFINE o == Min(points)
  <2>1. points \subseteq PointsOn(p, p.m, p.n)
    OBVIOUS
  <2>2. o \in points /\ points \subseteq Int /\ \A k \in points : o =< k
    <3> HIDE DEF points
    <3> QED BY <1>1, <1>4, <2>1, FirstPoint
  <2>3. h = At(p, p.m, p.n, o)
    BY <1>4 DEF NextO
  <2>4. o \in PointsOn(p, p.m, p.n) /\ o \in Int /\ p.o < o
    BY <1>1, <2>2
  <2> HIDE DEF o, h, points
  <2>5. /\ h \in Turns(p) /\ h.m = p.m /\ h.n = p.n /\ h.o = o
        /\ \A q \in Turns(p) : q.m = p.m /\ q.n = p.n /\ q.o = o => q = h
    BY <1>1, <2>3, <2>4, AtIs
  <2>6. h \in SphereLater(p)
    BY <2>4, <2>5 DEF SphereLater, SphereAll, Precedes
  <2>7. ASSUME NEW q \in SphereLater(p) PROVE q = h \/ Precedes(h, q)
    <3>1. /\ q \in Turns(p) /\ q.m \in Int /\ q.n \in Int /\ q.o \in Int
          /\ q \in LaterLines(p) \/ (q.m = p.m /\ q.n = p.n /\ q.o \in points)
      BY <1>2
    <3>2. CASE q \in LaterLines(p)
      BY <2>5, <3>2 DEF LaterLines, Precedes
    <3>3. CASE q.m = p.m /\ q.n = p.n /\ q.o \in points
      <4>1. o =< q.o
        BY <2>2, <3>3
      <4> QED BY <2>4, <2>5, <3>1, <3>3, <4>1 DEF Precedes
    <3> QED BY <3>1, <3>2, <3>3
  <2> QED BY <2>6, <2>7 DEF IsFirst, h
<1> QED BY <1>3, <1>4

(* Points are in planes that the sphere cuts. *)
LEMMA PointIsWithin ==
  ASSUME MaxRadius \in Nat, NEW p, IsSphere(p), NEW q \in SphereAll(p)
  PROVE  q \in Turns(p) /\ ~Finished(q) /\ q.m > -HiM(p)
<1>1. /\ q \in Turns(p) /\ q.m \in Int /\ q.n \in Int /\ q.o \in Int /\ q.o \in PointsOn(p, q.m, q.n)
  BY DEF SphereAll, Turns
<1>2. q.m \in 1 - HiM(p)..HiM(p) - 1
  BY <1>1, PointsAre
<1>3. HiM(q) = HiM(p) /\ HiM(p) \in Int
  BY <1>1, TurnsAre, HiMIs
<1> QED BY <1>1, <1>2, <1>3 DEF Finished

(* A step goes to the first of the later points, or ends when there are none. *)
LEMMA SphereStep ==
  ASSUME MaxRadius \in Nat, NEW p, IsSphere(p)
  PROVE  /\ NextO(p) \in Turns(p)
         /\ SphereLater(p) = {} => Finished(NextO(p))
         /\ SphereLater(p) # {} =>
              /\ SphereLater(p) = {NextO(p)} \cup SphereLater(NextO(p))
              /\ NextO(p) \notin SphereLater(NextO(p)) /\ NextO(p) \in SphereAll(p)
              /\ ~Finished(NextO(p))
<1> DEFINE h == NextO(p)
<1>0. HiM(p) \in Int /\ p \in Turns(p)
  <2>1. p.m \in Int /\ p \in Turns(p)
    BY DEF IsSphere, Turns
  <2> QED BY <2>1, HiMIs
<1>1. IsFirst(p, h, SphereLater(p))
  BY NextOIs
<1>2. CASE SphereLater(p) = {}
  <2>1. h = At(p, HiM(p), 0, 0)
    BY <1>1, <1>2 DEF IsFirst
  <2>2. h \in Turns(p) /\ h.m = HiM(p)
    BY <1>0, <2>1, AtIs
  <2>3. HiM(h) = HiM(p)
    BY <2>2, TurnsAre
  <2> QED BY <1>0, <1>2, <2>2, <2>3 DEF Finished
<1>3. CASE SphereLater(p) # {}
  <2>1. h \in SphereLater(p) /\ \A r \in SphereLater(p) : r = h \/ Precedes(h, r)
    BY <1>1, <1>3 DEF IsFirst
  <2>2. h \in SphereAll(p) /\ Precedes(p, h)
    BY <2>1 DEF SphereLater
  <2>3. h \in Turns(p) /\ ~Finished(h)
    BY <2>2, PointIsWithin
  <2>4. SphereAll(h) = SphereAll(p) /\ h.m \in Int /\ h.n \in Int /\ h.o \in Int
    BY <2>3, TurnsAre
  <2>5. p.m \in Int /\ p.n \in Int /\ p.o \in Int
    BY DEF IsSphere
  <2>6. h \notin SphereLater(h)
    BY <2>4 DEF SphereLater, Precedes
  <2>7. ASSUME NEW r \in SphereLater(h) PROVE r \in SphereLater(p)
    <3>1. r \in SphereAll(p) /\ Precedes(h, r)
      BY <2>4 DEF SphereLater
    <3>2. r.m \in Int /\ r.n \in Int /\ r.o \in Int
      BY <3>1 DEF SphereAll, Turns
    <3> QED BY <2>2, <2>4, <2>5, <3>1, <3>2 DEF SphereLater, Precedes
  <2>8. ASSUME NEW r \in SphereLater(p), r # h PROVE r \in SphereLater(h)
    BY <2>1, <2>4, <2>8 DEF SphereLater
  <2> QED BY <1>3, <2>1, <2>2, <2>3, <2>6, <2>7, <2>8
<1> QED BY <1>2, <1>3

(* Nothing comes after the end. *)
LEMMA FinishedIsLast ==
  ASSUME MaxRadius \in Nat, NEW p, IsSphere(p), Finished(p)
  PROVE  SphereLater(p) = {}
<1>1. p.m \in Int /\ HiM(p) \in Int
  BY HiMIs DEF IsSphere
<1>2. ASSUME NEW q \in SphereLater(p) PROVE FALSE
  <2>1. q \in SphereAll(p) /\ p.m =< q.m /\ q.m \in Int
    BY <1>1 DEF SphereLater, Precedes, SphereAll, Turns
  <2>2. q \in Turns(p) /\ ~Finished(q)
    BY <2>1, PointIsWithin
  <2>3. HiM(q) = HiM(p)
    BY <2>2, TurnsAre
  <2> QED BY <1>1, <2>1, <2>2, <2>3 DEF Finished
<1> QED BY <1>2

(* From its start an iteration has all points before it. *)
LEMMA SphereRewound ==
  ASSUME MaxRadius \in Nat, NEW p, IsSphere(p)
  PROVE  /\ Rewound(p) \in Turns(p)
         /\ SphereAll(p) = {} => Finished(Rewound(p))
         /\ SphereAll(p) # {} =>
              /\ SphereAll(p) = {Rewound(p)} \cup SphereLater(Rewound(p))
              /\ Rewound(p) \notin SphereLater(Rewound(p)) /\ Rewound(p) \in SphereAll(p)
              /\ ~Finished(Rewound(p))
<1> DEFINE q == At(p, -HiM(p), 0, 0)
<1>1. -HiM(p) \in Int
  <2>1. p.m \in Int
    BY DEF IsSphere
  <2> QED BY <2>1, HiMIs
<1>2. q \in Turns(p) /\ q.m = -HiM(p)
  BY <1>1, AtIs
<1>3. Rewound(p) = NextO(q)
  BY DEF Rewound
<1> HIDE DEF q
<1>4. IsSphere(q) /\ Turns(q) = Turns(p) /\ SphereAll(q) = SphereAll(p)
  BY <1>2, TurnsAre
<1>5. SphereLater(q) = SphereAll(p)
  <2>1. ASSUME NEW r \in SphereAll(p) PROVE Precedes(q, r)
    BY <1>2, PointIsWithin DEF Precedes
  <2> QED BY <1>4, <2>1 DEF SphereLater
<1> QED BY <1>3, <1>4, <1>5, SphereStep

-----------------------------------------------------------------------------
(* Lengths in the lattice.                                                 *)

(* The lattice is an upper triangle with a positive diagonal. *)
LEMMA LatticeIs ==
  /\ Triangular(L) /\ MaxDiagonal \in Nat /\ Grid \in Nat \ {0} /\ MaxRadius \in Nat
  /\ L[1][1] \in Nat \ {0} /\ L[2][2] \in Nat \ {0} /\ L[3][3] \in Nat \ {0}
  /\ L[1][2] \in Int /\ L[1][3] \in Int /\ L[2][3] \in Int
<1>1. L \in Matrices /\ L[1][1] > 0 /\ L[2][2] > 0 /\ L[3][3] > 0
  BY LatticeAssumption
<1>2. \A i, k \in 1..3 : L[i][k] \in Int
  BY <1>1, MatrixEntries
<1>3. /\ L[1][1] \in Int /\ L[2][2] \in Int /\ L[3][3] \in Int
      /\ L[1][2] \in Int /\ L[1][3] \in Int /\ L[2][3] \in Int
  BY <1>2
<1> QED BY <1>1, <1>3, LatticeAssumption, BoundsAssumption, GridAssumption DEF Triangular

(* AlongAxes and lengths in that lattice. *)
LEMMA CartesianIs ==
  ASSUME NEW x \in Int, NEW y \in Int, NEW z \in Int
  PROVE  Cartesian(L, <<x, y, z>>) =
           <<x * L[1][1], x * L[1][2] + y * L[2][2], x * L[1][3] + y * L[2][3] + z * L[3][3]>>
<1>1. L[2][1] = 0 /\ L[3][1] = 0 /\ L[3][2] = 0
  BY LatticeAssumption
<1>2. y * L[2][1] = 0 /\ z * L[3][1] = 0 /\ z * L[3][2] = 0
  BY <1>1
<1>3. /\ x * L[1][1] \in Int /\ x * L[1][2] \in Int /\ y * L[2][2] \in Int
  BY LatticeIs
<1> QED BY <1>2, <1>3 DEF Cartesian, Inner, Column

(* Lengths are sums of three squares. *)
LEMMA NormIs ==
  ASSUME NEW x \in Int, NEW y \in Int, NEW z \in Int
  PROVE  LET a == x * L[1][1]
             b == x * L[1][2] + y * L[2][2]
             c == x * L[1][3] + y * L[2][3] + z * L[3][3]
         IN  /\ a \in Int /\ b \in Int /\ c \in Int
             /\ Normsq(Cartesian(L, <<x, y, z>>)) = a * a + b * b + c * c
<1>1. /\ x * L[1][1] \in Int /\ x * L[1][2] + y * L[2][2] \in Int
      /\ x * L[1][3] + y * L[2][3] + z * L[3][3] \in Int
  BY LatticeIs
<1> QED BY <1>1, CartesianIs DEF Normsq, Inner

(* A parabola that is open above is below its values at the ends. *)
LEMMA Ends ==
  ASSUME NEW a \in Nat, NEW b \in Int, NEW N \in Nat, NEW d \in -N..N
  PROVE  \E s \in {-1, 1} : a * (d * d) + b * d =< a * (N * N) + b * (s * N)
<1>1. d * d =< N * N
  <2>1. d \in Int /\ -N =< d /\ d =< N
    OBVIOUS
  <2>2. (N - d) * (N + d) >= 0
    BY <2>1
  <2> QED BY <2>1, <2>2
<1>2. a * (d * d) =< a * (N * N)
  <2> DEFINE u == d * d
             v == N * N
  <2>1. u \in Int /\ v \in Int /\ u =< v
    BY <1>1
  <2> HIDE DEF u, v
  <2>2. a * u =< a * v
    BY <2>1
  <2> QED BY <2>2 DEF u, v
<1>3. CASE b >= 0
  <2>1. b * d =< b * N
    BY <1>3
  <2>2. b * d =< b * (1 * N)
    BY <2>1
  <2> QED BY <1>2, <2>2
<1>4. CASE b < 0
  <2>1. (-b) * (N + d) >= 0
    BY <1>4
  <2>2. b * d =< b * (-1 * N)
    BY <2>1
  <2> QED BY <1>2, <2>2
<1> QED BY <1>3, <1>4

(* The squares of three numbers that are linear in d. *)
LEMMA SquaresEnd ==
  ASSUME NEW N \in Nat, NEW d \in -N..N,
         NEW p \in Int, NEW q \in Int, NEW r \in Int, NEW u \in Int, NEW v \in Int, NEW w \in Int
  PROVE  \E s \in {-1, 1} :
           (p + d * u) * (p + d * u) + (q + d * v) * (q + d * v) + (r + d * w) * (r + d * w)
             =< (p + (s * N) * u) * (p + (s * N) * u) + (q + (s * N) * v) * (q + (s * N) * v)
                  + (r + (s * N) * w) * (r + (s * N) * w)
<1> DEFINE a == u * u + v * v + w * w
           b == 2 * (p * u + q * v + r * w)
           c == p * p + q * q + r * r
<1>1. a \in Nat /\ b \in Int /\ c \in Int
  <2>1. u * u \in Nat /\ v * v \in Nat /\ w * w \in Nat
    OBVIOUS
  <2> QED BY <2>1
<1>2. ASSUME NEW k \in Int
      PROVE (p + k * u) * (p + k * u) + (q + k * v) * (q + k * v) + (r + k * w) * (r + k * w)
              = a * (k * k) + b * k + c
  OBVIOUS
<1>3. PICK s \in {-1, 1} : a * (d * d) + b * d =< a * (N * N) + b * (s * N)
  <2> HIDE DEF a, b
  <2> QED BY <1>1, Ends
<1>4. s * N \in Int /\ (s * N) * (s * N) = N * N
  OBVIOUS
<1>5. d \in Int
  OBVIOUS
<1> DEFINE f(k) == (p + k * u) * (p + k * u) + (q + k * v) * (q + k * v) + (r + k * w) * (r + k * w)
           g(k) == a * (k * k) + b * k
<1>6. f(d) = g(d) + c /\ f(s * N) = g(s * N) + c
  BY <1>2, <1>4, <1>5
<1>7. g(d) =< g(s * N) /\ g(d) \in Int /\ g(s * N) \in Int
  <2> HIDE DEF a, b
  <2> QED BY <1>1, <1>3, <1>4, <1>5
<1>8. f(d) =< f(s * N)
  <2> HIDE DEF f, g, c
  <2> QED BY <1>1, <1>6, <1>7
<1> QED BY <1>8

(* The square of a vector of the lattice, for a matrix of a, b, c, e, f, g. *)
TriSquare(a, b, c, e, f, g, x, y, z) ==
  (x * a) * (x * a) + (x * b + y * c) * (x * b + y * c)
    + (x * e + y * f + z * g) * (x * e + y * f + z * g)

(* It is greatest in a corner of the cube. *)
LEMMA TriCorner ==
  ASSUME NEW a \in Int, NEW b \in Int, NEW c \in Int, NEW e \in Int, NEW f \in Int, NEW g \in Int,
         NEW N \in Nat, NEW x \in -N..N, NEW y \in -N..N, NEW z \in -N..N
  PROVE  \E s, t, u \in {-1, 1} :
           TriSquare(a, b, c, e, f, g, x, y, z)
             =< (N * N) * TriSquare(a, b, c, e, f, g, s, t, u)
<1> DEFINE Q(k, l, m) == TriSquare(a, b, c, e, f, g, k, l, m)
<1>0. PICK o \in Int : o = 0
  OBVIOUS
<1>a. x \in Int /\ y \in Int /\ z \in Int
  OBVIOUS
<1>b. ASSUME NEW k \in Int, NEW l \in Int, NEW m \in Int PROVE Q(k, l, m) \in Int
  BY DEF TriSquare
<1>1. PICK s \in {-1, 1} : Q(x, y, z) =< Q(s * N, y, z)
  <2> DEFINE q == y * c
             r == y * f + z * g
  <2>1. q \in Int /\ r \in Int
    OBVIOUS
  <2>2. ASSUME NEW k \in Int
        PROVE  Q(k, y, z) = (o + k * a) * (o + k * a) + (q + k * b) * (q + k * b)
                              + (r + k * e) * (r + k * e)
    <3>1. k * a = o + k * a /\ k * b + y * c = q + k * b /\ k * e + y * f + z * g = r + k * e
      BY <1>0, <1>a
    <3> QED BY <3>1 DEF TriSquare
  <2> HIDE DEF q, r, Q
  <2>3. PICK k \in {-1, 1} :
          (o + x * a) * (o + x * a) + (q + x * b) * (q + x * b) + (r + x * e) * (r + x * e)
            =< (o + (k * N) * a) * (o + (k * N) * a) + (q + (k * N) * b) * (q + (k * N) * b)
                 + (r + (k * N) * e) * (r + (k * N) * e)
    BY <1>0, <2>1, SquaresEnd
  <2>4. k * N \in Int
    OBVIOUS
  <2>5. Q(x, y, z) =< Q(k * N, y, z)
    BY <1>a, <2>2, <2>3, <2>4
  <2> QED BY <2>5
<1>2. PICK t \in {-1, 1} : Q(s * N, y, z) =< Q(s * N, t * N, z)
  <2> DEFINE i == s * N
             p == i * a
             q == i * b
             r == i * e + z * g
  <2>1. i \in Int /\ p \in Int /\ q \in Int /\ r \in Int
    BY <1>a
  <2>2. ASSUME NEW k \in Int
        PROVE  Q(i, k, z) = (p + k * o) * (p + k * o) + (q + k * c) * (q + k * c)
                              + (r + k * f) * (r + k * f)
    <3>1. k * c \in Int /\ k * f \in Int /\ i * e \in Int /\ z * g \in Int
      BY <2>1, <1>a
    <3>2. i * a = p + k * o /\ i * b + k * c = q + k * c
      BY <1>0, <2>1, <3>1
    <3>3. i * e + k * f + z * g = r + k * f
      BY <3>1
    <3> QED BY <3>2, <3>3 DEF TriSquare
  <2> HIDE DEF i, p, q, r, Q
  <2>3. PICK k \in {-1, 1} :
          (p + y * o) * (p + y * o) + (q + y * c) * (q + y * c) + (r + y * f) * (r + y * f)
            =< (p + (k * N) * o) * (p + (k * N) * o) + (q + (k * N) * c) * (q + (k * N) * c)
                 + (r + (k * N) * f) * (r + (k * N) * f)
    BY <1>0, <2>1, SquaresEnd
  <2>4. k * N \in Int
    OBVIOUS
  <2>5. Q(i, y, z) =< Q(i, k * N, z)
    BY <1>a, <2>2, <2>3, <2>4
  <2> QED BY <2>5 DEF i
<1>3. PICK u \in {-1, 1} : Q(s * N, t * N, z) =< Q(s * N, t * N, u * N)
  <2> DEFINE i == s * N
             j == t * N
             p == i * a
             q == i * b + j * c
             r == i * e + j * f
  <2>1. i \in Int /\ j \in Int /\ p \in Int /\ q \in Int /\ r \in Int
    OBVIOUS
  <2>2. ASSUME NEW k \in Int
        PROVE  Q(i, j, k) = (p + k * o) * (p + k * o) + (q + k * o) * (q + k * o)
                              + (r + k * g) * (r + k * g)
    <3>1. i * a = p + k * o /\ i * b + j * c = q + k * o
      BY <1>0, <2>1
    <3> QED BY <3>1 DEF TriSquare
  <2> HIDE DEF i, j, p, q, r, Q
  <2>3. PICK k \in {-1, 1} :
          (p + z * o) * (p + z * o) + (q + z * o) * (q + z * o) + (r + z * g) * (r + z * g)
            =< (p + (k * N) * o) * (p + (k * N) * o) + (q + (k * N) * o) * (q + (k * N) * o)
                 + (r + (k * N) * g) * (r + (k * N) * g)
    BY <1>0, <2>1, SquaresEnd
  <2>4. k * N \in Int
    OBVIOUS
  <2>5. Q(i, j, z) =< Q(i, j, k * N)
    BY <1>a, <2>2, <2>3, <2>4
  <2> QED BY <2>5 DEF i, j
<1>4. Q(s * N, t * N, u * N) = (N * N) * Q(s, t, u)
  <2>1. s \in Int /\ t \in Int /\ u \in Int
    OBVIOUS
  <2> QED BY <2>1 DEF TriSquare
<1>5. Q(x, y, z) =< (N * N) * Q(s, t, u)
  <2>1. s * N \in Int /\ t * N \in Int /\ u * N \in Int
    OBVIOUS
  <2>2. /\ Q(x, y, z) \in Int /\ Q(s * N, y, z) \in Int /\ Q(s * N, t * N, z) \in Int
        /\ Q(s * N, t * N, u * N) \in Int
    BY <1>a, <1>b, <2>1
  <2> HIDE DEF Q
  <2> QED BY <1>1, <1>2, <1>3, <1>4, <2>2
<1> QED BY <1>5

(* Two corners of a cell are at most the longest diagonal apart. *)
LEMMA Diameter ==
  ASSUME NEW N \in Nat, NEW x \in -N..N, NEW y \in -N..N, NEW z \in -N..N
  PROVE  Normsq(Cartesian(L, <<x, y, z>>)) =< (N * MaxDiagonal) * (N * MaxDiagonal)
<1> DEFINE Q(k, l, m) ==
             TriSquare(L[1][1], L[1][2], L[2][2], L[1][3], L[2][3], L[3][3], k, l, m)
           D == MaxDiagonal
<1>1. /\ L[1][1] \in Int /\ L[2][2] \in Int /\ L[3][3] \in Int
      /\ L[1][2] \in Int /\ L[1][3] \in Int /\ L[2][3] \in Int /\ D \in Nat
  BY LatticeIs
<1>2. ASSUME NEW k \in Int, NEW l \in Int, NEW m \in Int
      PROVE  Q(k, l, m) = Normsq(Cartesian(L, <<k, l, m>>)) /\ Q(k, l, m) \in Int
  <2> DEFINE a == k * L[1][1]
             b == k * L[1][2] + l * L[2][2]
             c == k * L[1][3] + l * L[2][3] + m * L[3][3]
  <2>1. a \in Int /\ b \in Int /\ c \in Int
    BY <1>1
  <2>2. Normsq(Cartesian(L, <<k, l, m>>)) = a * a + b * b + c * c
    BY NormIs
  <2>3. Q(k, l, m) = a * a + b * b + c * c
    BY DEF TriSquare
  <2> HIDE DEF a, b, c, Q
  <2> QED BY <2>1, <2>2, <2>3
<1>3. PICK s, t, u \in {-1, 1} : Q(x, y, z) =< (N * N) * Q(s, t, u)
  BY <1>1, TriCorner
<1>4. s \in Int /\ t \in Int /\ u \in Int /\ -s \in Int /\ -t \in Int /\ -u \in Int
  OBVIOUS
<1>5. Q(s, t, u) = Q(-s, -t, -u)
  <2>1. /\ (-s) * L[1][1] = -(s * L[1][1]) /\ (-s) * L[1][2] = -(s * L[1][2])
        /\ (-s) * L[1][3] = -(s * L[1][3]) /\ (-t) * L[2][2] = -(t * L[2][2])
        /\ (-t) * L[2][3] = -(t * L[2][3]) /\ (-u) * L[3][3] = -(u * L[3][3])
    BY <1>1, <1>4
  <2> DEFINE i == s * L[1][1]
             j == s * L[1][2] + t * L[2][2]
             k == s * L[1][3] + t * L[2][3] + u * L[3][3]
  <2>2. /\ i \in Int /\ j \in Int /\ k \in Int
        /\ (-s) * L[1][1] = -i /\ (-s) * L[1][2] + (-t) * L[2][2] = -j
        /\ (-s) * L[1][3] + (-t) * L[2][3] + (-u) * L[3][3] = -k
    <3>1. /\ s * L[1][1] \in Int /\ s * L[1][2] \in Int /\ t * L[2][2] \in Int
          /\ s * L[1][3] \in Int /\ t * L[2][3] \in Int /\ u * L[3][3] \in Int
      BY <1>1, <1>4
    <3> QED BY <2>1, <3>1
  <2>3. Q(s, t, u) = i * i + j * j + k * k /\ Q(-s, -t, -u) = (-i) * (-i) + (-j) * (-j) + (-k) * (-k)
    BY <2>2 DEF TriSquare
  <2> HIDE DEF i, j, k, Q
  <2>4. (-i) * (-i) = i * i /\ (-j) * (-j) = j * j /\ (-k) * (-k) = k * k
    BY <2>2
  <2> QED BY <2>3, <2>4
<1>6. <<s, t, u>> \in Diagonals \/ <<-s, -t, -u>> \in Diagonals
  BY DEF Diagonals
<1>7. \A d \in Diagonals : Normsq(Cartesian(L, d)) =< D * D
  BY LatticeAssumption
<1>8. Q(s, t, u) =< D * D
  <2> HIDE DEF Q, D
  <2> QED BY <1>2, <1>4, <1>5, <1>6, <1>7
<1>9. Q(x, y, z) =< (N * N) * (D * D)
  <2> DEFINE i == Q(s, t, u)
             j == D * D
             k == N * N
  <2>1. i \in Int /\ j \in Int /\ k \in Nat /\ i =< j
    <3>1. j \in Int /\ k \in Nat
      BY <1>1
    <3>2. i \in Int
      <4> HIDE DEF Q
      <4> QED BY <1>2, <1>4
    <3>3. i =< j
      BY <1>8
    <3> QED BY <3>1, <3>2, <3>3
  <2>2. k * i =< k * j
    <3> HIDE DEF i, j, k
    <3> QED BY <2>1
  <2>3. Q(x, y, z) \in Int /\ k * i \in Int /\ k * j \in Int
    <3>1. x \in Int /\ y \in Int /\ z \in Int
      OBVIOUS
    <3>2. Q(x, y, z) \in Int
      <4> HIDE DEF Q
      <4> QED BY <1>2, <3>1
    <3> HIDE DEF Q, i, j, k
    <3> QED BY <2>1, <3>2
  <2> HIDE DEF i, j, k, Q
  <2>4. Q(x, y, z) =< k * i
    BY <1>3 DEF i, k
  <2>5. Q(x, y, z) =< k * j
    BY <2>2, <2>3, <2>4
  <2> QED BY <2>5 DEF j, k
<1>10. (N * D) * (N * D) = (N * N) * (D * D)
  BY <1>1
<1>11. x \in Int /\ y \in Int /\ z \in Int
  OBVIOUS
<1> QED
  <2>1. Normsq(Cartesian(L, <<x, y, z>>)) = Q(x, y, z)
    BY <1>2, <1>11
  <2> HIDE DEF Q
  <2> QED BY <1>9, <1>10, <2>1

-----------------------------------------------------------------------------
(* Inequalities, and sums of vectors.                                      *)

(* The inequality of Cauchy and Schwarz, *)
LEMMA Cauchy ==
  ASSUME NEW u \in Vectors, NEW v \in Vectors
  PROVE  /\ Normsq(u) \in Nat /\ Normsq(v) \in Nat /\ Inner(u, v) \in Int
         /\ Inner(u, v) * Inner(u, v) =< Normsq(u) * Normsq(v)
<1> DEFINE a == u[1]
           b == u[2]
           c == u[3]
           x == v[1]
           y == v[2]
           z == v[3]
<1>1. a \in Int /\ b \in Int /\ c \in Int /\ x \in Int /\ y \in Int /\ z \in Int
  BY DEF Vectors
<1>2. /\ Normsq(u) = a * a + b * b + c * c /\ Normsq(v) = x * x + y * y + z * z
      /\ Inner(u, v) = a * x + b * y + c * z
  BY DEF Normsq, Inner
<1> HIDE DEF a, b, c, x, y, z
<1>3. (a * x + b * y + c * z) * (a * x + b * y + c * z)
        + (a * y - b * x) * (a * y - b * x) + (a * z - c * x) * (a * z - c * x)
        + (b * z - c * y) * (b * z - c * y)
      = (a * a + b * b + c * c) * (x * x + y * y + z * z)
  BY <1>1
<1>4. \A k \in Int : k * k \in Nat
  OBVIOUS
<1>5. /\ (a * y - b * x) * (a * y - b * x) \in Nat /\ (a * z - c * x) * (a * z - c * x) \in Nat
      /\ (b * z - c * y) * (b * z - c * y) \in Nat
      /\ a * a \in Nat /\ b * b \in Nat /\ c * c \in Nat /\ x * x \in Nat /\ y * y \in Nat /\ z * z \in Nat
      /\ a * x + b * y + c * z \in Int
  <2>1. /\ a * y - b * x \in Int /\ a * z - c * x \in Int /\ b * z - c * y \in Int
    BY <1>1
  <2>2. a * x \in Int /\ b * y \in Int /\ c * z \in Int
    BY <1>1
  <2> QED BY <1>1, <1>4, <2>1, <2>2
<1>6. (a * x + b * y + c * z) * (a * x + b * y + c * z)
        =< (a * a + b * b + c * c) * (x * x + y * y + z * z)
  <2> DEFINE p == (a * x + b * y + c * z) * (a * x + b * y + c * z)
             q == (a * y - b * x) * (a * y - b * x)
             r == (a * z - c * x) * (a * z - c * x)
             s == (b * z - c * y) * (b * z - c * y)
             t == (a * a + b * b + c * c) * (x * x + y * y + z * z)
  <2>1. p + q + r + s = t /\ q \in Nat /\ r \in Nat /\ s \in Nat
    BY <1>3, <1>5
  <2>2. p \in Int
    BY <1>5
  <2> HIDE DEF p, q, r, s, t
  <2>3. p =< t
    BY <2>1, <2>2
  <2> QED BY <2>3 DEF p, t
<1> QED BY <1>2, <1>5, <1>6

(* and that of the triangle. *)
LEMMA Triangle ==
  ASSUME NEW u \in Vectors, NEW v \in Vectors, NEW A \in Nat, NEW B \in Nat,
         Normsq(u) =< A * A, Normsq(v) =< B * B
  PROVE  Normsq(Plus(u, v)) =< (A + B) * (A + B)
<1> DEFINE i == Inner(u, v)
           p == Normsq(u)
           q == Normsq(v)
<1>1. p \in Nat /\ q \in Nat /\ i \in Int /\ i * i =< p * q
  BY Cauchy
<1>2. Normsq(Plus(u, v)) = p + 2 * i + q
  <2>1. /\ u[1] \in Int /\ u[2] \in Int /\ u[3] \in Int /\ v[1] \in Int /\ v[2] \in Int /\ v[3] \in Int
    BY DEF Vectors
  <2> QED BY <2>1 DEF Normsq, Inner, Plus
<1>3. p =< A * A /\ q =< B * B
  OBVIOUS
<1> HIDE DEF i, p, q
<1>4. p * q =< (A * B) * (A * B)
  <2>1. A * A \in Nat /\ B * B \in Nat
    OBVIOUS
  <2>2. p * q =< (A * A) * q
    <3> DEFINE a == A * A
    <3> HIDE DEF a
    <3>1. a \in Nat /\ p =< a
      BY <1>3, <2>1 DEF a
    <3>2. p * q =< a * q
      BY <1>1, <3>1
    <3> QED BY <3>2 DEF a
  <2>3. (A * A) * q =< (A * A) * (B * B)
    <3> DEFINE a == A * A
               b == B * B
    <3> HIDE DEF a, b
    <3>1. a \in Nat /\ b \in Nat /\ q =< b
      BY <1>3, <2>1 DEF a, b
    <3>2. a * q =< a * b
      BY <1>1, <3>1
    <3> QED BY <3>2 DEF a, b
  <2>4. (A * A) * (B * B) = (A * B) * (A * B)
    OBVIOUS
  <2>5. p * q \in Int /\ (A * A) * q \in Int /\ (A * A) * (B * B) \in Int
    BY <1>1, <2>1
  <2> HIDE DEF p, q
  <2> QED BY <2>2, <2>3, <2>4, <2>5
<1>5. i =< A * B
  <2> DEFINE c == A * B
  <2>1. c \in Nat
    OBVIOUS
  <2>2. i * i =< c * c
    <3>1. i * i \in Int /\ p * q \in Int /\ c * c \in Int
      BY <1>1, <2>1
    <3> QED BY <1>1, <1>4, <3>1
  <2> HIDE DEF c
  <2>3. i =< c
    <3> SUFFICES ASSUME c < i PROVE FALSE
      BY <1>1, <2>1
    <3>1. i \in Nat
      BY <1>1, <2>1
    <3> QED BY <2>1, <2>2, <3>1, SquaresOrder
  <2> QED BY <2>3 DEF c
<1>6. (A + B) * (A + B) = A * A + 2 * (A * B) + B * B
  OBVIOUS
<1>7. A * A \in Int /\ B * B \in Int /\ A * B \in Int
  OBVIOUS
<1> QED BY <1>1, <1>2, <1>3, <1>5, <1>6, <1>7

(* Vectors are added and subtracted in either coordinates. *)
LEMMA VectorsAre ==
  ASSUME NEW x \in Vectors, NEW y \in Vectors
  PROVE  /\ x[1] \in Int /\ x[2] \in Int /\ x[3] \in Int /\ x = <<x[1], x[2], x[3]>>
         /\ Plus(x, y) \in Vectors /\ Minus(x, y) \in Vectors /\ Cartesian(L, x) \in Vectors
         /\ Plus(Minus(x, y), y) = x
         /\ Cartesian(L, Plus(x, y)) = Plus(Cartesian(L, x), Cartesian(L, y))
         /\ Cartesian(L, Minus(x, y)) = Minus(Cartesian(L, x), Cartesian(L, y))
<1>1. x[1] \in Int /\ x[2] \in Int /\ x[3] \in Int /\ x = <<x[1], x[2], x[3]>>
  BY DEF Vectors
<1>2. y[1] \in Int /\ y[2] \in Int /\ y[3] \in Int /\ y = <<y[1], y[2], y[3]>>
  BY DEF Vectors
<1> DEFINE a == L[1][1]
           b == L[1][2]
           c == L[2][2]
           e == L[1][3]
           f == L[2][3]
           g == L[3][3]
           C(u, v, w) == <<u * a, u * b + v * c, u * e + v * f + w * g>>
<1>3. a \in Int /\ b \in Int /\ c \in Int /\ e \in Int /\ f \in Int /\ g \in Int
  BY LatticeIs
<1>4. ASSUME NEW u \in Int, NEW v \in Int, NEW w \in Int
      PROVE  /\ Cartesian(L, <<u, v, w>>) = C(u, v, w)
             /\ u * a \in Int /\ u * b + v * c \in Int /\ u * e + v * f + w * g \in Int
  <2>1. Cartesian(L, <<u, v, w>>) = C(u, v, w)
    BY CartesianIs
  <2> HIDE DEF a, b, c, e, f, g
  <2>2. /\ u * a \in Int /\ u * b \in Int /\ v * c \in Int
        /\ u * e \in Int /\ v * f \in Int /\ w * g \in Int
    BY <1>3
  <2>3. u * a \in Int /\ u * b + v * c \in Int /\ u * e + v * f + w * g \in Int
    BY <2>2
  <2> QED BY <2>1, <2>3
<1> HIDE DEF a, b, c, e, f, g
<1>5. Plus(x, y) = <<x[1] + y[1], x[2] + y[2], x[3] + y[3]>>
  BY DEF Plus
<1>6. Minus(x, y) = <<x[1] - y[1], x[2] - y[2], x[3] - y[3]>>
  BY DEF Minus
<1>7. Plus(x, y) \in Vectors /\ Minus(x, y) \in Vectors
  BY <1>1, <1>2, <1>5, <1>6 DEF Vectors
<1>8. Cartesian(L, x) = C(x[1], x[2], x[3]) /\ Cartesian(L, y) = C(y[1], y[2], y[3])
  <2> HIDE DEF C
  <2> QED BY <1>1, <1>2, <1>4
<1>9. Cartesian(L, x) \in Vectors
  BY <1>1, <1>4, <1>8 DEF Vectors
<1>10. Plus(Minus(x, y), y) = x
  BY <1>1, <1>2, <1>6 DEF Plus
<1>11. Cartesian(L, Plus(x, y)) = C(x[1] + y[1], x[2] + y[2], x[3] + y[3])
  <2>1. x[1] + y[1] \in Int /\ x[2] + y[2] \in Int /\ x[3] + y[3] \in Int
    BY <1>1, <1>2
  <2> QED BY <1>4, <1>5, <2>1
<1>12. Cartesian(L, Minus(x, y)) = C(x[1] - y[1], x[2] - y[2], x[3] - y[3])
  <2>1. x[1] - y[1] \in Int /\ x[2] - y[2] \in Int /\ x[3] - y[3] \in Int
    BY <1>1, <1>2
  <2> QED BY <1>4, <1>6, <2>1
<1>13. ASSUME NEW u \in Int, NEW v \in Int, NEW k \in Int
       PROVE  (u + v) * k = u * k + v * k /\ (u - v) * k = u * k - v * k /\ u * k \in Int /\ v * k \in Int
  OBVIOUS
<1> DEFINE u == x[1]
           v == x[2]
           w == x[3]
           r == y[1]
           s == y[2]
           t == y[3]
<1>14. u \in Int /\ v \in Int /\ w \in Int /\ r \in Int /\ s \in Int /\ t \in Int
  BY <1>1, <1>2
<1> HIDE DEF u, v, w, r, s, t
<1>15. /\ (u + r) * a = u * a + r * a
       /\ (u + r) * b + (v + s) * c = (u * b + v * c) + (r * b + s * c)
       /\ (u + r) * e + (v + s) * f + (w + t) * g = (u * e + v * f + w * g) + (r * e + s * f + t * g)
  BY <1>3, <1>14
<1>16. /\ (u - r) * a = u * a - r * a
       /\ (u - r) * b + (v - s) * c = (u * b + v * c) - (r * b + s * c)
       /\ (u - r) * e + (v - s) * f + (w - t) * g = (u * e + v * f + w * g) - (r * e + s * f + t * g)
  BY <1>3, <1>14
<1>17. C(u + r, v + s, w + t) = Plus(C(u, v, w), C(r, s, t))
  BY <1>15 DEF Plus
<1>18. C(u - r, v - s, w - t) = Minus(C(u, v, w), C(r, s, t))
  BY <1>16 DEF Minus
<1>19. /\ Cartesian(L, Plus(x, y)) = Plus(Cartesian(L, x), Cartesian(L, y))
       /\ Cartesian(L, Minus(x, y)) = Minus(Cartesian(L, x), Cartesian(L, y))
  <2> HIDE DEF C
  <2> QED BY <1>8, <1>11, <1>12, <1>17, <1>18 DEF u, v, w, r, s, t
<1> HIDE DEF C
<1> QED BY <1>1, <1>7, <1>9, <1>10, <1>19

(* No two fractional coordinates have the same place. *)
LEMMA CartesianDiffers ==
  ASSUME NEW x \in Vectors, NEW y \in Vectors, Cartesian(L, x) = Cartesian(L, y)
  PROVE  x = y
<1> DEFINE a == L[1][1]
           b == L[1][2]
           c == L[2][2]
           e == L[1][3]
           f == L[2][3]
           g == L[3][3]
           u == x[1]
           v == x[2]
           w == x[3]
           r == y[1]
           s == y[2]
           t == y[3]
<1>1. /\ a \in Nat \ {0} /\ b \in Int /\ c \in Nat \ {0} /\ e \in Int /\ f \in Int /\ g \in Nat \ {0}
      /\ u \in Int /\ v \in Int /\ w \in Int /\ r \in Int /\ s \in Int /\ t \in Int
      /\ x = <<u, v, w>> /\ y = <<r, s, t>>
  BY LatticeIs, VectorsAre
<1>2. u * a = r * a /\ u * b + v * c = r * b + s * c /\ u * e + v * f + w * g = r * e + s * f + t * g
  <2>1. Cartesian(L, <<u, v, w>>) = <<u * a, u * b + v * c, u * e + v * f + w * g>>
    BY <1>1, CartesianIs
  <2>2. Cartesian(L, <<r, s, t>>) = <<r * a, r * b + s * c, r * e + s * f + t * g>>
    BY <1>1, CartesianIs
  <2>3. Cartesian(L, <<u, v, w>>) = Cartesian(L, <<r, s, t>>)
    BY <1>1
  <2> HIDE DEF a, b, c, e, f, g, u, v, w, r, s, t
  <2> QED BY <2>1, <2>2, <2>3
<1> HIDE DEF a, b, c, e, f, g, u, v, w, r, s, t
<1>3. ASSUME NEW i \in Int, NEW j \in Int, NEW k \in Nat \ {0}, i * k = j * k PROVE i = j
  <2>1. (i - j) * k = 0
    BY <1>3
  <2> QED BY <2>1
<1>4. u = r
  BY <1>1, <1>2, <1>3
<1>5. v * c = s * c
  <2> DEFINE k == u * b
             p == v * c
             q == s * c
  <2>1. k \in Int /\ p \in Int /\ q \in Int
    BY <1>1
  <2>2. k + p = k + q
    BY <1>2, <1>4
  <2> HIDE DEF k, p, q
  <2>3. p = q
    BY <2>1, <2>2
  <2> QED BY <2>3 DEF p, q
<1>6. v = s
  BY <1>1, <1>3, <1>5
<1>7. w * g = t * g
  <2> DEFINE j == u * e
             k == v * f
             p == w * g
             q == t * g
  <2>1. j \in Int /\ k \in Int /\ p \in Int /\ q \in Int
    BY <1>1
  <2>2. j + k + p = j + k + q
    BY <1>2, <1>4, <1>6
  <2> HIDE DEF j, k, p, q
  <2>3. p = q
    BY <2>1, <2>2
  <2> QED BY <2>3 DEF p, q
<1>8. w = t
  BY <1>1, <1>3, <1>7
<1> QED BY <1>1, <1>4, <1>6, <1>8

-----------------------------------------------------------------------------
(* How far lattice points of bonds are.                                    *)

LatticePoint(m, n, o) == Cartesian(L, <<Grid * m, Grid * n, Grid * o>>)

(* The diagonal of a cell has a length. *)
LEMMA LongDiagonal ==
  MaxDiagonal \in Nat \ {0}
<1> DEFINE D == MaxDiagonal
           b == L[1][2] + L[2][2]
           c == L[1][3] + L[2][3] + L[3][3]
<1>0. D \in Nat /\ L[1][1] \in Nat \ {0} /\ b \in Int /\ c \in Int
  BY LatticeIs
<1>1. Normsq(Cartesian(L, <<1, 1, 1>>)) =< D * D
  BY LatticeAssumption DEF Diagonals
<1>2. PICK i \in Int : i = 1
  OBVIOUS
<1>3. /\ i * L[1][1] = L[1][1] /\ i * L[1][2] + i * L[2][2] = b
      /\ i * L[1][3] + i * L[2][3] + i * L[3][3] = c
  BY <1>2, LatticeIs
<1>4. Normsq(Cartesian(L, <<i, i, i>>)) = L[1][1] * L[1][1] + b * b + c * c
  BY <1>2, <1>3, NormIs
<1>5. L[1][1] * L[1][1] > 0 /\ b * b >= 0 /\ c * c >= 0
  BY <1>0
<1>6. D * D > 0
  <2>1. L[1][1] * L[1][1] \in Int /\ b * b \in Int /\ c * c \in Int /\ D * D \in Int
    BY <1>0
  <2> HIDE DEF b, c, D
  <2> QED BY <1>1, <1>2, <1>4, <1>5, <2>1
<1> QED BY <1>0, <1>6

(* Places in one cell are less than the longest diagonal apart. *)
LEMMA CellsNear ==
  ASSUME NEW x \in Vectors, NEW y \in Vectors, InCell(x), InCell(y)
  PROVE  Normsq(Cartesian(L, Minus(x, y))) =< ((Grid - 1) * MaxDiagonal) * ((Grid - 1) * MaxDiagonal)
<1> DEFINE N == Grid - 1
           i == x[1] - y[1]
           j == x[2] - y[2]
           k == x[3] - y[3]
<1>1. N \in Nat /\ i \in -N..N /\ j \in -N..N /\ k \in -N..N
  <2>1. /\ x[1] \in 0..N /\ x[2] \in 0..N /\ x[3] \in 0..N
        /\ y[1] \in 0..N /\ y[2] \in 0..N /\ y[3] \in 0..N
    BY DEF InCell
  <2>2. N \in Nat
    BY LatticeIs
  <2> HIDE DEF N
  <2> QED BY <2>1, <2>2
<1>2. Minus(x, y) = <<i, j, k>>
  BY DEF Minus
<1> HIDE DEF N, i, j, k
<1>3. Normsq(Cartesian(L, <<i, j, k>>)) =< (N * MaxDiagonal) * (N * MaxDiagonal)
  BY <1>1, Diameter
<1> QED BY <1>2, <1>3 DEF N

(* The distance of a lattice point. *)
LEMMA PointFar ==
  ASSUME NEW p, IsSphere(p), p.L = L, NEW m \in Int, NEW n \in Int, NEW o \in Int
  PROVE  /\ LatticePoint(m, n, o) \in Vectors /\ Far(p, m, n, o) \in Nat
         /\ Normsq(LatticePoint(m, n, o)) = (Grid * Grid) * Far(p, m, n, o)
<1> DEFINE G == Grid
           a == Plane(p, m)
           b == Line(p, m, n)
           c == Spot(p, m, n, o)
<1>1. a \in Int /\ b \in Int /\ c \in Int /\ G \in Nat /\ G * m \in Int /\ G * n \in Int /\ G * o \in Int
  <2>1. a \in Int /\ b \in Int /\ c \in Int
    BY AlongAxes
  <2>2. G \in Nat
    BY LatticeIs
  <2> HIDE DEF a, b, c, G
  <2> QED BY <2>1, <2>2
<1>2. /\ L[1][1] \in Int /\ L[2][2] \in Int /\ L[3][3] \in Int
      /\ L[1][2] \in Int /\ L[1][3] \in Int /\ L[2][3] \in Int
  BY LatticeIs
<1>3. /\ (G * m) * L[1][1] = G * a
      /\ (G * m) * L[1][2] + (G * n) * L[2][2] = G * b
      /\ (G * m) * L[1][3] + (G * n) * L[2][3] + (G * o) * L[3][3] = G * c
  <2> DEFINE h == L[1][1]
             i == L[1][2]
             j == L[2][2]
             q == L[1][3]
             r == L[2][3]
             s == L[3][3]
  <2>1. /\ a = m * h /\ b = n * j + m * i /\ c = o * s + (m * q + n * r)
        /\ h \in Int /\ i \in Int /\ j \in Int /\ q \in Int /\ r \in Int /\ s \in Int
    BY <1>2 DEF Plane, Line, Spot
  <2> HIDE DEF a, b, c, G, h, i, j, q, r, s
  <2>2. ASSUME NEW u \in Int, NEW v \in Int PROVE (G * u) * v = G * (u * v) /\ u * v \in Int
    BY <1>1
  <2>3. ASSUME NEW u \in Int, NEW v \in Int PROVE G * (u + v) = G * u + G * v /\ G * u \in Int
    BY <1>1
  <2>4. (G * m) * h = G * a
    BY <2>1, <2>2
  <2>5. (G * m) * i + (G * n) * j = G * b
    <3>1. m * i \in Int /\ n * j \in Int
      BY <2>1
    <3>2. G * b = G * (n * j) + G * (m * i)
      BY <2>1, <2>3, <3>1
    <3>3. (G * m) * i = G * (m * i) /\ (G * n) * j = G * (n * j)
      BY <2>1, <2>2
    <3>4. G * (n * j) \in Int /\ G * (m * i) \in Int
      BY <2>3, <3>1
    <3> QED BY <3>2, <3>3, <3>4
  <2>6. (G * m) * q + (G * n) * r + (G * o) * s = G * c
    <3>1. m * q \in Int /\ n * r \in Int /\ o * s \in Int /\ m * q + n * r \in Int
      BY <2>1
    <3>2. G * c = G * (o * s) + (G * (m * q) + G * (n * r))
      BY <2>1, <2>3, <3>1
    <3>3. /\ (G * m) * q = G * (m * q) /\ (G * n) * r = G * (n * r) /\ (G * o) * s = G * (o * s)
      BY <2>1, <2>2
    <3>4. G * (m * q) \in Int /\ G * (n * r) \in Int /\ G * (o * s) \in Int
      BY <2>3, <3>1
    <3> QED BY <3>2, <3>3, <3>4
  <2> QED BY <2>4, <2>5, <2>6 DEF h, i, j, q, r, s
<1>4. Normsq(LatticePoint(m, n, o)) = (G * a) * (G * a) + (G * b) * (G * b) + (G * c) * (G * c)
  <2> DEFINE u == G * m
             v == G * n
             w == G * o
  <2>1. u \in Int /\ v \in Int /\ w \in Int
    BY <1>1
  <2>2. LatticePoint(m, n, o) = Cartesian(L, <<u, v, w>>)
    BY DEF LatticePoint
  <2>3. u * L[1][1] = G * a /\ u * L[1][2] + v * L[2][2] = G * b
        /\ u * L[1][3] + v * L[2][3] + w * L[3][3] = G * c
    BY <1>3
  <2> HIDE DEF u, v, w, G, a, b, c
  <2> QED BY <2>1, <2>2, <2>3, NormIs
<1>5. <<G * m, G * n, G * o>> \in Vectors
  BY <1>1 DEF Vectors
<1>6. LatticePoint(m, n, o) \in Vectors
  BY <1>5, VectorsAre DEF LatticePoint
<1> HIDE DEF a, b, c, G
<1>7. (G * a) * (G * a) + (G * b) * (G * b) + (G * c) * (G * c) = (G * G) * (a * a + b * b + c * c)
  BY <1>1
<1>8. a * a \in Nat /\ b * b \in Nat /\ c * c \in Nat
  BY <1>1
<1> QED BY <1>4, <1>6, <1>7, <1>8 DEF Far, a, b, c, G

(* What the length of a bond says of the lattice point it takes. *)
LEMMA PointOfBond ==
  ASSUME NEW p, IsSphere(p), p.L = L, NEW m \in Int, NEW n \in Int, NEW o \in Int,
         NEW x \in Vectors, NEW y \in Vectors, InCell(x), InCell(y), NEW r \in Nat
  PROVE  LET dd == Normsq(Minus(Plus(Cartesian(L, x), LatticePoint(m, n, o)), Cartesian(L, y)))
         IN  /\ dd \in Nat
             /\ dd =< Scaled(r) => Far(p, m, n, o) < SignedSquare(r + MaxDiagonal)
             /\ dd >= Scaled(r) /\ MaxDiagonal =< r => Far(p, m, n, o) > SignedSquare(r - MaxDiagonal)
<1> DEFINE G == Grid
           D == MaxDiagonal
           f == Far(p, m, n, o)
           P == LatticePoint(m, n, o)
           cx == Cartesian(L, x)
           cy == Cartesian(L, y)
           e == Minus(Plus(cx, P), cy)
           B == (G - 1) * D
<1>1. G \in Nat \ {0} /\ D \in Nat \ {0} /\ f \in Nat /\ P \in Vectors /\ Normsq(P) = (G * G) * f
  BY LongDiagonal, LatticeIs, PointFar
<1>2. cx \in Vectors /\ cy \in Vectors
  BY VectorsAre
<1> HIDE DEF G, D, f, P, cx, cy
<1>3. B \in Nat
  BY <1>1
<1>4. /\ Minus(cx, cy) \in Vectors /\ Minus(cy, cx) \in Vectors /\ e \in Vectors
  BY <1>1, <1>2, VectorsAre
<1>5. Normsq(Minus(cx, cy)) =< B * B /\ Normsq(Minus(cy, cx)) =< B * B
  BY CellsNear, VectorsAre DEF cx, cy, G, D
<1>6. Plus(e, Minus(cy, cx)) = P /\ Plus(P, Minus(cx, cy)) = e
  <2>1. /\ P[1] \in Int /\ P[2] \in Int /\ P[3] \in Int /\ P = <<P[1], P[2], P[3]>>
        /\ cx[1] \in Int /\ cx[2] \in Int /\ cx[3] \in Int
        /\ cy[1] \in Int /\ cy[2] \in Int /\ cy[3] \in Int
    BY <1>1, <1>2, VectorsAre
  <2> QED BY <2>1 DEF Plus, Minus
<1>7. Normsq(e) \in Nat
  BY <1>4, Cauchy
<1> HIDE DEF e, B
<1>8. Scaled(r) = (G * r) * (G * r) /\ G * r \in Nat
  <2>1. G * r \in Nat
    BY <1>1
  <2> QED BY <2>1, SignedSquareIs DEF Scaled, G
<1>9. ASSUME Normsq(e) =< Scaled(r) PROVE f < SignedSquare(r + D)
  <2> DEFINE A == G * r
             C == G * (r + D)
             E == r + D
  <2>1. A \in Nat /\ A + B \in Nat /\ C \in Nat /\ A + B < C /\ E \in Nat
    <3>1. G * D \in Int /\ G * r \in Int /\ B = G * D - D /\ C = G * r + G * D
      BY <1>1 DEF B
    <3> QED BY <1>1, <1>3, <1>8, <3>1
  <2> HIDE DEF A, E
  <2>2. Normsq(P) =< (A + B) * (A + B)
    BY <1>3, <1>4, <1>5, <1>6, <1>8, <1>9, <2>1, Triangle DEF A
  <2>3. (A + B) * (A + B) < C * C
    BY <2>1, SquaresOrder
  <2>4. C * C = (G * G) * (E * E)
    BY <1>1, <2>1 DEF E
  <2>5. (G * G) * f < (G * G) * (E * E)
    <3> DEFINE k == (A + B) * (A + B)
               l == (G * G) * f
               h == (G * G) * (E * E)
    <3>1. k \in Int /\ l \in Int /\ h \in Int
      BY <1>1, <2>1
    <3>2. l =< k /\ k < h
      BY <1>1, <2>2, <2>3, <2>4
    <3> HIDE DEF k, l, h
    <3>3. l < h
      BY <3>1, <3>2
    <3> QED BY <3>3 DEF l, h
  <2>6. f < E * E
    <3> SUFFICES ASSUME E * E =< f PROVE FALSE
      BY <1>1, <2>1
    <3> DEFINE k == G * G
               h == E * E
    <3>1. k \in Nat /\ h \in Nat /\ h =< f /\ k * f < k * h
      BY <1>1, <2>1, <2>5
    <3> HIDE DEF k, h
    <3>2. k * h =< k * f
      BY <1>1, <3>1
    <3> QED BY <1>1, <3>1, <3>2
  <2>7. SignedSquare(E) = E * E
    BY <2>1, SignedSquareIs
  <2> QED BY <2>6, <2>7 DEF E
<1>10. ASSUME Normsq(e) >= Scaled(r), D =< r PROVE f > SignedSquare(r - D)
  <2> DEFINE E == r - D
             A == G * E
  <2>1. E \in Nat /\ A \in Nat /\ A + B \in Nat /\ A + B < G * r
    <3>1. E \in Nat
      BY <1>1, <1>10
    <3>2. A \in Nat
      BY <1>1, <3>1
    <3>3. G * D \in Int /\ G * r \in Int /\ B = G * D - D /\ A = G * r - G * D
      BY <1>1 DEF B
    <3> QED BY <1>1, <1>3, <3>1, <3>2, <3>3
  <2> SUFFICES ASSUME ~(f > SignedSquare(E)) PROVE FALSE
    OBVIOUS
  <2> HIDE DEF E
  <2>2. SignedSquare(E) = E * E /\ E * E \in Nat /\ f =< E * E
    <3>1. SignedSquare(E) = E * E /\ E * E \in Nat
      BY <2>1, SignedSquareIs
    <3> QED BY <1>1, <3>1
  <2>3. Normsq(P) =< A * A
    <3>1. A * A = (G * G) * (E * E)
      BY <1>1, <2>1
    <3> DEFINE k == G * G
               h == E * E
    <3>2. k \in Nat /\ h \in Nat /\ f =< h
      BY <1>1, <2>1, <2>2
    <3> HIDE DEF k, h
    <3>3. k * f =< k * h
      BY <1>1, <3>2
    <3> QED BY <1>1, <3>1, <3>3 DEF k, h
  <2> HIDE DEF A
  <2>4. Normsq(e) =< (A + B) * (A + B)
    BY <1>1, <1>3, <1>4, <1>5, <1>6, <2>1, <2>3, Triangle
  <2>5. (A + B) * (A + B) < (G * r) * (G * r)
    BY <1>8, <2>1, SquaresOrder
  <2>6. (A + B) * (A + B) \in Int /\ (G * r) * (G * r) \in Int
    BY <1>8, <2>1
  <2> QED BY <1>7, <1>8, <1>10, <2>4, <2>5, <2>6
<1> QED BY <1>7, <1>9, <1>10 DEF e, cx, cy, P, f, D

(***************************************************************************)
(* An index is a product with a reciprocal vector, and bounded as that is. *)
(***************************************************************************)
LEMMA DualBound ==
  ASSUME NEW P \in Vectors, NEW v \in Vectors, NEW k \in Nat \ {0}, NEW E \in Nat, NEW M \in Nat,
         NEW i \in Int, Inner(P, v) = i * k, Normsq(P) < E * E,
         (E * E) * Normsq(v) =< ((M + 1) * k) * ((M + 1) * k)
  PROVE  i \in -M..M
<1> DEFINE p == Normsq(P)
           q == Normsq(v)
           w == (M + 1) * k
           s == IF i < 0 THEN -i ELSE i
           u == s * k
           e == E * E
<1>1. p \in Nat /\ q \in Nat /\ (i * k) * (i * k) =< p * q
  BY Cauchy
<1>2. s \in Nat /\ u \in Nat /\ w \in Nat \ {0} /\ e \in Nat
  OBVIOUS
<1>3. u * u = (i * k) * (i * k)
  <2>1. CASE i < 0
    <3>1. u = -(i * k) /\ i * k \in Int
      BY <2>1
    <3> DEFINE j == i * k
    <3>2. u = -j /\ j \in Int
      BY <3>1
    <3> HIDE DEF u, j
    <3>3. u * u = j * j
      BY <3>2
    <3> QED BY <3>3 DEF j
  <2>2. CASE ~(i < 0)
    BY <2>2
  <2> QED BY <2>1, <2>2
<1>4. p < e /\ e * q =< w * w
  OBVIOUS
<1>5. u * u =< p * q
  BY <1>1, <1>3
<1> HIDE DEF p, q, w, u, e
<1>6. u * u < w * w
  <2>0. p * q \in Int /\ e * q \in Int /\ u * u \in Int /\ w * w \in Int
    BY <1>1, <1>2
  <2>1. CASE q = 0
    <3>1. p * q = 0
      BY <1>1, <2>1
    <3>2. w * w > 0
      BY <1>2
    <3> QED BY <1>5, <2>0, <3>1, <3>2
  <2>2. CASE q # 0
    <3>1. p * q < e * q
      BY <1>1, <1>2, <1>4, <2>2
    <3> QED BY <1>4, <1>5, <2>0, <3>1
  <2> QED BY <2>1, <2>2
<1>7. u < w
  BY <1>2, <1>6, SquaresOrder
<1>8. s < M + 1
  <2> HIDE DEF s
  <2> SUFFICES ASSUME M + 1 =< s PROVE FALSE
    BY <1>2
  <2>1. (M + 1) * k =< s * k
    BY <1>2
  <2> QED BY <1>2, <1>7, <2>1 DEF u, w
<1> QED BY <1>8

(* No point of a sphere lies beyond the indices that are looked at. *)
LEMMA IndicesAre ==
  ASSUME NEW p, IsSphere(p), p.L = L, NEW r \in Radii, p.Rmax = r[2] + MaxDiagonal,
         NEW m \in Int, NEW n \in Int, NEW o \in Int, Far(p, m, n, o) < SignedSquare(p.Rmax)
  PROVE  m \in Reach /\ n \in Reach /\ o \in Reach
<1> DEFINE E == r[2] + MaxDiagonal
           M == MaxIndex
           a == L[1][1]
           b == L[1][2]
           c == L[2][2]
           e == L[1][3]
           f == L[2][3]
           g == L[3][3]
           i == m * a
           j == n * c + m * b
           k == o * g + (m * e + n * f)
           P == <<i, j, k>>
<1>1. E \in Nat /\ M \in Nat /\ \A d \in Duals : (E * E) * Normsq(d[1]) =< ((M + 1) * d[2]) * ((M + 1) * d[2])
  <2>1. r[2] \in Nat /\ MaxDiagonal \in Nat
    BY BoundsAssumption, LatticeAssumption
  <2> QED BY <2>1, BoundsAssumption DEF Square
<1>2. /\ a \in Nat \ {0} /\ b \in Int /\ c \in Nat \ {0} /\ e \in Int /\ f \in Int /\ g \in Nat \ {0}
  BY LatticeIs
<1>3. Far(p, m, n, o) = i * i + j * j + k * k
  BY DEF Far, Plane, Line, Spot
<1>4. Far(p, m, n, o) < E * E
  BY <1>1, SignedSquareIs
<1>5. Duals = {<<<<1, 0, 0>>, a>>, <<<<-b, a, 0>>, a * c>>, <<<<b * f - e * c, -(a * f), a * c>>, (a * c) * g>>}
  BY DEF Duals
<1> HIDE DEF E, M, a, b, c, e, f, g
<1>6. i \in Int /\ j \in Int /\ k \in Int /\ P \in Vectors
  <2>1. m * a \in Int /\ n * c \in Int /\ m * b \in Int /\ o * g \in Int /\ m * e \in Int /\ n * f \in Int
    BY <1>2
  <2>2. i \in Int /\ j \in Int /\ k \in Int
    BY <2>1
  <2> HIDE DEF i, j, k
  <2> QED BY <2>2 DEF Vectors
<1>7. Normsq(P) < E * E
  <2>1. Normsq(P) = i * i + j * j + k * k
    <3> HIDE DEF i, j, k
    <3> QED BY DEF Normsq, Inner
  <2> QED BY <1>3, <1>4, <2>1
<1>8. m \in -M..M
  <2> DEFINE v == <<1, 0, 0>>
  <2>1. v \in Vectors
    BY DEF Vectors
  <2>2. Inner(P, v) = m * a
    <3>1. P[1] = i /\ P[2] = j /\ P[3] = k
      OBVIOUS
    <3> HIDE DEF i, j, k, P
    <3>2. Inner(P, v) = i * 1 + j * 0 + k * 0
      BY <3>1 DEF Inner
    <3>3. i * 1 + j * 0 + k * 0 = i
      BY <1>6
    <3> QED BY <3>2, <3>3 DEF i
  <2>3. (E * E) * Normsq(v) =< ((M + 1) * a) * ((M + 1) * a)
    BY <1>1, <1>5
  <2> HIDE DEF v, P
  <2> QED BY <1>1, <1>2, <1>6, <1>7, <2>1, <2>2, <2>3, DualBound
<1>9. n \in -M..M
  <2> DEFINE v == <<-b, a, 0>>
             w == a * c
  <2>1. v \in Vectors /\ w \in Nat \ {0}
    <3>1. v \in Vectors
      BY <1>2 DEF Vectors
    <3> QED BY <1>2, <3>1
  <2>2. Inner(P, v) = n * w
    <3>1. P[1] = i /\ P[2] = j /\ P[3] = k
      OBVIOUS
    <3> HIDE DEF i, j, k, P
    <3>2. Inner(P, v) = i * (-b) + j * a + k * 0
      BY <3>1 DEF Inner
    <3>3. i * (-b) + j * a + k * 0 = i * (-b) + j * a
      BY <1>2, <1>6
    <3>4. i * (-b) + j * a = n * w
      BY <1>2 DEF i, j
    <3> QED BY <3>2, <3>3, <3>4
  <2>3. (E * E) * Normsq(v) =< ((M + 1) * w) * ((M + 1) * w)
    BY <1>1, <1>5
  <2> HIDE DEF v, P, w
  <2> QED BY <1>1, <1>6, <1>7, <2>1, <2>2, <2>3, DualBound
<1>10. o \in -M..M
  <2> DEFINE v == <<b * f - e * c, -(a * f), a * c>>
             w == (a * c) * g
  <2>1. v \in Vectors /\ w \in Nat \ {0}
    <3>1. b * f - e * c \in Int /\ -(a * f) \in Int /\ a * c \in Nat \ {0}
      BY <1>2
    <3>2. w \in Nat \ {0}
      <4> DEFINE h == a * c
      <4> HIDE DEF h
      <4>1. h \in Nat \ {0}
        BY <3>1 DEF h
      <4>2. h * g \in Nat \ {0}
        BY <1>2, <4>1
      <4> QED BY <4>2 DEF h
    <3> QED BY <3>1, <3>2 DEF Vectors
  <2>2. Inner(P, v) = o * w
    <3>1. P[1] = i /\ P[2] = j /\ P[3] = k
      OBVIOUS
    <3> HIDE DEF i, j, k, P
    <3>2. Inner(P, v) = i * (b * f - e * c) + j * (-(a * f)) + k * (a * c)
      BY <3>1 DEF Inner
    <3>3. i * (b * f - e * c) + j * (-(a * f)) + k * (a * c) = o * w
      BY <1>2 DEF i, j, k
    <3> QED BY <3>2, <3>3
  <2>3. (E * E) * Normsq(v) =< ((M + 1) * w) * ((M + 1) * w)
    BY <1>1, <1>5
  <2> HIDE DEF v, P, w
  <2> QED BY <1>1, <1>6, <1>7, <2>1, <2>2, <2>3, DualBound
<1> QED BY <1>8, <1>9, <1>10 DEF Reach, M

-----------------------------------------------------------------------------
(* A sphere as users of PointsInSphere go through it; one without points   *)
(* stands at its end.                                                      *)

(* The spheres that an iteration stands at, from its start; just its end if there is no point. *)
Walk(p) == IF SphereAll(p) = {} THEN {At(p, HiM(p), 0, 0)} ELSE SphereAll(p)

(* Steps of a walk go from one to the next of its points. *)
LEMMA WalkIs ==
  ASSUME NEW p, IsSphere(p)
  PROVE  /\ Walk(p) \subseteq Turns(p)
         /\ \A q \in Turns(p) :
              /\ Walk(q) = Walk(p) /\ Rewound(q) = Rewound(p) /\ IsSphere(q)
              /\ NextO(q) \in Turns(p) /\ Rewound(q) \in Turns(p)
         /\ Rewound(p) \in Walk(p)
         /\ \A q \in Walk(p) : q = Rewound(p) \/ Precedes(Rewound(p), q)
         /\ \A q \in Walk(p) :
              \/ /\ Finished(NextO(q)) /\ \A r \in Walk(p) : ~Precedes(q, r)
              \/ /\ ~Finished(NextO(q)) /\ NextO(q) \in Walk(p) /\ Precedes(q, NextO(q))
                 /\ \A r \in Walk(p) : Precedes(q, r) => r = NextO(q) \/ Precedes(NextO(q), r)
<1> DEFINE e == At(p, HiM(p), 0, 0)
<1>0. MaxRadius \in Nat
  BY LatticeIs
<1>1. HiM(p) \in Int
  <2>1. p.m \in Int
    BY DEF IsSphere
  <2> QED BY <1>0, <2>1, HiMIs
<1>2. e \in Turns(p) /\ e.m = HiM(p)
  BY <1>1, AtIs
<1>3. IsSphere(e) /\ Finished(e) /\ SphereLater(e) = {} /\ SphereAll(e) = SphereAll(p)
  <2>1. IsSphere(e) /\ HiM(e) = HiM(p) /\ SphereAll(e) = SphereAll(p)
    BY <1>2, TurnsAre
  <2>2. Finished(e)
    BY <1>1, <1>2, <2>1 DEF Finished
  <2> QED BY <1>0, <2>1, <2>2, FinishedIsLast
<1> HIDE DEF e
<1>4. Walk(p) = IF SphereAll(p) = {} THEN {e} ELSE SphereAll(p)
  BY DEF Walk, e
<1>5. Walk(p) \subseteq Turns(p)
  BY <1>2, <1>4 DEF SphereAll
<1>6. ASSUME NEW q \in Turns(p)
      PROVE  /\ Walk(q) = Walk(p) /\ Rewound(q) = Rewound(p) /\ IsSphere(q)
             /\ NextO(q) \in Turns(p) /\ Rewound(q) \in Turns(p)
  <2>1. /\ IsSphere(q) /\ HiM(q) = HiM(p) /\ SphereAll(q) = SphereAll(p) /\ Turns(q) = Turns(p)
    BY TurnsAre
  <2>2. \A m, n, o : At(q, m, n, o) = At(p, m, n, o)
    BY DEF Turns, At, IsSphere
  <2> QED BY <1>0, <2>1, <2>2, SphereStep, SphereRewound DEF Walk, Rewound
<1>7. p \in Turns(p)
  BY DEF IsSphere, Turns
<1>8. CASE SphereAll(p) = {}
  <2>1. Rewound(p) = e
    <3>1. IsFirst(At(p, -HiM(p), 0, 0), Rewound(p), SphereLater(At(p, -HiM(p), 0, 0)))
      <4>1. -HiM(p) \in Int
        BY <1>1
      <4>2. IsSphere(At(p, -HiM(p), 0, 0))
        BY <4>1, AtIs, TurnsAre
      <4> QED BY <1>0, <4>2, NextOIs DEF Rewound
    <3>2. At(p, -HiM(p), 0, 0) \in Turns(p)
      <4>1. -HiM(p) \in Int
        BY <1>1
      <4> QED BY <4>1, AtIs
    <3> DEFINE a == At(p, -HiM(p), 0, 0)
    <3>3. SphereLater(a) = {} /\ HiM(a) = HiM(p)
      BY <1>8, <3>2, TurnsAre DEF SphereLater
    <3>4. \A m, n, o : At(a, m, n, o) = At(p, m, n, o)
      BY <3>2 DEF Turns, At, IsSphere
    <3> QED BY <3>1, <3>3, <3>4 DEF IsFirst, e
  <2>2. Finished(NextO(e))
    BY <1>0, <1>3, SphereStep
  <2>3. ~Precedes(e, e)
    <3>1. e.m \in Int /\ e.n \in Int /\ e.o \in Int
      BY <1>2, TurnsAre
    <3> QED BY <3>1 DEF Precedes
  <2>4. Walk(p) = {e}
    BY <1>4, <1>8
  <2> QED BY <1>5, <1>6, <2>1, <2>2, <2>3, <2>4
<1>9. CASE SphereAll(p) # {}
  <2>1. Walk(p) = SphereAll(p)
    BY <1>4, <1>9
  <2>2. /\ SphereAll(p) = {Rewound(p)} \cup SphereLater(Rewound(p)) /\ Rewound(p) \in SphereAll(p)
        /\ SphereAll(Rewound(p)) = SphereAll(p)
    BY <1>0, <1>9, SphereRewound, TurnsAre
  <2>3. ASSUME NEW q \in Walk(p)
        PROVE  \/ /\ Finished(NextO(q)) /\ \A r \in Walk(p) : ~Precedes(q, r)
               \/ /\ ~Finished(NextO(q)) /\ NextO(q) \in Walk(p) /\ Precedes(q, NextO(q))
                  /\ \A r \in Walk(p) : Precedes(q, r) => r = NextO(q) \/ Precedes(NextO(q), r)
    <3>1. IsSphere(q) /\ SphereAll(q) = SphereAll(p)
      BY <1>5, TurnsAre
    <3>2. SphereLater(q) = {r \in Walk(p) : Precedes(q, r)}
      BY <2>1, <3>1 DEF SphereLater
    <3>3. NextO(q) \in Turns(p)
      BY <1>5, <1>6
    <3>4. SphereLater(NextO(q)) = {r \in Walk(p) : Precedes(NextO(q), r)}
      BY <2>1, <3>3, TurnsAre DEF SphereLater
    <3>5. CASE SphereLater(q) = {}
      BY <1>0, <3>1, <3>2, <3>5, SphereStep
    <3>6. CASE SphereLater(q) # {}
      <4>1. /\ SphereLater(q) = {NextO(q)} \cup SphereLater(NextO(q)) /\ ~Finished(NextO(q))
        BY <1>0, <3>1, <3>6, SphereStep
      <4> QED BY <3>2, <3>4, <4>1
    <3> QED BY <3>5, <3>6
  <2>4. \A q \in Walk(p) : q = Rewound(p) \/ Precedes(Rewound(p), q)
    BY <2>1, <2>2 DEF SphereLater
  <2> QED BY <1>5, <1>6, <2>1, <2>2, <2>3, <2>4
<1> QED BY <1>8, <1>9

-----------------------------------------------------------------------------
(* The positions a loop of a generator can stand at, and their order.      *)

(* The sphere that a generator has while it is in a loop. *)
Ball(g) == [L |-> L, Rmin |-> g.rmin - MaxDiagonal, Rmax |-> g.rmax + MaxDiagonal,
            m |-> 0, n |-> 0, o |-> 0]

(* Generators with the limits and selections of g. *)
Configured(g) ==
  {h \in Generators : /\ h.anchor = g.anchor /\ h.r0 = g.r0 /\ h.sites = g.sites
                      /\ h.rmin = g.rmin /\ h.rmax = g.rmax}

(* Those of them in the loop of g, *)
Looping(g) ==
  {h \in Configured(g) : h.msphere \in IF kind = "atomic" THEN {NoSphere} ELSE Turns(Ball(g))}

(* those that stand at a position of a site, *)
AllOf(g) ==
  {h \in Looping(g) : /\ h.current \in DOMAIN g.sites
                      /\ h.symidx \in DOMAIN Places(g.sites[h.current])
                      /\ kind # "atomic" => h.msphere \in Walk(Ball(g))}

(* and the order in which they come. *)
Before(g, h) ==
  IF kind = "periodic"
    THEN \/ Precedes(g.msphere, h.msphere)
         \/ g.msphere = h.msphere /\ g.current < h.current
    ELSE \/ g.current < h.current
         \/ /\ g.current = h.current
            /\ \/ g.symidx < h.symidx
               \/ g.symidx = h.symidx /\ kind = "crystal" /\ Precedes(g.msphere, h.msphere)

Later(g) == {h \in AllOf(g) : Before(g, h)}

(* What holds throughout a loop. *)
Ready(g) ==
  /\ kind \in {"atomic", "periodic", "crystal"}
  /\ g \in Generators /\ <<g.rmin, g.rmax>> \in Radii
  /\ \A k \in DOMAIN g.sites : g.sites[k] \in Sites
  /\ \A j, k \in DOMAIN g.sites : g.sites[j] = g.sites[k] => j = k
  /\ Len(g.sites) =< MaxAtoms
  /\ \A i \in Sites :
       /\ Places(i) \in Seq(Vectors) /\ Places(i) # <<>>
       /\ kind # "crystal" => Len(Places(i)) = 1
       /\ Len(Places(i)) =< Cardinality(SymOps) + 1

(* The members of a generator. *)
LEMMA GeneratorIs ==
  ASSUME NEW g \in Generators
  PROVE  /\ g.anchor \in Nat /\ g.r0 \in Vectors /\ g.sites \in Seq(Nat) /\ g.current \in Nat
         /\ g.rmin \in Nat /\ g.rmax \in Nat /\ g.symidx \in Nat
         /\ g.msphere \in Spheres \cup {NoSphere}
         /\ Len(g.sites) \in Nat /\ DOMAIN g.sites = 1..Len(g.sites)
  BY DEF Generators

(* The sphere of a generator is one that the lemmas are about. *)
LEMMA BallIs ==
  ASSUME NEW g, Ready(g)
  PROVE  /\ IsSphere(Ball(g)) /\ Turns(Ball(g)) \subseteq Spheres
         /\ Ball(g).L = L /\ Ball(g).Rmax = g.rmax + MaxDiagonal /\ Ball(g).Rmin = g.rmin - MaxDiagonal
<1> DEFINE p == Ball(g)
           r == <<g.rmin, g.rmax>>
<1>1. /\ p.L = L /\ p.Rmax = g.rmax + MaxDiagonal /\ p.Rmin = g.rmin - MaxDiagonal
  BY DEF Ball
<1>2. MaxDiagonal \in Nat /\ MaxRadius \in Nat /\ Triangular(L) /\ L \in Matrices
  BY LatticeIs DEF Triangular
<1>3. g.rmin \in Nat /\ g.rmax \in Nat
  BY GeneratorIs DEF Ready
<1>4. p \in [L : Matrices, Rmin : Int, Rmax : Int, m : Int, n : Int, o : Int]
  BY <1>2, <1>3 DEF Ball
<1>5. g.rmin =< MaxRadius /\ g.rmax + MaxDiagonal =< MaxRadius
  <2>1. r \in Radii /\ r[1] = g.rmin /\ r[2] = g.rmax
    BY DEF Ready
  <2> HIDE DEF r
  <2> QED BY <2>1, BoundsAssumption
<1>6. ASSUME NEW x \in Int, x =< MaxRadius PROVE Bounded(SignedSquare(x))
  <2>1. CASE x < 0
    <3>1. SignedSquare(x) \in Int /\ SignedSquare(x) < 0
      BY <2>1, SignedSquareIs
    <3>2. MaxRadius * MaxRadius >= 0 /\ MaxRadius * MaxRadius \in Int
      BY <1>2
    <3> QED BY <3>1, <3>2 DEF Bounded
  <2>2. CASE x >= 0
    <3>1. SignedSquare(x) = x * x /\ x * x \in Int
      BY <2>2, SignedSquareIs
    <3>2. x * x =< MaxRadius * MaxRadius
      <4>1. x * x =< x * MaxRadius
        BY <1>2, <1>6, <2>2
      <4>2. x * MaxRadius =< MaxRadius * MaxRadius
        BY <1>2, <1>6, <2>2
      <4> QED BY <1>2, <4>1, <4>2
    <3> QED BY <3>1, <3>2 DEF Bounded
  <2> QED BY <1>6, <2>1, <2>2
<1>7. Bounded(SignedSquare(p.Rmin)) /\ Bounded(SignedSquare(p.Rmax))
  <2>1. /\ g.rmin - MaxDiagonal \in Int /\ g.rmin - MaxDiagonal =< MaxRadius
        /\ g.rmax + MaxDiagonal \in Int /\ g.rmax + MaxDiagonal =< MaxRadius
    BY <1>2, <1>3, <1>5
  <2> QED BY <1>1, <1>6, <2>1
<1>8. Turns(p) \subseteq Spheres
  <2> HIDE DEF p
  <2>1. p.Rmin \in Int /\ p.Rmax \in Int
    BY <1>4
  <2> QED BY <1>1, <2>1 DEF Turns, Spheres
<1> QED BY <1>1, <1>2, <1>4, <1>7, <1>8 DEF IsSphere

(* What a loop turns a generator into has the same loop. *)
LEMMA LoopingIs ==
  ASSUME NEW g, Ready(g), NEW h \in Looping(g)
  PROVE  /\ Ready(h) /\ Ball(h) = Ball(g) /\ Configured(h) = Configured(g) /\ Looping(h) = Looping(g)
         /\ AllOf(h) = AllOf(g)
<1>1. h \in Generators /\ h.sites = g.sites /\ h.rmin = g.rmin /\ h.rmax = g.rmax
      /\ h.anchor = g.anchor /\ h.r0 = g.r0
  BY DEF Looping, Configured
<1>2. Ready(h)
  BY <1>1 DEF Ready
<1>3. Ball(h) = Ball(g)
  BY <1>1 DEF Ball
<1>4. Configured(h) = Configured(g)
  BY <1>1 DEF Configured
<1> QED BY <1>1, <1>2, <1>3, <1>4 DEF Looping, AllOf

(* The order of positions is strict, *)
LEMMA BeforeIsOrder ==
  ASSUME NEW g, Ready(g), NEW h \in Looping(g)
  PROVE  ~Before(h, h)
<1>1. /\ h.current \in Nat /\ h.symidx \in Nat
      /\ kind # "atomic" => h.msphere.m \in Int /\ h.msphere.n \in Int /\ h.msphere.o \in Int
  BY BallIs, TurnsAre DEF Looping, Configured, Generators
<1> QED BY <1>1 DEF Before, Precedes, Ready

(* The generator at some position. *)
Moved(g, c, k, p) == [g EXCEPT !.current = c, !.symidx = k, !.msphere = p]

(* A position is told by its site, its image and its point. *)
LEMMA MovedIs ==
  ASSUME NEW g, Ready(g), NEW h \in Looping(g), NEW c \in Nat, NEW k \in Nat,
         NEW p, p \in IF kind = "atomic" THEN {NoSphere} ELSE Turns(Ball(g))
  PROVE  /\ Moved(h, c, k, p) \in Looping(g) /\ Moved(h, c, k, p).current = c
         /\ Moved(h, c, k, p).symidx = k /\ Moved(h, c, k, p).msphere = p
         /\ c \in DOMAIN g.sites /\ k \in DOMAIN Places(g.sites[c])
              /\ (kind # "atomic" => p \in Walk(Ball(g))) => Moved(h, c, k, p) \in AllOf(g)
         /\ \A q \in Looping(g) :
              q.current = c /\ q.symidx = k /\ q.msphere = p => q = Moved(h, c, k, p)
<1> DEFINE q == Moved(h, c, k, p)
<1>1. h \in Generators /\ h \in Configured(g)
  BY DEF Looping, Configured
<1>2. p \in Spheres \cup {NoSphere}
  BY BallIs
<1>3. /\ q \in Generators /\ q.current = c /\ q.symidx = k /\ q.msphere = p
      /\ q.anchor = h.anchor /\ q.r0 = h.r0 /\ q.sites = h.sites /\ q.rmin = h.rmin /\ q.rmax = h.rmax
  BY <1>1, <1>2 DEF Moved, Generators
<1>4. q \in Looping(g)
  BY <1>1, <1>3 DEF Looping, Configured
<1>5. ASSUME NEW r \in Looping(g), r.current = c, r.symidx = k, r.msphere = p PROVE r = q
  <2>1. r \in Generators /\ r \in Configured(g)
    BY DEF Looping, Configured
  <2>2. r.anchor = q.anchor /\ r.r0 = q.r0 /\ r.sites = q.sites /\ r.rmin = q.rmin /\ r.rmax = q.rmax
    BY <1>1, <1>3, <2>1 DEF Configured
  <2> HIDE DEF q
  <2>3. \A x \in Generators :
          x = [anchor |-> x.anchor, r0 |-> x.r0, sites |-> x.sites, current |-> x.current, rmin |-> x.rmin,
               rmax |-> x.rmax, msphere |-> x.msphere, symidx |-> x.symidx]
    BY DEF Generators
  <2>4. r.current = q.current /\ r.symidx = q.symidx /\ r.msphere = q.msphere
    BY <1>3, <1>5
  <2> QED BY <1>3, <2>1, <2>2, <2>3, <2>4
<1> HIDE DEF q
<1> QED BY <1>3, <1>4, <1>5 DEF AllOf, q

(* What holds at all positions. *)
LEMMA AllOfIs ==
  ASSUME NEW g, Ready(g), NEW h \in AllOf(g)
  PROVE  /\ h \in Looping(g) /\ h \in Generators /\ h.current \in 1..Len(g.sites) /\ h.sites = g.sites
         /\ ~GeneratorFinished(h) /\ Site1(h) = g.sites[h.current] /\ Site1(h) \in Sites
         /\ h.symidx \in 1..Len(Places(Site1(h))) /\ Len(Places(Site1(h))) \in Nat \ {0}
         /\ kind # "crystal" => h.symidx = 1
         /\ kind = "atomic" => h.msphere = NoSphere
         /\ kind # "atomic" => h.msphere \in Turns(Ball(g)) /\ h.msphere \in Walk(Ball(g))
<1>1. /\ h \in Looping(g) /\ h \in Generators /\ h.sites = g.sites /\ h.current \in DOMAIN g.sites
      /\ h.symidx \in DOMAIN Places(g.sites[h.current])
      /\ kind # "atomic" => h.msphere \in Walk(Ball(g))
  BY DEF AllOf, Looping, Configured
<1>2. Len(g.sites) \in Nat /\ DOMAIN g.sites = 1..Len(g.sites)
  BY GeneratorIs DEF Ready
<1>3. ~GeneratorFinished(h)
  BY <1>1, <1>2 DEF GeneratorFinished
<1>4. Site1(h) = g.sites[h.current] /\ Site1(h) \in Sites
  BY <1>1 DEF Site1, Ready
<1>5. Places(Site1(h)) \in Seq(Vectors) /\ Places(Site1(h)) # <<>>
      /\ (kind # "crystal" => Len(Places(Site1(h))) = 1)
  BY <1>4 DEF Ready
<1>6. /\ DOMAIN Places(Site1(h)) = 1..Len(Places(Site1(h))) /\ Len(Places(Site1(h))) \in Nat \ {0}
  BY <1>5
<1>7. ASSUME kind # "crystal" PROVE h.symidx = 1
  <2>1. Len(Places(Site1(h))) = 1
    BY <1>5, <1>7
  <2>2. h.symidx \in 1..Len(Places(Site1(h)))
    BY <1>1, <1>4, <1>6
  <2>3. h.symidx \in 1..1
    BY <2>1, <2>2
  <2> QED BY <2>3
<1>8. h.msphere \in IF kind = "atomic" THEN {NoSphere} ELSE Turns(Ball(g))
  BY <1>1 DEF Looping
<1> QED BY <1>1, <1>2, <1>3, <1>4, <1>6, <1>7, <1>8

(* What GetNextBond is to do from h. *)
IsNext(g, h, i) ==
  /\ i \in Looping(g)
  /\ \/ /\ GeneratorFinished(i)
        /\ \A r \in AllOf(g) : ~Before(h, r)
     \/ /\ i \in AllOf(g) /\ Before(h, i)
        /\ \A r \in AllOf(g) : Before(h, r) => r = i \/ Before(i, r)

(* GetNextBond, told by where it moves. *)
LEMMA MovesAre ==
  ASSUME NEW g, Ready(g), NEW h \in AllOf(g)
  PROVE  LET p == NextO(h.msphere)
             c == h.current + 1
         IN  /\ kind = "atomic" => GetNextBond(h) = Moved(h, c, 1, NoSphere)
             /\ kind = "periodic" =>
                  GetNextBond(h) =
                    IF c =< Len(g.sites) THEN Moved(h, c, 1, h.msphere)
                    ELSE IF ~Finished(p) THEN Moved(h, 1, 1, p)
                    ELSE Moved(h, c, 1, p)
             /\ kind = "crystal" =>
                  GetNextBond(h) =
                    IF ~Finished(p) THEN Moved(h, h.current, h.symidx, p)
                    ELSE IF h.symidx < Len(Places(Site1(h)))
                           THEN Moved(h, h.current, h.symidx + 1, Rewound(p))
                    ELSE IF c > Len(g.sites) THEN Moved(h, c, h.symidx, p)
                    ELSE Moved(h, c, 1, Rewound(p))
<1> DEFINE p == NextO(h.msphere)
           c == h.current + 1
<1>1. /\ h \in Generators /\ h.sites = g.sites /\ h.current \in Nat /\ Len(g.sites) \in Nat /\ c \in Nat
      /\ kind \in {"atomic", "periodic", "crystal"}
  <2>1. h \in Generators /\ h.sites = g.sites
    BY AllOfIs
  <2>2. h.current \in Nat /\ Len(h.sites) \in Nat
    BY <2>1, GeneratorIs
  <2> QED BY <2>1, <2>2 DEF Ready
<1>2. h.symidx = 1 /\ kind = "atomic" => h.msphere = NoSphere
  BY AllOfIs
<1>3. kind # "crystal" => h.symidx = 1
  BY AllOfIs
<1> HIDE DEF p
<1>4. /\ [h EXCEPT !.msphere = NextO(@)] = Moved(h, h.current, h.symidx, p)
      /\ [h EXCEPT !.current = @ + 1] = Moved(h, c, h.symidx, h.msphere)
  BY <1>1 DEF Moved, p, Generators
<1> HIDE DEF c
<1>5. ASSUME NEW a, NEW b, NEW q
      PROVE  /\ Moved(h, a, b, q).current = a /\ Moved(h, a, b, q).symidx = b
             /\ Moved(h, a, b, q).msphere = q /\ Moved(h, a, b, q).sites = g.sites
  BY <1>1 DEF Moved, Generators
<1>10. ASSUME NEW a, NEW b, NEW q, NEW i
       PROVE  [Moved(h, a, b, q) EXCEPT !.current = i] = Moved(h, i, b, q)
  BY <1>1 DEF Moved, Generators
<1>11. ASSUME NEW a, NEW b, NEW q, NEW r
       PROVE  [Moved(h, a, b, q) EXCEPT !.msphere = r] = Moved(h, a, b, r)
  BY <1>1 DEF Moved, Generators
<1>6. ASSUME kind = "atomic" PROVE GetNextBond(h) = Moved(h, c, 1, NoSphere)
  <2>1. IterateSymmetry(h) = [more |-> FALSE, gen |-> h]
    BY <1>6 DEF IterateSymmetry
  <2>2. h.symidx = 1 /\ h.msphere = NoSphere
    BY <1>2, <1>3, <1>6
  <2>3. NextPositionOfSite(h) =
          IF GeneratorFinished(Moved(h, c, 1, NoSphere)) THEN Moved(h, c, 1, NoSphere)
          ELSE RewindSymmetry(Moved(h, c, 1, NoSphere))
    BY <1>4, <2>1, <2>2 DEF NextPositionOfSite, OrNextSite
  <2>4. RewindSymmetry(Moved(h, c, 1, NoSphere)) = Moved(h, c, 1, NoSphere)
    <3>1. [Moved(h, c, 1, NoSphere) EXCEPT !.symidx = 1, !.msphere = NoSphere] = Moved(h, c, 1, NoSphere)
      BY <1>1 DEF Moved, Generators
    <3>2. Moved(h, c, 1, NoSphere).msphere = NoSphere
      BY <1>5
    <3> QED BY <1>6, <3>1, <3>2 DEF RewindSymmetry
  <2> QED BY <1>6, <2>3, <2>4 DEF GetNextBond, c
<1>7. ASSUME kind # "atomic", NEW q \in Generators, NextO(q.msphere) = p
      PROVE  IterateSymmetry(q) =
               IF ~Finished(p) THEN [more |-> TRUE, gen |-> [q EXCEPT !.msphere = p]]
               ELSE IF kind = "crystal" /\ q.symidx < Len(Places(Site1(q)))
                 THEN [more |-> TRUE,
                       gen |-> [q EXCEPT !.msphere = Rewound(p), !.symidx = @ + 1]]
               ELSE [more |-> FALSE, gen |-> [q EXCEPT !.msphere = p]]
  <2> DEFINE r == [q EXCEPT !.msphere = NextO(@)]
             s == [r EXCEPT !.symidx = @ + 1, !.msphere = Rewound(@)]
  <2>1. r = [q EXCEPT !.msphere = p] /\ r.msphere = p
    BY <1>7 DEF Generators
  <2>2. s = [q EXCEPT !.msphere = Rewound(p), !.symidx = @ + 1]
    BY <1>7, <2>1 DEF Generators
  <2>3. IterateSymmetry(q) =
          IF ~Finished(r.msphere) THEN [more |-> TRUE, gen |-> r]
          ELSE IF kind = "crystal" /\ q.symidx < Len(Places(Site1(q))) THEN [more |-> TRUE, gen |-> s]
          ELSE [more |-> FALSE, gen |-> r]
    BY <1>7 DEF IterateSymmetry
  <2> HIDE DEF r, s
  <2> QED BY <2>1, <2>2, <2>3
<1>8. ASSUME kind = "periodic"
      PROVE  GetNextBond(h) =
               IF c =< Len(g.sites) THEN Moved(h, c, 1, h.msphere)
               ELSE IF ~Finished(p) THEN Moved(h, 1, 1, p)
               ELSE Moved(h, c, 1, p)
  <2> DEFINE q == Moved(h, c, 1, h.msphere)
  <2>1. q = [h EXCEPT !.current = @ + 1] /\ q.msphere = h.msphere /\ q.current = c /\ q.sites = g.sites
    BY <1>3, <1>4, <1>5, <1>8
  <2>2. q \in Generators
    BY <1>1, <2>1 DEF Generators
  <2>3. IterateSymmetry(q) = [more |-> ~Finished(p), gen |-> Moved(h, c, 1, p)]
    <3>1. [q EXCEPT !.msphere = p] = Moved(h, c, 1, p)
      BY <1>11
    <3>2. NextO(q.msphere) = p
      BY <2>1 DEF p
    <3> HIDE DEF q
    <3> QED BY <1>7, <1>8, <2>2, <3>1, <3>2
  <2>4. [Moved(h, c, 1, p) EXCEPT !.current = 1] = Moved(h, 1, 1, p)
    BY <1>10
  <2> HIDE DEF q
  <2>5. GetNextBond(h) =
          IF ~GeneratorFinished(q) THEN q
          ELSE IF ~Finished(p) THEN Moved(h, 1, 1, p) ELSE Moved(h, c, 1, p)
    <3> DEFINE it == IterateSymmetry(q)
    <3>1. GetNextBond(h) =
            IF ~GeneratorFinished(q) THEN q
            ELSE IF it.more THEN [it.gen EXCEPT !.current = 1] ELSE it.gen
      BY <1>8, <2>1 DEF GetNextBond, NextSiteAtPoint, AtFirstSite
    <3>2. it.more = ~Finished(p) /\ it.gen = Moved(h, c, 1, p)
      BY <2>3
    <3> HIDE DEF it
    <3>3. [it.gen EXCEPT !.current = 1] = Moved(h, 1, 1, p)
      BY <2>4, <3>2
    <3>4. CASE Finished(p)
      BY <3>1, <3>2, <3>4
    <3>5. CASE ~Finished(p)
      BY <3>1, <3>2, <3>3, <3>5
    <3> QED BY <3>4, <3>5
  <2>6. ~GeneratorFinished(q) <=> c =< Len(g.sites)
    BY <1>1, <2>1 DEF GeneratorFinished
  <2> QED BY <1>8, <2>5, <2>6 DEF p, q
<1>9. ASSUME kind = "crystal"
      PROVE  GetNextBond(h) =
               IF ~Finished(p) THEN Moved(h, h.current, h.symidx, p)
               ELSE IF h.symidx < Len(Places(Site1(h)))
                      THEN Moved(h, h.current, h.symidx + 1, Rewound(p))
               ELSE IF c > Len(g.sites) THEN Moved(h, c, h.symidx, p)
               ELSE Moved(h, c, 1, Rewound(p))
  <2> DEFINE k == h.symidx
             more == k < Len(Places(Site1(h)))
  <2>1. IterateSymmetry(h) =
          IF ~Finished(p) THEN [more |-> TRUE, gen |-> Moved(h, h.current, k, p)]
          ELSE IF more THEN [more |-> TRUE, gen |-> Moved(h, h.current, k + 1, Rewound(p))]
          ELSE [more |-> FALSE, gen |-> Moved(h, h.current, k, p)]
    <3>1. [h EXCEPT !.msphere = p] = Moved(h, h.current, k, p)
      BY <1>1 DEF Moved, Generators
    <3>2. [h EXCEPT !.msphere = Rewound(p), !.symidx = @ + 1] = Moved(h, h.current, k + 1, Rewound(p))
      BY <1>1 DEF Moved, Generators
    <3>3. NextO(h.msphere) = p
      BY DEF p
    <3> QED BY <1>1, <1>7, <1>9, <3>1, <3>2, <3>3
  <2> HIDE DEF k, more
  <2>2. [Moved(h, h.current, k, p) EXCEPT !.current = @ + 1] = Moved(h, c, k, p)
    <3>1. Moved(h, h.current, k, p).current = h.current
      BY <1>5
    <3>2. [Moved(h, h.current, k, p) EXCEPT !.current = c] = Moved(h, c, k, p)
      BY <1>10
    <3> QED BY <3>1, <3>2 DEF c
  <2>3. RewindSymmetry(Moved(h, c, k, p)) = Moved(h, c, 1, Rewound(p))
    <3>1. [Moved(h, c, k, p) EXCEPT !.symidx = 1, !.msphere = Rewound(p)] = Moved(h, c, 1, Rewound(p))
      BY <1>1 DEF Moved, Generators
    <3>2. Moved(h, c, k, p).msphere = p
      BY <1>5
    <3> QED BY <1>9, <3>1, <3>2 DEF RewindSymmetry
  <2>4. GeneratorFinished(Moved(h, c, k, p)) <=> c > Len(g.sites)
    <3>1. Moved(h, c, k, p).sites = g.sites /\ Moved(h, c, k, p).current = c
      BY <1>5
    <3> QED BY <3>1 DEF GeneratorFinished
  <2>5. CASE ~Finished(p)
    BY <1>9, <2>1, <2>5 DEF GetNextBond, NextPositionOfSite, OrNextSite, k, p
  <2>6. CASE Finished(p) /\ more
    BY <1>9, <2>1, <2>6 DEF GetNextBond, NextPositionOfSite, OrNextSite, k, p, more
  <2>7. CASE Finished(p) /\ ~more
    <3>1. GetNextBond(h) = IF c > Len(g.sites) THEN Moved(h, c, k, p) ELSE Moved(h, c, 1, Rewound(p))
      BY <1>9, <2>1, <2>2, <2>3, <2>4, <2>7 DEF GetNextBond, NextPositionOfSite, OrNextSite
    <3> QED BY <1>9, <2>7, <3>1 DEF k, p, more
  <2> QED BY <2>5, <2>6, <2>7
<1> QED BY <1>1, <1>6, <1>8, <1>9 DEF p, c

(* GetNextBond goes to the next position in the order. *)
LEMMA NextIs ==
  ASSUME NEW g, Ready(g), NEW h \in AllOf(g)
  PROVE  IsNext(g, h, GetNextBond(h))
<1> DEFINE i == GetNextBond(h)
           p == NextO(h.msphere)
           c == h.current + 1
           S == IF kind = "atomic" THEN {NoSphere} ELSE Turns(Ball(g))
<1>1. /\ h \in Looping(g) /\ h.current \in 1..Len(g.sites) /\ h.sites = g.sites
      /\ Site1(h) = g.sites[h.current] /\ h.symidx \in Nat
      /\ h.symidx \in 1..Len(Places(Site1(h)))
      /\ Len(Places(Site1(h))) \in Nat \ {0} /\ Len(g.sites) \in Nat /\ DOMAIN g.sites = 1..Len(g.sites)
      /\ c \in Nat /\ kind \in {"atomic", "periodic", "crystal"}
  <2>1. Len(g.sites) \in Nat /\ DOMAIN g.sites = 1..Len(g.sites)
    BY GeneratorIs DEF Ready
  <2>2. /\ h \in Looping(g) /\ h.current \in 1..Len(g.sites) /\ h.sites = g.sites
        /\ Site1(h) = g.sites[h.current]
        /\ h.symidx \in 1..Len(Places(Site1(h))) /\ Len(Places(Site1(h))) \in Nat \ {0}
    BY AllOfIs
  <2> QED BY <2>1, <2>2 DEF Ready
<1>2. ASSUME NEW k \in Nat, NEW l \in Nat, NEW q \in S
      PROVE  /\ Moved(h, k, l, q) \in Looping(g) /\ Moved(h, k, l, q).current = k
             /\ Moved(h, k, l, q).symidx = l /\ Moved(h, k, l, q).msphere = q
             /\ GeneratorFinished(Moved(h, k, l, q)) <=> k > Len(g.sites)
             /\ k \in DOMAIN g.sites /\ l \in DOMAIN Places(g.sites[k])
                  /\ (kind # "atomic" => q \in Walk(Ball(g))) => Moved(h, k, l, q) \in AllOf(g)
             /\ \A r \in Looping(g) :
                  r.current = k /\ r.symidx = l /\ r.msphere = q => r = Moved(h, k, l, q)
  <2>1. /\ Moved(h, k, l, q) \in Looping(g) /\ Moved(h, k, l, q).current = k
        /\ Moved(h, k, l, q).symidx = l /\ Moved(h, k, l, q).msphere = q
        /\ k \in DOMAIN g.sites /\ l \in DOMAIN Places(g.sites[k])
             /\ (kind # "atomic" => q \in Walk(Ball(g))) => Moved(h, k, l, q) \in AllOf(g)
        /\ \A r \in Looping(g) :
             r.current = k /\ r.symidx = l /\ r.msphere = q => r = Moved(h, k, l, q)
    <3>1. q \in IF kind = "atomic" THEN {NoSphere} ELSE Turns(Ball(g))
      OBVIOUS
    <3>2. h \in Looping(g)
      BY <1>1
    <3> HIDE DEF i, p, c, S
    <3> QED BY <3>1, <3>2, MovedIs
  <2>2. Moved(h, k, l, q).sites = g.sites
    BY <2>1 DEF Looping, Configured
  <2> QED BY <2>1, <2>2 DEF GeneratorFinished
<1>3. ASSUME NEW r \in AllOf(g)
      PROVE  /\ r \in Looping(g) /\ r.current \in 1..Len(g.sites) /\ r.symidx \in Nat
             /\ r.symidx \in 1..Len(Places(g.sites[r.current]))
             /\ kind # "crystal" => r.symidx = 1
             /\ kind = "atomic" => r.msphere = NoSphere
             /\ kind # "atomic" => r.msphere \in Turns(Ball(g)) /\ r.msphere \in Walk(Ball(g))
  <2>1. Site1(r) = g.sites[r.current] /\ r.symidx \in 1..Len(Places(Site1(r)))
        /\ Len(Places(Site1(r))) \in Nat
    BY AllOfIs
  <2> QED BY <2>1, AllOfIs
<1>4. /\ IsSphere(Ball(g)) /\ Walk(Ball(g)) \subseteq Turns(Ball(g))
      /\ \A q \in Turns(Ball(g)) : q.m \in Int /\ q.n \in Int /\ q.o \in Int
  <2>1. IsSphere(Ball(g))
    BY BallIs
  <2> QED BY <2>1, WalkIs DEF Turns
<1>5. \A k \in DOMAIN g.sites : DOMAIN Places(g.sites[k]) = 1..Len(Places(g.sites[k]))
                               /\ 1 \in DOMAIN Places(g.sites[k])
  <2>1. \A k \in DOMAIN g.sites : g.sites[k] \in Sites
    BY DEF Ready
  <2>2. \A j \in Sites : Places(j) \in Seq(Vectors) /\ Places(j) # <<>>
    BY DEF Ready
  <2>3. \A j \in Sites : DOMAIN Places(j) = 1..Len(Places(j)) /\ Len(Places(j)) \in Nat \ {0}
    BY <2>2
  <2> QED BY <2>1, <2>3
<1>6. ASSUME kind = "atomic" PROVE IsNext(g, h, i)
  <2>1. i = Moved(h, c, 1, NoSphere)
    BY <1>6, MovesAre
  <2>2. NoSphere \in S /\ 1 \in Nat
    BY <1>6
  <2>3. CASE c > Len(g.sites)
    <3>1. ASSUME NEW r \in AllOf(g) PROVE ~Before(h, r)
      <4>1. r.current \in 1..Len(g.sites) /\ r.symidx = 1 /\ h.symidx = 1
        BY <1>3, <1>6
      <4> QED BY <1>1, <1>6, <2>3, <4>1 DEF Before
    <3> QED BY <1>1, <1>2, <2>1, <2>2, <2>3, <3>1 DEF IsNext
  <2>4. CASE c =< Len(g.sites)
    <3>1. i \in AllOf(g) /\ i.current = c /\ i.symidx = 1 /\ i \in Looping(g)
          /\ i.msphere = NoSphere
      <4>1. c \in DOMAIN g.sites
        BY <1>1, <2>4
      <4>2. 1 \in DOMAIN Places(g.sites[c])
        BY <1>5, <4>1
      <4> HIDE DEF c, i, S
      <4> QED BY <1>1, <1>2, <1>6, <2>1, <2>2, <4>1, <4>2
    <3>2. Before(h, i)
      BY <1>1, <1>6, <3>1 DEF Before
    <3>3. ASSUME NEW r \in AllOf(g), Before(h, r) PROVE r = i \/ Before(i, r)
      <4>1. r.current \in 1..Len(g.sites) /\ r.symidx = 1 /\ h.symidx = 1 /\ r \in Looping(g)
            /\ r.msphere = NoSphere
        BY <1>3, <1>6
      <4>2. h.current < r.current
        BY <1>6, <3>3, <4>1 DEF Before
      <4>3. CASE r.current = c
        <5>1. r = Moved(h, c, 1, NoSphere)
          BY <1>1, <1>2, <2>2, <4>1, <4>3
        <5> QED BY <2>1, <5>1
      <4>4. CASE c < r.current
        BY <1>6, <3>1, <4>4 DEF Before
      <4> QED BY <1>1, <4>1, <4>2, <4>3, <4>4
    <3> HIDE DEF i
    <3> QED BY <3>1, <3>2, <3>3 DEF IsNext
  <2> QED BY <1>1, <2>3, <2>4
<1>7. ASSUME kind # "atomic"
      PROVE  /\ h.msphere \in Walk(Ball(g)) /\ p \in Turns(Ball(g)) /\ Rewound(p) \in Turns(Ball(g))
             /\ Rewound(p) \in Walk(Ball(g)) /\ p \in S /\ Rewound(p) \in S /\ h.msphere \in S
             /\ \A r \in Walk(Ball(g)) : r = Rewound(p) \/ Precedes(Rewound(p), r)
             /\ Finished(p) => \A r \in Walk(Ball(g)) : ~Precedes(h.msphere, r)
             /\ ~Finished(p) =>
                  /\ p \in Walk(Ball(g)) /\ Precedes(h.msphere, p)
                  /\ \A r \in Walk(Ball(g)) : Precedes(h.msphere, r) => r = p \/ Precedes(p, r)
             /\ \A r \in Turns(Ball(g)) : ~Precedes(r, r)
  <2> DEFINE B == Ball(g)
             q == h.msphere
  <2>1. IsSphere(B)
    BY <1>4
  <2>2. q \in Walk(B) /\ q \in Turns(B)
    BY <1>3, <1>7
  <2>3. ASSUME NEW r \in Turns(B) PROVE ~Precedes(r, r)
    <3>1. r.m \in Int /\ r.n \in Int /\ r.o \in Int
      BY <1>4
    <3> QED BY <3>1 DEF Precedes
  <2> HIDE DEF B, q
  <2>4. /\ \A r \in Turns(B) : Rewound(r) = Rewound(B) /\ NextO(r) \in Turns(B) /\ Rewound(r) \in Turns(B)
        /\ Rewound(B) \in Walk(B)
        /\ \A r \in Walk(B) : r = Rewound(B) \/ Precedes(Rewound(B), r)
        /\ \A s \in Walk(B) :
              \/ /\ Finished(NextO(s)) /\ \A r \in Walk(B) : ~Precedes(s, r)
              \/ /\ ~Finished(NextO(s)) /\ NextO(s) \in Walk(B) /\ Precedes(s, NextO(s))
                 /\ \A r \in Walk(B) : Precedes(s, r) => r = NextO(s) \/ Precedes(NextO(s), r)
    BY <2>1, WalkIs
  <2>5. p = NextO(q)
    BY DEF q
  <2> HIDE DEF p
  <2>6. p \in Turns(B) /\ Rewound(p) = Rewound(B) /\ Rewound(p) \in Turns(B)
    BY <2>2, <2>4, <2>5
  <2>7. S = Turns(B)
    BY <1>7 DEF B
  <2> HIDE DEF S
  <2> QED BY <2>2, <2>3, <2>4, <2>5, <2>6, <2>7 DEF B, q
<1>8. 1 \in Nat
  OBVIOUS
<1>9. ASSUME kind = "periodic" PROVE IsNext(g, h, i)
  <2> DEFINE q == h.msphere
  <2>1. i = IF c =< Len(g.sites) THEN Moved(h, c, 1, q)
            ELSE IF ~Finished(p) THEN Moved(h, 1, 1, p) ELSE Moved(h, c, 1, p)
    BY <1>9, MovesAre
  <2>2. /\ q \in Walk(Ball(g)) /\ p \in S /\ q \in S
        /\ Finished(p) => \A r \in Walk(Ball(g)) : ~Precedes(q, r)
        /\ ~Finished(p) =>
             /\ p \in Walk(Ball(g)) /\ Precedes(q, p)
             /\ \A r \in Walk(Ball(g)) : Precedes(q, r) => r = p \/ Precedes(p, r)
    BY <1>7, <1>9
  <2>3. ASSUME NEW r \in AllOf(g)
        PROVE  /\ r \in Looping(g) /\ r.current \in 1..Len(g.sites) /\ r.symidx = 1
               /\ r.msphere \in Walk(Ball(g))
    BY <1>3, <1>9
  <2>4. \A a, b : Before(a, b) <=> Precedes(a.msphere, b.msphere)
                                   \/ (a.msphere = b.msphere /\ a.current < b.current)
    BY <1>9 DEF Before
  <2>5. CASE c =< Len(g.sites)
    <3>0. c \in DOMAIN g.sites /\ 1 \in DOMAIN Places(g.sites[c])
      BY <1>1, <1>5, <2>5
    <3> HIDE DEF S, q, i
    <3>1. i \in AllOf(g) /\ i.current = c /\ i.symidx = 1 /\ i.msphere = q
      BY <1>1, <1>2, <1>8, <2>1, <2>2, <2>5, <3>0
    <3>2. Before(h, i)
      BY <1>1, <2>4, <3>1 DEF q
    <3>3. ASSUME NEW r \in AllOf(g), Before(h, r) PROVE r = i \/ Before(i, r)
      <4>1. Precedes(q, r.msphere) \/ (r.msphere = q /\ h.current < r.current)
        BY <2>4, <3>3 DEF q
      <4>2. CASE Precedes(q, r.msphere)
        BY <2>4, <3>1, <4>2
      <4>3. CASE r.msphere = q /\ r.current = c
        <5>1. r = Moved(h, c, 1, q)
          BY <1>1, <1>2, <1>8, <2>2, <2>3, <4>3
        <5> QED BY <2>1, <2>5, <5>1
      <4>4. CASE r.msphere = q /\ c < r.current
        BY <2>4, <3>1, <4>4
      <4> QED BY <1>1, <2>3, <4>1, <4>2, <4>3, <4>4
    <3>4. i \in Looping(g)
      BY <3>1, AllOfIs
    <3> QED BY <3>1, <3>2, <3>3, <3>4 DEF IsNext
  <2>6. CASE c > Len(g.sites) /\ ~Finished(p)
    <3>0. 1 \in DOMAIN g.sites /\ 1 \in DOMAIN Places(g.sites[1])
      BY <1>1, <1>5
    <3>a. i = Moved(h, 1, 1, p)
      BY <1>1, <2>1, <2>6
    <3> HIDE DEF S, q, i, p
    <3>1. i \in AllOf(g) /\ i.current = 1 /\ i.symidx = 1 /\ i.msphere = p
      BY <1>2, <1>8, <2>2, <2>6, <3>0, <3>a
    <3>2. Before(h, i)
      BY <2>2, <2>4, <2>6, <3>1 DEF q
    <3>3. ASSUME NEW r \in AllOf(g), Before(h, r) PROVE r = i \/ Before(i, r)
      <4>1. Precedes(q, r.msphere)
        <5>1. Precedes(q, r.msphere) \/ h.current < r.current
          BY <2>4, <3>3 DEF q
        <5>2. ~(h.current < r.current)
          BY <1>1, <2>3, <2>6
        <5> QED BY <5>1, <5>2
      <4>2. r.msphere = p \/ Precedes(p, r.msphere)
        BY <2>2, <2>3, <2>6, <4>1
      <4>3. CASE Precedes(p, r.msphere)
        BY <2>4, <3>1, <4>3
      <4>4. CASE r.msphere = p /\ r.current = 1
        <5>1. r = Moved(h, 1, 1, p)
          BY <1>2, <1>8, <2>2, <2>3, <4>4
        <5> QED BY <3>a, <5>1
      <4>5. CASE r.msphere = p /\ 1 < r.current
        BY <2>4, <3>1, <4>5
      <4>6. r.current = 1 \/ 1 < r.current
        BY <1>1, <2>3
      <4> QED BY <4>2, <4>3, <4>4, <4>5, <4>6
    <3>4. i \in Looping(g)
      BY <3>1, AllOfIs
    <3> QED BY <3>1, <3>2, <3>3, <3>4 DEF IsNext
  <2>7. CASE c > Len(g.sites) /\ Finished(p)
    <3>a. i = Moved(h, c, 1, p)
      BY <1>1, <2>1, <2>7
    <3> HIDE DEF S, i, p
    <3>1. i \in Looping(g) /\ GeneratorFinished(i)
      BY <1>1, <1>2, <1>8, <2>2, <2>7, <3>a
    <3>2. ASSUME NEW r \in AllOf(g) PROVE ~Before(h, r)
      <4>1. ~Precedes(q, r.msphere)
        BY <2>2, <2>3, <2>7
      <4>2. ~(h.current < r.current)
        BY <1>1, <2>3, <2>7
      <4> QED BY <2>4, <4>1, <4>2
    <3> QED BY <3>1, <3>2 DEF IsNext
  <2> QED BY <1>1, <2>5, <2>6, <2>7
<1>10. ASSUME kind = "crystal" PROVE IsNext(g, h, i)
  <2> DEFINE q == h.msphere
             k == h.symidx
             n == Len(Places(Site1(h)))
             W == Walk(Ball(g))
             u == Rewound(p)
  <2>1. i = IF ~Finished(p) THEN Moved(h, h.current, k, p)
            ELSE IF k < n THEN Moved(h, h.current, k + 1, u)
            ELSE IF c > Len(g.sites) THEN Moved(h, c, k, p)
            ELSE Moved(h, c, 1, u)
    BY <1>10, MovesAre
  <2>2. /\ q \in W /\ p \in S /\ u \in S /\ u \in W
        /\ \A r \in W : r = u \/ Precedes(u, r)
        /\ Finished(p) => \A r \in W : ~Precedes(q, r)
        /\ ~Finished(p) =>
             /\ p \in W /\ Precedes(q, p)
             /\ \A r \in W : Precedes(q, r) => r = p \/ Precedes(p, r)
    BY <1>7, <1>10
  <2>3. ASSUME NEW r \in AllOf(g)
        PROVE  /\ r \in Looping(g) /\ r.current \in 1..Len(g.sites) /\ r.symidx \in Nat /\ r.msphere \in W
               /\ r.symidx >= 1
               /\ r.current = h.current => r.symidx =< n
    BY <1>1, <1>3, <1>10
  <2>4. \A a, b : Before(a, b) <=>
                    \/ a.current < b.current
                    \/ /\ a.current = b.current
                       /\ \/ a.symidx < b.symidx
                          \/ a.symidx = b.symidx /\ Precedes(a.msphere, b.msphere)
    BY <1>10 DEF Before
  <2>5. n \in Nat /\ k \in 1..n /\ h.current \in 1..Len(g.sites)
    BY <1>1
  <2>6. h.current \in DOMAIN g.sites /\ DOMAIN Places(g.sites[h.current]) = 1..n
    BY <1>1, <1>5
  <2>7. CASE ~Finished(p)
    <3>a. i = Moved(h, h.current, k, p)
      BY <2>1, <2>7
    <3>b. k \in DOMAIN Places(g.sites[h.current]) /\ k \in Nat /\ h.current \in Nat
      BY <2>5, <2>6
    <3>c. h.current \in DOMAIN g.sites
      BY <2>6
    <3> HIDE DEF S, q, i, p, u, W, n, k
    <3>1. i \in AllOf(g) /\ i.current = h.current /\ i.symidx = k /\ i.msphere = p
      BY <1>2, <2>2, <2>7, <3>a, <3>b, <3>c DEF W
    <3>2. Before(h, i)
      BY <2>2, <2>4, <2>7, <3>1 DEF q, k
    <3>3. ASSUME NEW r \in AllOf(g), Before(h, r) PROVE r = i \/ Before(i, r)
      <4>1. CASE h.current < r.current
        BY <2>4, <3>1, <4>1
      <4>2. CASE h.current = r.current /\ k < r.symidx
        BY <2>4, <3>1, <4>2
      <4>3. CASE h.current = r.current /\ k = r.symidx /\ Precedes(q, r.msphere)
        <5>1. r.msphere = p \/ Precedes(p, r.msphere)
          BY <2>2, <2>3, <2>7, <4>3
        <5>2. CASE r.msphere = p
          <6>1. r = Moved(h, h.current, k, p)
            BY <1>2, <2>2, <2>3, <3>b, <4>3, <5>2
          <6> QED BY <3>a, <6>1
        <5>3. CASE Precedes(p, r.msphere)
          BY <2>4, <3>1, <4>3, <5>3
        <5> QED BY <5>1, <5>2, <5>3
      <4> QED BY <2>4, <3>3, <4>1, <4>2, <4>3 DEF q, k
    <3>4. i \in Looping(g)
      BY <3>1, AllOfIs
    <3> QED BY <3>1, <3>2, <3>3, <3>4 DEF IsNext
  <2>8. CASE Finished(p) /\ k < n
    <3> DEFINE l == k + 1
    <3>a. i = Moved(h, h.current, l, u)
      BY <2>1, <2>8
    <3>b. l \in DOMAIN Places(g.sites[h.current]) /\ l \in Nat /\ h.current \in Nat /\ k \in Nat /\ k < l
      BY <2>5, <2>6, <2>8
    <3>c. \A j \in Nat : k < j => j = l \/ l < j
      BY <3>b
    <3>d. h.current \in DOMAIN g.sites
      BY <2>6
    <3> HIDE DEF S, q, i, p, u, W, n, k, l
    <3>1. i \in AllOf(g) /\ i.current = h.current /\ i.symidx = l /\ i.msphere = u
      BY <1>2, <2>2, <2>8, <3>a, <3>b, <3>d DEF W
    <3>2. Before(h, i)
      BY <2>4, <3>1, <3>b DEF k
    <3>3. ASSUME NEW r \in AllOf(g), Before(h, r) PROVE r = i \/ Before(i, r)
      <4>1. CASE h.current < r.current
        BY <2>4, <3>1, <4>1
      <4>2. CASE h.current = r.current /\ k < r.symidx
        <5>1. CASE l < r.symidx
          BY <2>4, <3>1, <4>2, <5>1
        <5>2. CASE r.symidx = l /\ r.msphere = u
          <6>1. r = Moved(h, h.current, l, u)
            BY <1>2, <2>2, <2>3, <3>b, <4>2, <5>2
          <6> QED BY <3>a, <6>1
        <5>3. CASE r.symidx = l /\ Precedes(u, r.msphere)
          BY <2>4, <3>1, <4>2, <5>3
        <5> QED BY <2>2, <2>3, <3>c, <4>2, <5>1, <5>2, <5>3
      <4>3. ~Precedes(q, r.msphere)
        BY <2>2, <2>3, <2>8
      <4> QED BY <2>4, <3>3, <4>1, <4>2, <4>3 DEF q, k
    <3>4. i \in Looping(g)
      BY <3>1, AllOfIs
    <3> QED BY <3>1, <3>2, <3>3, <3>4 DEF IsNext
  <2>9. CASE Finished(p) /\ ~(k < n) /\ c =< Len(g.sites)
    <3>a. i = Moved(h, c, 1, u)
      BY <1>1, <2>1, <2>9
    <3>b. c \in DOMAIN g.sites /\ 1 \in DOMAIN Places(g.sites[c])
      BY <1>1, <1>5, <2>9
    <3>c. \A j \in Nat : h.current < j => j = c \/ c < j
      BY <1>1
    <3>d. h.current < c
      BY <2>5
    <3>e. \A j \in Nat : j >= 1 => j = 1 \/ 1 < j
      OBVIOUS
    <3>f. ASSUME NEW r \in AllOf(g), h.current = r.current PROVE ~(k < r.symidx)
      BY <2>3, <2>5, <2>9, <3>f
    <3> HIDE DEF S, q, i, p, u, W, n, k, c
    <3>1. i \in AllOf(g) /\ i.current = c /\ i.symidx = 1 /\ i.msphere = u
      BY <1>1, <1>2, <1>8, <2>2, <2>9, <3>a, <3>b DEF W
    <3>2. Before(h, i)
      BY <2>4, <3>1, <3>d
    <3>3. ASSUME NEW r \in AllOf(g), Before(h, r) PROVE r = i \/ Before(i, r)
      <4>1. ~Precedes(q, r.msphere)
        BY <2>2, <2>3, <2>9
      <4>2. h.current < r.current
        BY <2>4, <3>3, <3>f, <4>1 DEF q, k
      <4>3. CASE c < r.current
        BY <2>4, <3>1, <4>3
      <4>4. CASE r.current = c /\ 1 < r.symidx
        BY <2>4, <3>1, <4>4
      <4>5. CASE r.current = c /\ r.symidx = 1 /\ r.msphere = u
        <5>1. r = Moved(h, c, 1, u)
          BY <1>1, <1>2, <1>8, <2>2, <2>3, <4>5
        <5> QED BY <3>a, <5>1
      <4>6. CASE r.current = c /\ r.symidx = 1 /\ Precedes(u, r.msphere)
        BY <2>4, <3>1, <4>6
      <4>7. r.current \in Nat
        BY <2>3
      <4> QED BY <2>2, <2>3, <3>c, <3>e, <4>2, <4>3, <4>4, <4>5, <4>6, <4>7
    <3>4. i \in Looping(g)
      BY <3>1, AllOfIs
    <3> QED BY <3>1, <3>2, <3>3, <3>4 DEF IsNext
  <2>10. CASE Finished(p) /\ ~(k < n) /\ c > Len(g.sites)
    <3>a. i = Moved(h, c, k, p)
      BY <2>1, <2>10
    <3>b. k \in Nat
      BY <2>5
    <3>1. ASSUME NEW r \in AllOf(g) PROVE ~Before(h, r)
      <4>1. ~Precedes(q, r.msphere)
        BY <2>2, <2>3, <2>10
      <4>2. ~(h.current < r.current)
        BY <1>1, <2>3, <2>10
      <4>3. h.current = r.current => ~(k < r.symidx)
        BY <2>3, <2>5, <2>10
      <4> QED BY <2>4, <4>1, <4>2, <4>3
    <3> HIDE DEF S, i, p, k, c
    <3>2. i \in Looping(g) /\ GeneratorFinished(i)
      BY <1>1, <1>2, <2>2, <2>10, <3>a, <3>b
    <3> QED BY <3>1, <3>2 DEF IsNext
  <2>11. c > Len(g.sites) \/ c =< Len(g.sites)
    BY <1>1
  <2> HIDE DEF c, k, n, i, p
  <2> QED BY <2>7, <2>8, <2>9, <2>10, <2>11
<1> QED BY <1>1, <1>6, <1>9, <1>10

(* and it is transitive. *)
LEMMA BeforeIsTransitive ==
  ASSUME NEW g, Ready(g), NEW a \in AllOf(g), NEW b \in AllOf(g), NEW c \in AllOf(g),
         Before(a, b), Before(b, c)
  PROVE  Before(a, c)
<1>1. ASSUME NEW h \in AllOf(g)
      PROVE  /\ h.current \in Nat /\ h.symidx \in Nat
             /\ kind # "atomic" => h.msphere.m \in Int /\ h.msphere.n \in Int /\ h.msphere.o \in Int
  <2>1. h \in Generators
    BY AllOfIs
  <2>2. h.current \in Nat /\ h.symidx \in Nat
    BY <2>1, GeneratorIs
  <2>3. ASSUME kind # "atomic"
        PROVE  h.msphere.m \in Int /\ h.msphere.n \in Int /\ h.msphere.o \in Int
    <3>1. h.msphere \in Turns(Ball(g))
      BY <2>3, AllOfIs
    <3> QED BY <3>1 DEF Turns
  <2> QED BY <2>2, <2>3
<1>2. kind \in {"atomic", "periodic", "crystal"}
  BY DEF Ready
<1>3. CASE kind = "atomic"
  BY <1>1, <1>3 DEF Before
<1>4. CASE kind # "atomic"
  <2>1. ASSUME NEW p, NEW q, NEW r, p.m \in Int, p.n \in Int, p.o \in Int,
               q.m \in Int, q.n \in Int, q.o \in Int, r.m \in Int, r.n \in Int, r.o \in Int,
               Precedes(p, q), Precedes(q, r)
        PROVE  Precedes(p, r)
    BY <2>1 DEF Precedes
  <2>2. Precedes(a.msphere, b.msphere) /\ Precedes(b.msphere, c.msphere)
          => Precedes(a.msphere, c.msphere)
    BY <1>1, <1>4, <2>1
  <2>3. CASE kind = "periodic"
    BY <1>1, <2>2, <2>3 DEF Before
  <2>4. CASE kind = "crystal"
    BY <1>1, <2>2, <2>4 DEF Before
  <2> QED BY <1>2, <1>4, <2>3, <2>4
<1> QED BY <1>3, <1>4

(* A step takes the first of the later positions, or comes to the end when there are none. *)
LEMMA StepIs ==
  ASSUME NEW g, Ready(g), NEW h \in AllOf(g)
  PROVE  LET i == GetNextBond(h)
         IN  \/ i \in Looping(g) /\ GeneratorFinished(i) /\ Later(h) = {}
             \/ /\ i \in AllOf(g) /\ ~GeneratorFinished(i)
                /\ Later(h) = {i} \cup Later(i) /\ i \notin Later(i)
<1> DEFINE i == GetNextBond(h)
<1>1. IsNext(g, h, i)
  BY NextIs
<1>2. h \in Looping(g) /\ AllOf(h) = AllOf(g)
  BY AllOfIs, LoopingIs
<1> HIDE DEF i
<1>3. CASE GeneratorFinished(i) /\ \A r \in AllOf(g) : ~Before(h, r)
  BY <1>1, <1>2, <1>3 DEF Later, IsNext, i
<1>4. CASE /\ i \in AllOf(g) /\ Before(h, i)
           /\ \A r \in AllOf(g) : Before(h, r) => r = i \/ Before(i, r)
  <2>1. i \in Looping(g) /\ ~GeneratorFinished(i) /\ AllOf(i) = AllOf(g)
    BY <1>4, AllOfIs, LoopingIs
  <2>2. ~Before(i, i)
    BY <2>1, BeforeIsOrder
  <2>3. \A r \in AllOf(g) : Before(i, r) => Before(h, r)
    BY <1>4, BeforeIsTransitive
  <2> QED BY <1>2, <1>4, <2>1, <2>2, <2>3 DEF Later, i
<1> QED BY <1>1, <1>3, <1>4 DEF IsNext

(* A loop starts at the first of all positions. *)
LEMMA StartIs ==
  ASSUME NEW g, Ready(g), g.msphere \in IF kind = "atomic" THEN {NoSphere} ELSE Turns(Ball(g)) \cup {NoSphere}
  PROVE  LET h == [WithSphere(g) EXCEPT !.current = 1]
             i == RewindSymmetry(h)
         IN  /\ h \in Looping(g)
             /\ GeneratorFinished(h) => AllOf(g) = {}
             /\ ~GeneratorFinished(h) =>
                  i \in AllOf(g) /\ i \notin Later(i) /\ AllOf(g) = {i} \cup Later(i)
<1> DEFINE h == [WithSphere(g) EXCEPT !.current = 1]
           i == RewindSymmetry(h)
           S == IF kind = "atomic" THEN {NoSphere} ELSE Turns(Ball(g))
           u == IF kind = "atomic" THEN NoSphere ELSE Rewound(Ball(g))
<1>0. g \in Generators /\ Len(g.sites) \in Nat /\ DOMAIN g.sites = 1..Len(g.sites) /\ 1 \in Nat /\ g.symidx \in Nat
  BY GeneratorIs DEF Ready
<1>1. IsSphere(Ball(g)) /\ Turns(Ball(g)) \subseteq Spheres
  BY BallIs
<1>2. /\ u \in S /\ \A q \in S : kind # "atomic" => Rewound(q) = u
      /\ kind # "atomic" => u \in Walk(Ball(g)) /\ \A r \in Walk(Ball(g)) : r = u \/ Precedes(u, r)
  <2> HIDE DEF i, h
  <2> QED BY <1>1, WalkIs
<1>3. WithSphere(g) \in Generators /\ WithSphere(g) \in Configured(g) /\ WithSphere(g).msphere \in S
      /\ WithSphere(g).symidx = g.symidx
  <2>1. CASE kind = "atomic" \/ g.msphere # NoSphere
    BY <1>0, <2>1 DEF WithSphere, Configured
  <2>2. CASE kind # "atomic" /\ g.msphere = NoSphere
    <3> DEFINE p == PointsInSphere(L, g.rmin - MaxDiagonal, g.rmax + MaxDiagonal)
    <3>1. p = Rewound(Ball(g))
      BY DEF PointsInSphere, Ball
    <3>2. p \in S /\ p \in Spheres
      BY <1>1, <1>2, <2>2, <3>1
    <3>3. WithSphere(g) = [g EXCEPT !.msphere = p]
      BY <2>2 DEF WithSphere
    <3> HIDE DEF p, S, u
    <3> QED BY <1>0, <3>2, <3>3 DEF Generators, Configured
  <2> QED BY <2>1, <2>2
<1> DEFINE w == WithSphere(g)
<1>4. w \in Looping(g)
  BY <1>3 DEF Looping
<1>5. h = Moved(w, 1, g.symidx, w.msphere)
  BY <1>3 DEF Moved, Generators
<1>6. h \in Looping(g) /\ h.current = 1 /\ h.symidx = g.symidx /\ h.msphere = w.msphere /\ h.sites = g.sites
  <2>1. h \in Looping(g) /\ h.current = 1 /\ h.symidx = g.symidx /\ h.msphere = w.msphere
    <3> HIDE DEF h, w
    <3> QED BY <1>0, <1>3, <1>4, <1>5, MovedIs DEF w
  <2> QED BY <2>1 DEF Looping, Configured
<1>7. GeneratorFinished(h) <=> Len(g.sites) < 1
  BY <1>0, <1>6 DEF GeneratorFinished
<1>8. GeneratorFinished(h) => AllOf(g) = {}
  BY <1>0, <1>7 DEF AllOf
<1>9. ASSUME ~GeneratorFinished(h)
      PROVE  i \in AllOf(g) /\ i \notin Later(i) /\ AllOf(g) = {i} \cup Later(i)
  <2>1. 1 \in DOMAIN g.sites
    BY <1>0, <1>7, <1>9
  <2>2. 1 \in DOMAIN Places(g.sites[1])
    <3>1. g.sites[1] \in Sites
      BY <2>1 DEF Ready
    <3>2. Places(g.sites[1]) \in Seq(Vectors) /\ Places(g.sites[1]) # <<>>
      BY <3>1 DEF Ready
    <3> QED BY <3>2
  <2>3. i = Moved(h, 1, 1, u)
    <3>1. h \in Generators
      BY <1>6 DEF Looping, Configured
    <3>2. i = [h EXCEPT !.symidx = 1, !.msphere = u]
      <4>1. CASE kind = "atomic"
        <5>1. h.msphere = u
          BY <1>3, <1>6, <4>1
        <5> HIDE DEF h, u
        <5> QED BY <3>1, <4>1, <5>1 DEF RewindSymmetry, Generators
      <4>2. CASE kind # "atomic"
        <5>1. Rewound(h.msphere) = u
          BY <1>2, <1>3, <1>6, <4>2
        <5> HIDE DEF h, u
        <5> QED BY <3>1, <4>2, <5>1 DEF RewindSymmetry, Generators
      <4> QED BY <4>1, <4>2
    <3> HIDE DEF h, u, i
    <3> QED BY <1>6, <3>1, <3>2 DEF Moved, Generators
  <2>4. /\ i \in AllOf(g) /\ i.current = 1 /\ i.symidx = 1 /\ i.msphere = u
        /\ \A q \in Looping(g) : q.current = 1 /\ q.symidx = 1 /\ q.msphere = u => q = i
    <3> HIDE DEF i, h, u, w
    <3> QED BY <1>0, <1>2, <1>6, <2>1, <2>2, <2>3, MovedIs
  <2>5. i \in Looping(g) /\ AllOf(i) = AllOf(g)
    BY <2>4, AllOfIs, LoopingIs
  <2>6. ~Before(i, i)
    BY <2>5, BeforeIsOrder
  <2> HIDE DEF i, h, u, w
  <2>7. ASSUME NEW r \in AllOf(g) PROVE r = i \/ Before(i, r)
    <3>1. /\ r \in Looping(g) /\ r.current \in 1..Len(g.sites) /\ r.symidx \in 1..Len(Places(Site1(r)))
          /\ Len(Places(Site1(r))) \in Nat
          /\ kind # "crystal" => r.symidx = 1
          /\ kind = "atomic" => r.msphere = NoSphere
          /\ kind # "atomic" => r.msphere \in Walk(Ball(g))
      BY AllOfIs
    <3>2. /\ r.current = 1 \/ 1 < r.current
          /\ r.symidx = 1 \/ 1 < r.symidx
          /\ kind # "atomic" => r.msphere = u \/ Precedes(u, r.msphere)
          /\ kind = "atomic" => r.msphere = u
      BY <1>0, <1>2, <3>1 DEF u
    <3>3. r.current = 1 /\ r.symidx = 1 /\ r.msphere = u => r = i
      BY <2>4, <3>1
    <3> QED BY <2>4, <3>1, <3>2, <3>3 DEF Before, Ready
  <2> QED BY <2>4, <2>5, <2>6, <2>7 DEF Later
<1> QED BY <1>6, <1>8, <1>9

-----------------------------------------------------------------------------
(* The number of positions.                                                *)

(* There are no more positions than can be skipped. *)
LEMMA PositionsAreFinite ==
  ASSUME NEW g, Ready(g)
  PROVE  IsFiniteSet(AllOf(g)) /\ Cardinality(AllOf(g)) \in Nat /\ Cardinality(AllOf(g)) =< MaxSkips
<1> DEFINE K == Cardinality(SymOps) + 1
           N == Len(g.sites)
           E == Reach \X (Reach \X Reach)
           T == (1..N) \X ((1..K) \X E)
           B == Ball(g)
           At0(x) == IF kind = "atomic" THEN NoSphere
                     ELSE IF SphereAll(B) = {} THEN At(B, HiM(B), 0, 0)
                     ELSE At(B, x[1], x[2][1], x[2][2])
           f == [t \in T |-> Moved(g, t[1], t[2][1], At0(t[2][2]))]
           R == {f[t] : t \in T}
<1>1. K \in Nat /\ N \in Nat /\ MaxIndex \in Nat /\ N =< MaxAtoms /\ MaxAtoms \in Nat /\ MaxSkips \in Nat
  <2>1. Cardinality(SymOps) \in Nat
    BY StructureAssumption, FS_CardinalityType
  <2>2. g \in Generators /\ N =< MaxAtoms
    BY DEF Ready
  <2> QED BY <2>1, <2>2, GeneratorIs, StructureAssumption, BoundsAssumption
<1> DEFINE s == 2 * MaxIndex + 1
<1>2. IsFiniteSet(Reach) /\ Cardinality(Reach) = s
  <2>1. -MaxIndex \in Int /\ MaxIndex \in Int /\ ~(-MaxIndex > MaxIndex)
    BY <1>1
  <2>2. IsFiniteSet(-MaxIndex..MaxIndex) /\ Cardinality(-MaxIndex..MaxIndex) = MaxIndex - (-MaxIndex) + 1
    BY <2>1, FS_Interval
  <2> QED BY <1>1, <2>2 DEF Reach
<1>3. IsFiniteSet(E) /\ Cardinality(E) = s * (s * s)
  <2> DEFINE F == Reach \X Reach
  <2> HIDE DEF s
  <2>1. IsFiniteSet(F) /\ Cardinality(F) = s * s
    BY <1>2, FS_Product
  <2> HIDE DEF F
  <2>2. IsFiniteSet(Reach \X F) /\ Cardinality(Reach \X F) = s * (s * s)
    BY <1>2, <2>1, FS_Product
  <2> QED BY <2>2 DEF F
<1>4. IsFiniteSet(1..N) /\ Cardinality(1..N) = N /\ IsFiniteSet(1..K) /\ Cardinality(1..K) = K
  <2>1. PICK a \in Int : a = 1
    OBVIOUS
  <2>2. ASSUME NEW b \in Nat PROVE IsFiniteSet(1..b) /\ Cardinality(1..b) = b
    <3>1. IsFiniteSet(a..b) /\ Cardinality(a..b) = IF a > b THEN 0 ELSE b - a + 1
      BY <2>1, FS_Interval
    <3> QED BY <2>1, <3>1
  <2> QED BY <1>1, <2>2
<1>5. IsFiniteSet(T) /\ Cardinality(T) = N * (K * (s * (s * s)))
  <2> HIDE DEF E, K, N, s
  <2> DEFINE I == 1..N
             J == 1..K
             F == J \X E
             e == s * (s * s)
  <2>1. /\ IsFiniteSet(I) /\ Cardinality(I) = N /\ IsFiniteSet(J) /\ Cardinality(J) = K
        /\ IsFiniteSet(E) /\ Cardinality(E) = e
    BY <1>3, <1>4
  <2> HIDE DEF I, J, e
  <2>2. IsFiniteSet(F) /\ Cardinality(F) = K * e
    BY <2>1, FS_Product
  <2> HIDE DEF F
  <2>3. IsFiniteSet(I \X F) /\ Cardinality(I \X F) = N * (K * e)
    BY <2>1, <2>2, FS_Product
  <2> QED BY <2>3 DEF I, J, F, e
<1>6. N * (K * (s * (s * s))) =< MaxSkips
  <2> DEFINE c == (s * s) * s
             b == MaxAtoms * K
  <2>1. c \in Nat /\ b \in Nat /\ s \in Nat
    BY <1>1
  <2>2. b * c =< MaxSkips
    BY BoundsAssumption
  <2>3. N * (K * (s * (s * s))) = (N * K) * c
    <3> HIDE DEF K, N, s
    <3> QED BY <1>1, <2>1
  <2>4. (N * K) * c =< b * c
    <3>1. N * K =< b /\ N * K \in Nat
      <4> HIDE DEF K, N
      <4> QED BY <1>1
    <3> HIDE DEF b, c, K, N
    <3> DEFINE k == N * K
    <3>2. k =< b /\ k \in Nat
      BY <3>1
    <3> HIDE DEF k
    <3>3. k * c =< b * c
      BY <2>1, <3>2
    <3> QED BY <3>3 DEF k
  <2>5. (N * K) * c \in Int /\ b * c \in Int
    BY <1>1, <2>1
  <2> HIDE DEF b, c, K, N, s
  <2> QED BY <1>1, <2>2, <2>3, <2>4, <2>5
<1>7. IsFiniteSet(R) /\ Cardinality(R) =< Cardinality(T)
  <2>1. f \in Surjection(T, R)
    <3> HIDE DEF T
    <3> QED BY DEF Surjection
  <2> HIDE DEF f, T, R
  <2> QED BY <1>5, <2>1, FS_Surjection
<1>8. AllOf(g) \subseteq R
  <2> SUFFICES ASSUME NEW h \in AllOf(g) PROVE h \in R
    OBVIOUS
  <2>1. /\ h \in Looping(g) /\ h \in Generators /\ h \in Configured(g) /\ h.current \in 1..N
        /\ h.symidx \in 1..Len(Places(Site1(h))) /\ Site1(h) \in Sites
        /\ kind = "atomic" => h.msphere = NoSphere
        /\ kind # "atomic" => h.msphere \in Turns(B) /\ h.msphere \in Walk(B)
    BY AllOfIs DEF Looping
  <2>2. h.symidx \in 1..K
    <3>1. /\ Places(Site1(h)) \in Seq(Vectors) /\ Len(Places(Site1(h))) =< K
      BY <2>1 DEF Ready
    <3>2. Len(Places(Site1(h))) \in Nat
      BY <3>1
    <3> HIDE DEF K
    <3> QED BY <1>1, <2>1, <3>1, <3>2
  <2>3. \E x \in E : h.msphere = At0(x)
    <3>1. CASE kind = "atomic"
      <4>1. PICK z \in Int : z = 0
        OBVIOUS
      <4>2. z \in Reach
        BY <1>1, <4>1 DEF Reach
      <4>3. <<z, <<z, z>>>> \in E
        BY <4>2
      <4> QED BY <2>1, <3>1, <4>3
    <3>2. CASE kind # "atomic" /\ SphereAll(B) = {}
      <4>1. PICK z \in Int : z = 0
        OBVIOUS
      <4>2. z \in Reach
        BY <1>1, <4>1 DEF Reach
      <4>3. <<z, <<z, z>>>> \in E
        BY <4>2
      <4>4. h.msphere = At(B, HiM(B), 0, 0)
        BY <2>1, <3>2 DEF Walk
      <4> QED BY <3>2, <4>3, <4>4
    <3>3. CASE kind # "atomic" /\ SphereAll(B) # {}
      <4> DEFINE q == h.msphere
      <4>1. q \in SphereAll(B) /\ q \in Turns(B)
        BY <2>1, <3>3 DEF Walk
      <4>2. /\ IsSphere(B) /\ B.L = L /\ B.Rmax = g.rmax + MaxDiagonal
        BY BallIs
      <4>3. q.m \in Int /\ q.n \in Int /\ q.o \in Int /\ q.o \in PointsOn(B, q.m, q.n)
        BY <4>1 DEF SphereAll, Turns
      <4>4. Far(B, q.m, q.n, q.o) < SignedSquare(B.Rmax)
        <5> HIDE DEF B, q
        <5> QED BY <4>2, <4>3, PointsAre, LatticeIs
      <4>5. q.m \in Reach /\ q.n \in Reach /\ q.o \in Reach
        <5> DEFINE r == <<g.rmin, g.rmax>>
        <5>1. r \in Radii /\ r[2] = g.rmax
          BY DEF Ready
        <5> HIDE DEF B, q, r
        <5> QED BY <4>2, <4>3, <4>4, <5>1, IndicesAre
      <4>6. q = At(B, q.m, q.n, q.o)
        <5> HIDE DEF B, q
        <5> QED BY <4>1, <4>2, <4>3, AtIs
      <4> DEFINE x == <<q.m, <<q.n, q.o>>>>
      <4>7. x \in E /\ x[1] = q.m /\ x[2][1] = q.n /\ x[2][2] = q.o
        BY <4>5
      <4>8. At0(x) = At(B, x[1], x[2][1], x[2][2])
        BY <3>3
      <4> HIDE DEF x, q, B
      <4> QED BY <4>6, <4>7, <4>8 DEF q
    <3> QED BY <3>1, <3>2, <3>3
  <2>4. PICK x \in E : h.msphere = At0(x)
    BY <2>3
  <2> DEFINE t == <<h.current, <<h.symidx, x>>>>
  <2>5. t \in T /\ t[1] = h.current /\ t[2][1] = h.symidx /\ t[2][2] = x
    <3> HIDE DEF K, N, E
    <3> QED BY <2>1, <2>2, <2>4
  <2>6. h = Moved(g, h.current, h.symidx, h.msphere)
    <3>1. g \in Generators
      BY DEF Ready
    <3> HIDE DEF t
    <3> QED BY <2>1, <3>1 DEF Moved, Configured, Generators
  <2>7. f[t] = h
    <3>1. f[t] = Moved(g, t[1], t[2][1], At0(t[2][2]))
      <4> HIDE DEF T, t, At0
      <4> QED BY <2>5
    <3> HIDE DEF f, t, At0, T
    <3> QED BY <2>4, <2>5, <2>6, <3>1
  <2> HIDE DEF f, t, T
  <2> QED BY <2>5, <2>7
<1>9. IsFiniteSet(AllOf(g)) /\ Cardinality(AllOf(g)) =< Cardinality(R)
  <2> HIDE DEF R
  <2> QED BY <1>7, <1>8, FS_Subset
<1>10. Cardinality(AllOf(g)) \in Nat /\ Cardinality(R) \in Nat
  <2> HIDE DEF R
  <2> QED BY <1>7, <1>9, FS_CardinalityType
<1> DEFINE c1 == Cardinality(AllOf(g))
           c2 == Cardinality(R)
           c3 == Cardinality(T)
           c4 == N * (K * (s * (s * s)))
<1>11. c1 \in Nat /\ c2 \in Nat /\ c1 =< c2 /\ c2 =< c3 /\ c3 = c4 /\ c4 =< MaxSkips /\ c3 \in Nat
  <2> HIDE DEF R, T, N, K, s
  <2>1. c3 \in Nat
    BY <1>5, FS_CardinalityType
  <2> QED BY <1>5, <1>6, <1>7, <1>9, <1>10, <2>1
<1>12. c1 =< MaxSkips
  <2> HIDE DEF c1, c2, c3, c4
  <2> QED BY <1>1, <1>11
<1> QED BY <1>9, <1>11, <1>12

-----------------------------------------------------------------------------
(* Skipping of positions.                                                  *)

(* What Advance is defined by: one step of the recursion. *)
Skipping(f, n) ==
  [g \in Generators |->
     LET h == f[n \div 2][g]
     IN  IF n = 1 THEN GetNextBond(g) ELSE IF Valid(h) THEN h ELSE f[n - n \div 2][h]]

(* There is a function that is defined by it. *)
LEMMA AdvanceIs ==
  \A n \in 1..MaxSkips : Advance[n] = Skipping(Advance, n)
<1> DEFINE Good(f, k) == f = [n \in 1..k |-> Skipping(f, n)]
           T == {k \in Nat : \A f : ~Good(f, k)}
<1>1. T = {}
  <2>1. SUFFICES ASSUME T # {} PROVE FALSE
    OBVIOUS
  <2>2. PICK k \in T : \A j \in T : k =< j
    <3> HIDE DEF Good
    <3>1. T \subseteq Nat
      OBVIOUS
    <3> HIDE DEF T
    <3> QED BY <2>1, <3>1, LeastNatural
  <2>3. k \in Nat /\ \A f : ~Good(f, k)
    BY <2>2
  <2>4. CASE k = 0
    <3> DEFINE f == [n \in 1..0 |-> 0]
    <3>1. 1..0 = {}
      OBVIOUS
    <3>2. f = [n \in 1..0 |-> Skipping(f, n)]
      <4> HIDE DEF f
      <4>1. f = [n \in {} |-> 0]
        BY <3>1 DEF f
      <4>2. [n \in 1..0 |-> Skipping(f, n)] = [n \in {} |-> 0]
        BY <3>1, Zenon
      <4> QED BY <4>1, <4>2
    <3> QED BY <2>3, <2>4, <3>2
  <2>5. CASE k # 0
    <3>1. k - 1 \in Nat /\ k - 1 \notin T
      <4>1. k - 1 \in Nat /\ ~(k =< k - 1)
        BY <2>3, <2>5
      <4> HIDE DEF T
      <4> QED BY <2>2, <4>1
    <3>2. PICK f : Good(f, k - 1)
      BY <3>1, Zenon
    <3> DEFINE e == [n \in 1..k |-> IF n < k THEN f[n] ELSE Skipping(f, k)]
    <3>3. ASSUME NEW n \in 1..k - 1 PROVE e[n] = f[n]
      <4>1. n \in 1..k /\ n < k
        BY <2>3
      <4> QED BY <4>1
    <3>4. ASSUME NEW n \in 1..k PROVE e[n] = Skipping(e, n)
      <4>1. e[n] = Skipping(f, n)
        <5>1. CASE n = k
          <6>1. k \in 1..k /\ ~(k < k)
            BY <2>3, <2>5
          <6>2. e[k] = Skipping(f, k)
            <7> HIDE DEF Skipping
            <7> QED BY <6>1
          <6> HIDE DEF e
          <6> QED BY <5>1, <6>2
        <5>2. CASE n # k
          <6>1. n \in 1..k - 1
            BY <2>3, <5>2
          <6>2. f[n] = [i \in 1..k - 1 |-> Skipping(f, i)][n]
            BY <3>2, Zenon
          <6>3. f[n] = Skipping(f, n)
            <7> DEFINE S(i) == Skipping(f, i)
            <7> HIDE DEF S
            <7>1. f[n] = [i \in 1..k - 1 |-> S(i)][n]
              BY <6>2 DEF S
            <7>2. f[n] = S(n)
              BY <6>1, <7>1
            <7> QED BY <7>2 DEF S
          <6>4. e[n] = f[n]
            BY <3>3, <6>1
          <6> HIDE DEF e
          <6> QED BY <6>3, <6>4
        <5> QED BY <5>1, <5>2
      <4>2. Skipping(f, n) = Skipping(e, n)
        <5>1. CASE n = 1
          BY <5>1 DEF Skipping
        <5>2. CASE n # 1
          <6>1. n \div 2 \in 1..k - 1 /\ n - n \div 2 \in 1..k - 1
            BY <2>3, <5>2
          <6>2. e[n \div 2] = f[n \div 2] /\ e[n - n \div 2] = f[n - n \div 2]
            BY <3>3, <6>1
          <6> HIDE DEF e
          <6> QED BY <6>2 DEF Skipping
        <5> QED BY <5>1, <5>2
      <4> HIDE DEF e
      <4> QED BY <4>1, <4>2
    <3>5. e = [n \in 1..k |-> e[n]]
      <4> DEFINE X(n) == IF n < k THEN f[n] ELSE Skipping(f, k)
      <4> HIDE DEF X
      <4>1. [n \in 1..k |-> X(n)] = [n \in 1..k |-> [i \in 1..k |-> X(i)][n]]
        OBVIOUS
      <4> QED BY <4>1 DEF X
    <3>6. Good(e, k)
      <4> HIDE DEF e
      <4> DEFINE S(n) == Skipping(e, n)
      <4> HIDE DEF S
      <4>1. \A n \in 1..k : e[n] = S(n)
        BY <3>4 DEF S
      <4>2. e = [n \in 1..k |-> S(n)]
        BY <3>5, <4>1
      <4> QED BY <4>2 DEF S
    <3> QED BY <2>3, <3>6, Zenon
  <2> QED BY <2>4, <2>5
<1>2. MaxSkips \in Nat
  BY BoundsAssumption
<1>3. \E f : Good(f, MaxSkips)
  BY <1>1, <1>2, Zenon
<1>4. Good(Advance, MaxSkips)
  <2>1. Advance = CHOOSE f : Good(f, MaxSkips)
    BY Zenon DEF Advance, Skipping
  <2> HIDE DEF Good
  <2> QED BY <1>3, <2>1, Zenon
<1>5. ASSUME NEW n \in 1..MaxSkips PROVE Advance[n] = Skipping(Advance, n)
  <2> DEFINE S(i) == Skipping(Advance, i)
  <2> HIDE DEF S
  <2>1. Advance = [i \in 1..MaxSkips |-> S(i)]
    BY <1>4 DEF S
  <2>2. Advance[n] = S(n)
    BY <2>1
  <2> QED BY <2>2 DEF S
<1> QED BY <1>5

(* What it means that h is reached from g by skipping no more than what is invalid. *)
Skipped(g, h) ==
  \/ /\ h \in Looping(g) /\ GeneratorFinished(h) /\ h.current = Len(g.sites) + 1
     /\ \A q \in Later(g) : ~Valid(q)
  \/ /\ h \in Later(g) /\ h \notin Later(h) /\ Later(h) \subseteq Later(g)
     /\ \A q \in Later(g) : q = h \/ q \in Later(h) \/ ~Valid(q)

(* n steps leave n positions behind. *)
Stops(g, h, n) ==
  Skipped(g, h) /\ (Valid(h) \/ Cardinality(Later(h)) + n =< Cardinality(Later(g)))

(* Later positions are fewer. *)
LEMMA LaterIs ==
  ASSUME NEW g, Ready(g), NEW h \in AllOf(g)
  PROVE  /\ Ready(h) /\ AllOf(h) = AllOf(g) /\ Looping(h) = Looping(g) /\ h \in AllOf(h)
         /\ Later(h) \subseteq AllOf(g) /\ h \notin Later(h)
         /\ IsFiniteSet(Later(h)) /\ Cardinality(Later(h)) \in Nat
         /\ Cardinality(Later(h)) < MaxSkips
<1>1. h \in Looping(g) /\ h \in Generators
  BY AllOfIs
<1>2. Ready(h) /\ AllOf(h) = AllOf(g) /\ Looping(h) = Looping(g)
  BY <1>1, LoopingIs
<1>3. Later(h) \subseteq AllOf(g) /\ h \notin Later(h)
  BY <1>1, <1>2, BeforeIsOrder DEF Later
<1>4. IsFiniteSet(AllOf(g)) /\ Cardinality(AllOf(g)) \in Nat /\ Cardinality(AllOf(g)) =< MaxSkips
  BY PositionsAreFinite
<1>5. IsFiniteSet(Later(h)) /\ Cardinality(Later(h)) \in Nat /\ IsFiniteSet(Later(h) \cup {h})
  BY <1>3, <1>4, FS_Subset, FS_CardinalityType, FS_AddElement
<1>6. Cardinality(Later(h) \cup {h}) = Cardinality(Later(h)) + 1
  BY <1>3, <1>5, FS_AddElement
<1>7. Cardinality(Later(h) \cup {h}) =< Cardinality(AllOf(g))
  BY <1>3, <1>4, FS_Subset
<1>8. MaxSkips \in Nat
  BY BoundsAssumption
<1> QED BY <1>2, <1>3, <1>4, <1>5, <1>6, <1>7, <1>8

(* A loop ends one behind the last site. *)
LEMMA NextCurrent ==
  ASSUME NEW g, Ready(g), NEW h \in AllOf(g), GeneratorFinished(GetNextBond(h))
  PROVE  GetNextBond(h).current = Len(g.sites) + 1
<1> DEFINE i == GetNextBond(h)
           n == Len(g.sites)
           u == h.current + 1
<1>1. /\ h \in Generators /\ h.current \in 1..n /\ h.sites = g.sites /\ n \in Nat /\ h.current \in Nat
  BY AllOfIs, GeneratorIs DEF Ready
<1>2. i.sites = g.sites /\ i.current \in Nat /\ i.current > n
  <2>1. i \in Looping(g)
    BY NextIs DEF IsNext
  <2>2. i \in Generators /\ i.sites = g.sites
    BY <2>1 DEF Looping, Configured
  <2> HIDE DEF i
  <2> QED BY <2>2, GeneratorIs DEF GeneratorFinished, i
<1>3. i.current = h.current \/ i.current = u \/ i.current = 1
  <2> HIDE DEF u
  <2>1. CASE kind = "periodic"
    BY <1>1, <2>1 DEF GetNextBond, NextSiteAtPoint, AtFirstSite, IterateSymmetry, Generators, u
  <2>2. CASE kind # "periodic"
    BY <1>1, <2>2 DEF GetNextBond, NextPositionOfSite, OrNextSite, IterateSymmetry, RewindSymmetry, Generators, u
  <2> QED BY <2>1, <2>2
<1> HIDE DEF i, n
<1> QED BY <1>1, <1>2, <1>3 DEF i, n

(* One step, *)
LEMMA StepStops ==
  ASSUME NEW g, Ready(g), g \in AllOf(g)
  PROVE  Stops(g, GetNextBond(g), 1)
<1> DEFINE i == GetNextBond(g)
<1>1. \/ i \in Looping(g) /\ GeneratorFinished(i) /\ Later(g) = {}
      \/ /\ i \in AllOf(g) /\ ~GeneratorFinished(i)
         /\ Later(g) = {i} \cup Later(i) /\ i \notin Later(i)
  BY StepIs
<1>4. GeneratorFinished(i) => i.current = Len(g.sites) + 1
  BY NextCurrent
<1> HIDE DEF i
<1>2. ASSUME i \in Looping(g), GeneratorFinished(i), Later(g) = {} PROVE Stops(g, i, 1)
  BY <1>2, <1>4 DEF Stops, Skipped, Valid
<1>3. ASSUME i \in AllOf(g), Later(g) = {i} \cup Later(i), i \notin Later(i) PROVE Stops(g, i, 1)
  <2>1. IsFiniteSet(Later(i)) /\ Cardinality(Later(i)) \in Nat
    BY <1>3, LaterIs
  <2>2. Later(g) = Later(i) \cup {i}
    BY <1>3
  <2>3. Cardinality(Later(g)) = Cardinality(Later(i)) + 1
    BY <1>3, <2>1, <2>2, FS_AddElement
  <2>4. Cardinality(Later(i)) + 1 =< Cardinality(Later(g))
    BY <2>1, <2>3
  <2> QED BY <1>3, <2>2, <2>4 DEF Stops, Skipped
<1> QED BY <1>1, <1>2, <1>3 DEF i

(* and steps put together. *)
LEMMA StopsAdd ==
  ASSUME NEW g, Ready(g), g \in AllOf(g), NEW h, NEW i, NEW m \in Nat, NEW n \in Nat,
         Stops(g, h, m), ~Valid(h), Stops(h, i, n)
  PROVE  Stops(g, i, m + n)
<1>1. h \in Later(g) /\ h \in AllOf(g) /\ Later(h) \subseteq Later(g)
      /\ (\A q \in Later(g) : q = h \/ q \in Later(h) \/ ~Valid(q))
  BY DEF Stops, Skipped, Valid, Later
<1>2. Looping(h) = Looping(g) /\ AllOf(h) = AllOf(g) /\ Cardinality(Later(h)) \in Nat
      /\ Cardinality(Later(g)) \in Nat
  BY <1>1, LaterIs
<1>3. Cardinality(Later(h)) + m =< Cardinality(Later(g))
  BY DEF Stops
<1>4. Skipped(g, i)
  <2>1. ASSUME i \in Looping(h), GeneratorFinished(i), i.current = Len(h.sites) + 1,
               \A q \in Later(h) : ~Valid(q)
        PROVE  Skipped(g, i)
    <3>1. \A q \in Later(g) : ~Valid(q)
      BY <1>1, <2>1
    <3>2. h.sites = g.sites
      BY <1>1, AllOfIs
    <3> QED BY <1>2, <2>1, <3>1, <3>2 DEF Skipped
  <2>2. ASSUME i \in Later(h), i \notin Later(i), Later(i) \subseteq Later(h),
               \A q \in Later(h) : q = i \/ q \in Later(i) \/ ~Valid(q)
        PROVE  Skipped(g, i)
    <3>1. \A q \in Later(g) : q = i \/ q \in Later(i) \/ ~Valid(q)
      BY <1>1, <2>2
    <3> QED BY <1>1, <2>2, <3>1 DEF Skipped
  <2> QED BY <2>1, <2>2 DEF Stops, Skipped
<1>5. Valid(i) \/ Cardinality(Later(i)) + (m + n) =< Cardinality(Later(g))
  <2>1. SUFFICES ASSUME ~Valid(i) PROVE Cardinality(Later(i)) + (m + n) =< Cardinality(Later(g))
    OBVIOUS
  <2>2. Cardinality(Later(i)) + n =< Cardinality(Later(h))
    BY <2>1 DEF Stops
  <2>3. i \in AllOf(g)
    BY <1>2, <2>1 DEF Stops, Skipped, Valid, Later
  <2>4. Cardinality(Later(i)) \in Nat
    BY <2>3, LaterIs
  <2> QED BY <1>2, <1>3, <2>2, <2>4
<1> QED BY <1>4, <1>5 DEF Stops

(* So the recursion does what it stands for. *)
LEMMA AdvanceStops ==
  ASSUME NEW g, Ready(g), NEW n \in 1..MaxSkips
  PROVE  \A h \in AllOf(g) : Stops(h, Advance[n][h], n)
<1> DEFINE Good(k) == \A h \in AllOf(g) : Stops(h, Advance[k][h], k)
           T == {k \in 1..MaxSkips : ~Good(k)}
<1>0. MaxSkips \in Nat
  BY BoundsAssumption
<1>1. T = {}
  <2>1. SUFFICES ASSUME T # {} PROVE FALSE
    OBVIOUS
  <2>2. PICK k \in T : \A j \in T : k =< j
    <3> HIDE DEF Good
    <3>1. T \subseteq Nat
      BY <1>0
    <3> HIDE DEF T
    <3> QED BY <2>1, <3>1, LeastNatural
  <2>3. k \in 1..MaxSkips /\ ~Good(k) /\ k \in Nat
    BY <1>0, <2>2
  <2>4. ASSUME NEW j \in 1..k - 1 PROVE Good(j)
    <3>1. j \in 1..MaxSkips /\ ~(k =< j)
      BY <1>0, <2>3
    <3>2. j \notin T
      <4> HIDE DEF T
      <4> QED BY <2>2, <3>1
    <3> HIDE DEF Good
    <3> QED BY <3>1, <3>2
  <2>5. PICK h \in AllOf(g) : ~Stops(h, Advance[k][h], k)
    BY <2>3
  <2>6. Ready(h) /\ h \in AllOf(h) /\ AllOf(h) = AllOf(g) /\ h \in Generators
    BY LaterIs, AllOfIs
  <2> DEFINE a == k \div 2
             b == k - a
             i == Advance[a][h]
  <2>7. Advance[k][h] = IF k = 1 THEN GetNextBond(h) ELSE IF Valid(i) THEN i ELSE Advance[b][i]
    <3>1. Advance[k] = Skipping(Advance, k)
      BY <2>3, AdvanceIs
    <3> QED BY <2>6, <3>1 DEF Skipping
  <2>8. CASE k = 1
    <3>1. Stops(h, GetNextBond(h), 1)
      BY <2>6, StepStops
    <3> QED BY <2>5, <2>7, <2>8, <3>1
  <2>9. CASE k # 1
    <3>1. a \in 1..k - 1 /\ b \in 1..k - 1 /\ a + b = k /\ a \in Nat /\ b \in Nat
      BY <2>3, <2>9
    <3> HIDE DEF b, a
    <3>2. Stops(h, i, a)
      BY <2>4, <3>1
    <3> HIDE DEF i
    <3>3. CASE Valid(i)
      <4>1. Stops(h, i, k)
        BY <3>2, <3>3 DEF Stops
      <4> QED BY <2>5, <2>7, <2>9, <3>3, <4>1
    <3>4. CASE ~Valid(i)
      <4>1. i \in AllOf(g)
        BY <2>6, <3>2, <3>4 DEF Stops, Skipped, Valid, Later
      <4>2. Stops(i, Advance[b][i], b)
        BY <2>4, <3>1, <4>1
      <4>3. Stops(h, Advance[b][i], a + b)
        BY <2>6, <3>1, <3>2, <3>4, <4>2, StopsAdd
      <4> QED BY <2>5, <2>7, <2>9, <3>1, <3>4, <4>3
    <3> QED BY <3>3, <3>4
  <2> QED BY <2>8, <2>9
<1> QED BY <1>1

(***************************************************************************)
(* AdvanceWhileInvalid comes to the first valid position from g on, or to  *)
(* the end if there is none, however many it has to skip: MaxSkips is no   *)
(* bound on the behaviour (BaseBondGenerator::advanceWhileInvalid).        *)
(***************************************************************************)
LEMMA AdvanceWhileInvalidIs ==
  ASSUME NEW g, Ready(g), g \in AllOf(g)
  PROVE  LET h == AdvanceWhileInvalid(g)
             rest == {g} \cup Later(g)
         IN  \/ /\ h \in Looping(g) /\ GeneratorFinished(h) /\ h.current = Len(g.sites) + 1
                /\ \A q \in rest : ~Valid(q)
             \/ /\ h \in rest /\ h \notin Later(h) /\ Later(h) \subseteq Later(g) /\ Valid(h)
                /\ \A q \in rest : q = h \/ q \in Later(h) \/ ~Valid(q)
<1> DEFINE h == AdvanceWhileInvalid(g)
<1>1. g \notin Later(g) /\ Cardinality(Later(g)) \in Nat /\ Cardinality(Later(g)) < MaxSkips
  BY LaterIs
<1>2. CASE Valid(g)
  BY <1>1, <1>2 DEF AdvanceWhileInvalid
<1>3. CASE ~Valid(g)
  <2>1. h = Advance[MaxSkips][g] /\ MaxSkips \in 1..MaxSkips /\ MaxSkips \in Nat
    BY <1>3, BoundsAssumption DEF AdvanceWhileInvalid
  <2>2. Stops(g, h, MaxSkips)
    BY <2>1, AdvanceStops
  <2> HIDE DEF h
  <2>3. Valid(h)
    <3>1. SUFFICES ASSUME ~Valid(h) PROVE FALSE
      OBVIOUS
    <3>2. h \in AllOf(g) /\ Cardinality(Later(h)) + MaxSkips =< Cardinality(Later(g))
      BY <2>2, <3>1 DEF Stops, Skipped, Valid, Later
    <3>3. Cardinality(Later(h)) \in Nat
      BY <3>2, LaterIs
    <3> QED BY <1>1, <2>1, <3>2, <3>3
  <2>4. Skipped(g, h)
    BY <2>2 DEF Stops
  <2> QED BY <1>3, <2>3, <2>4 DEF Skipped, h
<1> QED BY <1>2, <1>3

-----------------------------------------------------------------------------
(* Positions in the cell, and images of operations.                        *)

(* AlongAxes are moved to the unit cell. *)
LEMMA UcvIs ==
  ASSUME NEW x \in Vectors
  PROVE  /\ UcvFractional(x) \in Vectors /\ InCell(UcvFractional(x))
         /\ \A k \in 1..3 : UcvFractional(x)[k] = x[k] % Grid /\ x[k] \in Int
<1>1. Grid \in Nat \ {0}
  BY LatticeIs
<1>2. x[1] \in Int /\ x[2] \in Int /\ x[3] \in Int
  BY VectorsAre
<1>3. ASSUME NEW y \in Int PROVE y % Grid \in 0..Grid - 1
  BY <1>1
<1> QED BY <1>1, <1>2, <1>3 DEF UcvFractional, Vectors, InCell

(* Images of positions are positions. *)
LEMMA ImageIs ==
  ASSUME NEW op \in SymOps, NEW x \in Vectors
  PROVE  Image(op, x) \in Vectors
<1>1. x[1] \in Int /\ x[2] \in Int /\ x[3] \in Int
  BY VectorsAre
<1>2. op \in [R : Matrices, t : Vectors]
  BY StructureAssumption
<1>3. op.R \in Matrices /\ op.t \in Vectors
  BY <1>2
<1>4. ASSUME NEW v \in Vectors PROVE Inner(v, x) \in Int
  BY <1>1, <1>4, Cauchy
<1>5. op.R[1] \in Vectors /\ op.R[2] \in Vectors /\ op.R[3] \in Vectors
  BY <1>3 DEF Matrices
<1>6. <<Inner(op.R[1], x), Inner(op.R[2], x), Inner(op.R[3], x)>> \in Vectors
  BY <1>4, <1>5 DEF Vectors
<1> QED BY <1>3, <1>6, VectorsAre DEF Image

(* Only the null vector has no length. *)
LEMMA NormZero ==
  ASSUME NEW v \in Vectors, Normsq(v) =< 0
  PROVE  v = <<0, 0, 0>>
<1> DEFINE a == v[1]
           b == v[2]
           c == v[3]
<1>1. a \in Int /\ b \in Int /\ c \in Int /\ v = <<a, b, c>>
  BY VectorsAre
<1>2. a * a + b * b + c * c =< 0
  BY DEF Normsq, Inner
<1>3. ASSUME NEW u \in Int PROVE u * u >= 0 /\ (u # 0 => u * u > 0) /\ u * u \in Int
  BY <1>3
<1>4. a = 0 /\ b = 0 /\ c = 0
  <2> HIDE DEF a, b, c
  <2> DEFINE aa == a * a
             bb == b * b
             cc == c * c
  <2>1. /\ aa >= 0 /\ (a # 0 => aa > 0) /\ aa \in Int
        /\ bb >= 0 /\ (b # 0 => bb > 0) /\ bb \in Int
        /\ cc >= 0 /\ (c # 0 => cc > 0) /\ cc \in Int
    BY <1>1, <1>3
  <2>2. aa + bb + cc =< 0
    BY <1>2
  <2> HIDE DEF aa, bb, cc
  <2> QED BY <2>1, <2>2
<1> QED BY <1>1, <1>4

(* Without a precision positions are equal if they are the same place in their cells. *)
LEMMA EqualIs ==
  ASSUME NEW x \in Vectors, NEW y \in Vectors
  PROVE  EqualPosition(L, 0, x, y) <=> UcvFractional(x) = UcvFractional(y)
<1> DEFINE z == Minus(x, y)
           r == Remainder(z)
           w == <<r[1], r[2], r[3]>>
           G == Grid
<1>1. G \in Nat \ {0}
  BY LatticeIs
<1>2. z \in Vectors /\ z[1] = x[1] - y[1] /\ z[2] = x[2] - y[2] /\ z[3] = x[3] - y[3]
  BY VectorsAre DEF Minus
<1>3. ASSUME NEW k \in 1..3
      PROVE  r[k] \in Int /\ (r[k] = 0 <=> x[k] % G = y[k] % G) /\ x[k] \in Int /\ y[k] \in Int
  <2>1. x[k] \in Int /\ y[k] \in Int /\ z[k] = x[k] - y[k]
    <3>1. /\ x[1] \in Int /\ x[2] \in Int /\ x[3] \in Int
          /\ y[1] \in Int /\ y[2] \in Int /\ y[3] \in Int
      BY VectorsAre
    <3>2. k = 1 \/ k = 2 \/ k = 3
      BY <1>3
    <3> HIDE DEF z
    <3> QED BY <1>2, <3>1, <3>2
  <2> DEFINE s == z[k] % G
  <2>2. s \in 0..G - 1
    BY <1>1, <2>1
  <2>3. r[k] = IF 2 * s < G \/ (2 * s = G /\ z[k] < 0) THEN s ELSE s - G
    BY <1>3 DEF Remainder
  <2>4. s = 0 <=> x[k] % G = y[k] % G
    <3> DEFINE a == x[k]
               b == y[k]
    <3>1. a \in Int /\ b \in Int /\ s = (a - b) % G
      BY <2>1
    <3> HIDE DEF a, b, s
    <3>2. a = G * (a \div G) + (a % G) /\ b = G * (b \div G) + (b % G)
          /\ a % G \in 0..G - 1 /\ b % G \in 0..G - 1 /\ a \div G \in Int /\ b \div G \in Int
          /\ a - b = G * ((a - b) \div G) + s /\ (a - b) \div G \in Int
      BY <1>1, <3>1
    <3> DEFINE ra == a % G
               rb == b % G
               q == a \div G - b \div G - (a - b) \div G
               f == (G * q)
    <3>3. q \in Int /\ f \in Int /\ f + ra - rb = s /\ ra \in 0..G - 1 /\ rb \in 0..G - 1
      BY <1>1, <3>1, <3>2
    <3>4. (q >= 1 => f >= G) /\ (q =< -1 => f =< -G) /\ (q = 0 => f = 0)
      <4> HIDE DEF q
      <4> QED BY <1>1, <3>3
    <3> HIDE DEF ra, rb, f, q
    <3>5. s = 0 <=> ra = rb
      BY <1>1, <2>2, <3>3, <3>4 DEF s
    <3> QED BY <3>5 DEF ra, rb, a, b
  <2> HIDE DEF s, r
  <2> QED BY <1>1, <2>1, <2>2, <2>3, <2>4
<1> HIDE DEF r, G
<1>4. w \in Vectors
  BY <1>3 DEF Vectors
<1>5. Cartesian(L, r) = Cartesian(L, w)
  BY DEF Cartesian, Inner
<1>6. Normsq(Cartesian(L, w)) =< 0 <=> w = <<0, 0, 0>>
  <2> HIDE DEF w
  <2>1. Cartesian(L, w) \in Vectors
    BY <1>4, VectorsAre
  <2>2. ASSUME Normsq(Cartesian(L, w)) =< 0 PROVE w = <<0, 0, 0>>
    <3>1. Cartesian(L, w) = <<0, 0, 0>>
      BY <2>1, <2>2, NormZero
    <3>2. Cartesian(L, <<0, 0, 0>>) = <<0, 0, 0>>
      BY LatticeAssumption DEF Cartesian, Inner, Column, Matrices, Vectors
    <3>3. <<0, 0, 0>> \in Vectors
      BY DEF Vectors
    <3> QED BY <1>4, <3>1, <3>2, <3>3, CartesianDiffers
  <2>3. ASSUME w = <<0, 0, 0>> PROVE Normsq(Cartesian(L, w)) =< 0
    <3>1. Cartesian(L, <<0, 0, 0>>) = <<0, 0, 0>>
      BY LatticeAssumption DEF Cartesian, Inner, Column, Matrices, Vectors
    <3> QED BY <2>3, <3>1 DEF Normsq, Inner
  <2> QED BY <2>2, <2>3
<1>7. w = <<0, 0, 0>> <=> r[1] = 0 /\ r[2] = 0 /\ r[3] = 0
  OBVIOUS
<1>8. r[1] = 0 /\ r[2] = 0 /\ r[3] = 0 <=> UcvFractional(x) = UcvFractional(y)
  <2>1. \A k \in 1..3 : r[k] = 0 <=> x[k] % G = y[k] % G
    BY <1>3
  <2>2. UcvFractional(x) = <<x[1] % G, x[2] % G, x[3] % G>> /\ UcvFractional(y) = <<y[1] % G, y[2] % G, y[3] % G>>
    BY DEF UcvFractional, G
  <2>3. UcvFractional(x) = UcvFractional(y) <=> x[1] % G = y[1] % G /\ x[2] % G = y[2] % G /\ x[3] % G = y[3] % G
    BY <2>2
  <2> QED BY <2>1, <2>3
<1> QED BY <1>5, <1>6, <1>7, <1>8 DEF EqualPosition, r

(* The images of a site while they are made: sums of positions in the cell, *)
SiteKind == [first : Vectors, sum : Vectors, count : Nat \ {0}]

IsSum(e) == \A c \in 1..3 : e.sum[c] >= 0 /\ e.sum[c] =< e.count * (Grid - 1)

(* with a precision of zero sums of one position that no other has, which stand for all of Y. *)
IsOne(e) == \A c \in 1..3 : e.sum[c] = e.count * UcvFractional(e.first)[c]

AreImages(eps, s, n, Y) ==
  /\ s \in Seq(SiteKind) /\ Len(s) =< n /\ (n # 0 => Len(s) # 0)
  /\ \A k \in 1..Len(s) : IsSum(s[k])
  /\ eps = 0 => /\ \A k \in 1..Len(s) : IsOne(s[k])
                /\ \A j, k \in 1..Len(s) :
                     UcvFractional(s[j].first) = UcvFractional(s[k].first) => j = k
                /\ \A y \in Y : \E k \in 1..Len(s) : UcvFractional(s[k].first) = UcvFractional(y)

(* Another duplicate keeps the mean in the cell. *)
LEMMA SumGrows ==
  ASSUME NEW e \in SiteKind, IsSum(e), NEW x \in Vectors, InCell(x)
  PROVE  /\ [e EXCEPT !.sum = Plus(@, x), !.count = @ + 1] \in SiteKind
         /\ IsSum([e EXCEPT !.sum = Plus(@, x), !.count = @ + 1])
<1> DEFINE f == [e EXCEPT !.sum = Plus(@, x), !.count = @ + 1]
<1>0. e.first \in Vectors /\ e.sum \in Vectors /\ e.count \in Nat \ {0}
  BY DEF SiteKind
<1>1. Plus(e.sum, x) \in Vectors /\ e.sum[1] \in Int /\ e.sum[2] \in Int /\ e.sum[3] \in Int
      /\ x[1] \in Int /\ x[2] \in Int /\ x[3] \in Int
  BY <1>0, VectorsAre
<1>2. f \in SiteKind /\ f.sum = Plus(e.sum, x) /\ f.count = e.count + 1
  <2> DEFINE v == Plus(e.sum, x)
             n == e.count + 1
             h == [e EXCEPT !.sum = v, !.count = n]
  <2>1. v \in Vectors /\ n \in Nat \ {0}
    BY <1>0, <1>1
  <2> HIDE DEF v, n
  <2>2. h \in SiteKind /\ h.sum = v /\ h.count = n
    BY <2>1 DEF SiteKind
  <2> QED BY <2>2 DEF v, n
<1>4. ASSUME NEW a \in Int, NEW b \in Int, a >= 0, a =< e.count * (Grid - 1), b \in 0..Grid - 1
      PROVE  a + b >= 0 /\ a + b =< (e.count + 1) * (Grid - 1)
  <2> DEFINE n == e.count
             p == n * (Grid - 1)
  <2>1. (n + 1) * (Grid - 1) = p + (Grid - 1) /\ p \in Int /\ Grid \in Nat
    BY <1>0, LatticeIs
  <2> HIDE DEF p
  <2> QED BY <1>4, <2>1 DEF p
<1>5. f.sum[1] = e.sum[1] + x[1] /\ f.sum[2] = e.sum[2] + x[2] /\ f.sum[3] = e.sum[3] + x[3]
  BY <1>2 DEF Plus
<1>6. ASSUME NEW c \in 1..3 PROVE f.sum[c] >= 0 /\ f.sum[c] =< f.count * (Grid - 1)
  <2>1. c = 1 \/ c = 2 \/ c = 3
    BY <1>6
  <2>2. e.sum[c] \in Int /\ x[c] \in Int /\ x[c] \in 0..Grid - 1 /\ f.sum[c] = e.sum[c] + x[c]
    <3> HIDE DEF f
    <3> QED BY <1>1, <1>5, <2>1 DEF InCell
  <2>3. e.sum[c] >= 0 /\ e.sum[c] =< e.count * (Grid - 1)
    BY <1>6 DEF IsSum
  <2>4. e.sum[c] + x[c] >= 0 /\ e.sum[c] + x[c] =< (e.count + 1) * (Grid - 1)
    BY <1>4, <2>2, <2>3
  <2> HIDE DEF f
  <2> QED BY <1>2, <2>2, <2>4
<1> HIDE DEF f
<1>7. IsSum(f)
  BY <1>6 DEF IsSum
<1> QED BY <1>2, <1>7 DEF f

(* Each image is entered once, *)
LEMMA WithImageIs ==
  ASSUME NEW eps, NEW n \in Nat, NEW Y, NEW s, AreImages(eps, s, n, Y), NEW a \in Vectors
  PROVE  AreImages(eps, WithImage(L, eps, s, a), n + 1, Y \cup {a})
<1> DEFINE K == {k \in DOMAIN s : EqualPosition(L, eps, s[k].first, a)}
           ieq == FindEqualPosition(L, eps, s, a)
           t == WithImage(L, eps, s, a)
           u == UcvFractional(a)
<1>1. s \in Seq(SiteKind) /\ Len(s) \in Nat /\ DOMAIN s = 1..Len(s) /\ Len(s) =< n
  BY DEF AreImages
<1>2. u \in Vectors /\ InCell(u) /\ u[1] \in Int /\ u[2] \in Int /\ u[3] \in Int
  BY UcvIs, VectorsAre
<1>3. \A k \in 1..Len(s) : s[k] \in SiteKind
  BY <1>1
<1>4. CASE K = {}
  <2> DEFINE e == [first |-> a, sum |-> u, count |-> 1]
  <2>1. ieq = 0
    BY <1>4 DEF FindEqualPosition, FirstOf
  <2>2. t = Append(s, e)
    <3> HIDE DEF ieq
    <3> QED BY <2>1 DEF WithImage, ieq
  <2>3. e \in SiteKind /\ e.first = a /\ e.sum = u /\ e.count = 1
    BY <1>2 DEF SiteKind
  <2>4. IsSum(e) /\ IsOne(e)
    <3>1. \A c \in 1..3 : u[c] \in 0..Grid - 1
      BY <1>2 DEF InCell
    <3>2. Grid \in Nat
      BY LatticeIs
    <3> HIDE DEF e
    <3>3. ASSUME NEW c \in 1..3 PROVE u[c] >= 0 /\ u[c] =< 1 * (Grid - 1) /\ u[c] = 1 * u[c]
      BY <3>1, <3>2
    <3> QED BY <2>3, <3>3 DEF IsSum, IsOne
  <2> HIDE DEF e, t
  <2>5. /\ t \in Seq(SiteKind) /\ Len(t) = Len(s) + 1 /\ t[Len(s) + 1] = e
        /\ \A k \in 1..Len(s) : t[k] = s[k]
    BY <1>1, <2>2, <2>3
  <2>6. ASSUME NEW k \in 1..Len(t) PROVE (k \in 1..Len(s) /\ t[k] = s[k]) \/ (k = Len(s) + 1 /\ t[k] = e)
    BY <1>1, <2>5
  <2>7. \A k \in 1..Len(t) : IsSum(t[k])
    BY <2>4, <2>6 DEF AreImages
  <2>8. ASSUME eps = 0
        PROVE  /\ \A k \in 1..Len(t) : IsOne(t[k])
               /\ \A j, k \in 1..Len(t) : UcvFractional(t[j].first) = UcvFractional(t[k].first) => j = k
               /\ \A y \in Y \cup {a} : \E k \in 1..Len(t) : UcvFractional(t[k].first) = UcvFractional(y)
    <3>1. \A k \in 1..Len(t) : IsOne(t[k])
      BY <2>4, <2>6, <2>8 DEF AreImages
    <3>2. ASSUME NEW k \in 1..Len(s) PROVE UcvFractional(s[k].first) # u
      <4>1. s[k].first \in Vectors
        BY <1>3 DEF SiteKind
      <4>2. ~EqualPosition(L, 0, s[k].first, a)
        BY <1>1, <1>4, <2>8
      <4> QED BY <4>1, <4>2, EqualIs
    <3>3. ASSUME NEW j \in 1..Len(t), NEW k \in 1..Len(t),
                 UcvFractional(t[j].first) = UcvFractional(t[k].first)
          PROVE  j = k
      <4>1. ASSUME j \in 1..Len(s), k \in 1..Len(s), t[j] = s[j], t[k] = s[k] PROVE j = k
        BY <2>8, <3>3, <4>1 DEF AreImages
      <4>2. ASSUME NEW i \in 1..Len(s), t[i] = s[i] PROVE UcvFractional(t[i].first) # UcvFractional(e.first)
        BY <2>3, <3>2, <4>2
      <4> QED BY <2>6, <3>3, <4>1, <4>2
    <3>4. UcvFractional(t[Len(s) + 1].first) = u /\ Len(s) + 1 \in 1..Len(t)
      BY <1>1, <2>3, <2>5
    <3>5. ASSUME NEW y \in Y PROVE \E k \in 1..Len(t) : UcvFractional(t[k].first) = UcvFractional(y)
      <4>1. PICK k \in 1..Len(s) : UcvFractional(s[k].first) = UcvFractional(y)
        BY <2>8, <3>5 DEF AreImages
      <4>2. t[k] = s[k] /\ k \in 1..Len(t)
        BY <1>1, <2>5
      <4> QED BY <4>1, <4>2
    <3> QED BY <3>1, <3>3, <3>4, <3>5
  <2> QED BY <1>1, <2>5, <2>7, <2>8 DEF AreImages, t
<1>5. CASE K # {}
  <2>1. Min(K) \in K
    <3>1. K \subseteq Int /\ \A k \in K : 1 =< k
      BY <1>1
    <3> HIDE DEF K
    <3>2. PICK o \in Int : o = 1
      OBVIOUS
    <3> QED BY <1>5, <3>1, <3>2, MinIs
  <2>2. ieq \in 1..Len(s) /\ EqualPosition(L, eps, s[ieq].first, a) /\ ieq # 0
    <3>1. ieq = Min(K)
      BY <1>5 DEF FindEqualPosition, FirstOf
    <3> HIDE DEF ieq
    <3> QED BY <1>1, <2>1, <3>1
  <2> DEFINE e == [s[ieq] EXCEPT !.sum = Plus(@, u), !.count = @ + 1]
  <2> HIDE DEF ieq, K
  <2>3. t = [s EXCEPT ![ieq] = e]
    BY <2>2 DEF WithImage, ieq
  <2>4. s[ieq] \in SiteKind /\ IsSum(s[ieq])
    BY <1>3, <2>2 DEF AreImages
  <2>5. e \in SiteKind /\ IsSum(e)
    BY <1>2, <2>4, SumGrows
  <2>6. /\ e.first = s[ieq].first /\ e.sum = Plus(s[ieq].sum, u) /\ e.count = s[ieq].count + 1
        /\ s[ieq].count \in Nat /\ s[ieq].first \in Vectors
    BY <2>4 DEF SiteKind
  <2> HIDE DEF e, t
  <2>7. /\ t \in Seq(SiteKind) /\ Len(t) = Len(s) /\ t[ieq] = e
        /\ \A k \in 1..Len(s) : k # ieq => t[k] = s[k]
    BY <1>1, <2>2, <2>3, <2>5
  <2>8. \A k \in 1..Len(t) : IsSum(t[k])
    BY <2>5, <2>7 DEF AreImages
  <2>9. \A k \in 1..Len(t) : t[k].first = s[k].first
    BY <2>6, <2>7
  <2>10. ASSUME eps = 0
         PROVE  /\ \A k \in 1..Len(t) : IsOne(t[k])
                /\ \A j, k \in 1..Len(t) : UcvFractional(t[j].first) = UcvFractional(t[k].first) => j = k
                /\ \A y \in Y \cup {a} : \E k \in 1..Len(t) : UcvFractional(t[k].first) = UcvFractional(y)
    <3>1. u = UcvFractional(s[ieq].first)
      BY <2>2, <2>6, <2>10, EqualIs
    <3>2. IsOne(e)
      <4>1. IsOne(s[ieq])
        BY <2>2, <2>10 DEF AreImages
      <4> DEFINE v == UcvFractional(e.first)
      <4>2. v = u
        BY <2>6, <3>1
      <4>3. /\ e.sum[1] = s[ieq].sum[1] + u[1] /\ e.sum[2] = s[ieq].sum[2] + u[2]
            /\ e.sum[3] = s[ieq].sum[3] + u[3]
        BY <2>6 DEF Plus
      <4> HIDE DEF u, v
      <4>4. ASSUME NEW c \in 1..3 PROVE e.sum[c] = e.count * v[c]
        <5>1. c = 1 \/ c = 2 \/ c = 3
          BY <4>4
        <5>2. e.sum[c] = s[ieq].sum[c] + u[c] /\ u[c] \in Int
          BY <1>2, <4>3, <5>1
        <5>3. s[ieq].sum[c] = s[ieq].count * u[c]
          BY <3>1, <4>1, <4>4 DEF IsOne
        <5> DEFINE w == u[c]
                   m == s[ieq].count
        <5>4. m \in Int /\ w \in Int
          BY <2>6, <5>2
        <5>5. (m + 1) * w = m * w + w
          <6> HIDE DEF m, w
          <6> QED BY <5>4
        <5> QED BY <2>6, <4>2, <5>2, <5>3, <5>5
      <4> QED BY <4>4 DEF IsOne, v
    <3>3. \A k \in 1..Len(t) : IsOne(t[k])
      BY <2>7, <2>10, <3>2 DEF AreImages
    <3>4. UcvFractional(t[ieq].first) = u /\ ieq \in 1..Len(t)
      BY <2>2, <2>7, <2>9, <3>1
    <3>5. ASSUME NEW y \in Y PROVE \E k \in 1..Len(t) : UcvFractional(t[k].first) = UcvFractional(y)
      BY <2>7, <2>9, <2>10, <3>5 DEF AreImages
    <3>6. \A j, k \in 1..Len(t) : UcvFractional(t[j].first) = UcvFractional(t[k].first) => j = k
      BY <2>7, <2>9, <2>10 DEF AreImages
    <3> QED BY <3>3, <3>4, <3>5, <3>6 DEF u
  <2> QED BY <1>1, <2>2, <2>7, <2>8, <2>10 DEF AreImages, t
<1> QED BY <1>4, <1>5

(* The images of the first n operations. *)
Imaging(f, ops, eps, x, n) ==
  IF n = 0 THEN <<>> ELSE WithImage(L, eps, f[n - 1], Image(ops[n], x))

(* and so are those of all operations. *)
LEMMA DuplicatesAre ==
  ASSUME NEW ops \in Seq(SymOps), NEW eps, NEW x \in Vectors
  PROVE  AreImages(eps, Duplicates(L, ops, eps, x), Len(ops), {Image(ops[j], x) : j \in 1..Len(ops)})
<1> DEFINE Good(f, k) == f = [n \in 0..k |-> Imaging(f, ops, eps, x, n)]
           T == {k \in Nat : \A f : ~Good(f, k)}
<1>1. T = {}
  <2>1. SUFFICES ASSUME T # {} PROVE FALSE
    OBVIOUS
  <2>2. PICK k \in T : \A j \in T : k =< j
    <3> HIDE DEF Good
    <3>1. T \subseteq Nat
      OBVIOUS
    <3> HIDE DEF T
    <3> QED BY <2>1, <3>1, LeastNatural
  <2>3. k \in Nat /\ \A f : ~Good(f, k)
    BY <2>2
  <2>4. CASE k = 0
    <3> DEFINE f == [n \in {0} |-> <<>>]
    <3>1. 0..0 = {0}
      OBVIOUS
    <3>2. f = [n \in 0..0 |-> Imaging(f, ops, eps, x, n)]
      <4>1. \A n \in {0} : Imaging(f, ops, eps, x, n) = <<>>
        BY DEF Imaging
      <4>2. [n \in {0} |-> Imaging(f, ops, eps, x, n)] = f
        <5> DEFINE S(n) == Imaging(f, ops, eps, x, n)
        <5> HIDE DEF S
        <5>1. \A n \in {0} : S(n) = <<>>
          BY <4>1 DEF S
        <5>2. [n \in {0} |-> S(n)] = [n \in {0} |-> <<>>]
          BY <5>1, Zenon
        <5> QED BY <5>2 DEF S
      <4> HIDE DEF f
      <4> QED BY <3>1, <4>2
    <3> QED BY <2>3, <2>4, <3>2
  <2>5. CASE k # 0
    <3>1. k - 1 \in Nat /\ k - 1 \notin T
      <4>1. k - 1 \in Nat /\ ~(k =< k - 1)
        BY <2>3, <2>5
      <4> HIDE DEF T
      <4> QED BY <2>2, <4>1
    <3>2. PICK f : Good(f, k - 1)
      BY <3>1, Zenon
    <3> DEFINE e == [n \in 0..k |-> IF n < k THEN f[n] ELSE Imaging(f, ops, eps, x, k)]
    <3>3. ASSUME NEW n \in 0..k - 1 PROVE e[n] = f[n]
      <4>1. n \in 0..k /\ n < k
        BY <2>3
      <4> QED BY <4>1
    <3>4. ASSUME NEW n \in 0..k PROVE e[n] = Imaging(e, ops, eps, x, n)
      <4>1. e[n] = Imaging(f, ops, eps, x, n)
        <5>1. CASE n = k
          <6>1. k \in 0..k /\ ~(k < k)
            BY <2>3
          <6>2. e[k] = Imaging(f, ops, eps, x, k)
            BY <6>1
          <6> HIDE DEF e
          <6> QED BY <5>1, <6>2
        <5>2. CASE n # k
          <6>1. n \in 0..k - 1
            BY <2>3, <5>2
          <6>2. f[n] = Imaging(f, ops, eps, x, n)
            <7> DEFINE S(i) == Imaging(f, ops, eps, x, i)
            <7> HIDE DEF S
            <7>1. f = [i \in 0..k - 1 |-> S(i)]
              BY <3>2 DEF S
            <7>2. f[n] = S(n)
              BY <6>1, <7>1
            <7> QED BY <7>2 DEF S
          <6>3. e[n] = f[n]
            BY <3>3, <6>1
          <6> HIDE DEF e
          <6> QED BY <6>2, <6>3
        <5> QED BY <5>1, <5>2
      <4>2. Imaging(f, ops, eps, x, n) = Imaging(e, ops, eps, x, n)
        <5>1. CASE n = 0
          BY <5>1 DEF Imaging
        <5>2. CASE n # 0
          <6>1. n - 1 \in 0..k - 1
            BY <2>3, <5>2
          <6>2. e[n - 1] = f[n - 1]
            BY <3>3, <6>1
          <6> HIDE DEF e
          <6> QED BY <6>2 DEF Imaging
        <5> QED BY <5>1, <5>2
      <4> HIDE DEF e
      <4> QED BY <4>1, <4>2
    <3>5. e = [n \in 0..k |-> e[n]]
      <4> DEFINE X(n) == IF n < k THEN f[n] ELSE Imaging(f, ops, eps, x, k)
      <4> HIDE DEF X
      <4>1. [n \in 0..k |-> X(n)] = [n \in 0..k |-> [i \in 0..k |-> X(i)][n]]
        OBVIOUS
      <4> QED BY <4>1 DEF X
    <3>6. Good(e, k)
      <4> HIDE DEF e
      <4> DEFINE S(n) == Imaging(e, ops, eps, x, n)
      <4> HIDE DEF S
      <4>1. \A n \in 0..k : e[n] = S(n)
        BY <3>4 DEF S
      <4>2. e = [n \in 0..k |-> S(n)]
        BY <3>5, <4>1
      <4> QED BY <4>2 DEF S
    <3> QED BY <2>3, <3>6, Zenon
  <2> QED BY <2>4, <2>5
<1>2. Len(ops) \in Nat
  OBVIOUS
<1>3. \E f : Good(f, Len(ops))
  BY <1>1, <1>2, Zenon
<1> DEFINE sites == CHOOSE f : Good(f, Len(ops))
<1>4. Good(sites, Len(ops)) /\ Duplicates(L, ops, eps, x) = sites[Len(ops)]
  <2>1. Duplicates(L, ops, eps, x) = sites[Len(ops)]
    BY Zenon DEF Duplicates, Imaging
  <2> HIDE DEF Good
  <2> QED BY <1>3, <2>1, Zenon
<1> HIDE DEF sites
<1>5. ASSUME NEW n \in 0..Len(ops) PROVE sites[n] = Imaging(sites, ops, eps, x, n)
  <2> DEFINE S(i) == Imaging(sites, ops, eps, x, i)
  <2> HIDE DEF S
  <2>1. sites = [i \in 0..Len(ops) |-> S(i)]
    BY <1>4 DEF S
  <2>2. sites[n] = S(n)
    BY <2>1
  <2> QED BY <2>2 DEF S
<1> DEFINE Ys(n) == {Image(ops[j], x) : j \in 1..n}
           U == {n \in 0..Len(ops) : ~AreImages(eps, sites[n], n, Ys(n))}
<1>6. U = {}
  <2>1. SUFFICES ASSUME U # {} PROVE FALSE
    OBVIOUS
  <2>2. PICK n \in U : \A j \in U : n =< j
    <3>1. U \subseteq Nat
      OBVIOUS
    <3> HIDE DEF U
    <3> QED BY <2>1, <3>1, LeastNatural
  <2>3. n \in 0..Len(ops) /\ n \in Nat /\ ~AreImages(eps, sites[n], n, Ys(n))
    BY <2>2
  <2>4. sites[n] = Imaging(sites, ops, eps, x, n)
    BY <1>5, <2>3
  <2>5. CASE n = 0
    <3>1. sites[n] = <<>>
      BY <2>4, <2>5 DEF Imaging
    <3>2. AreImages(eps, <<>>, n, Ys(n))
      <4>1. 1..n = {}
        BY <2>5
      <4>2. Ys(n) = {}
        BY <4>1
      <4> QED BY <2>5, <4>2 DEF AreImages
    <3> QED BY <2>3, <3>1, <3>2
  <2>6. CASE n # 0
    <3>1. n - 1 \in 0..Len(ops) /\ n - 1 \in Nat /\ ~(n =< n - 1) /\ n \in 1..Len(ops) /\ n - 1 + 1 = n
      BY <2>3, <2>6
    <3>2. n - 1 \notin U
      <4> HIDE DEF U
      <4> QED BY <2>2, <3>1
    <3>3. AreImages(eps, sites[n - 1], n - 1, Ys(n - 1))
      BY <3>1, <3>2
    <3>4. ops[n] \in SymOps
      BY <3>1
    <3>5. Image(ops[n], x) \in Vectors
      BY <3>4, ImageIs
    <3>6. Ys(n) = Ys(n - 1) \cup {Image(ops[n], x)}
      <4>1. 1..n = (1..n - 1) \cup {n}
        BY <3>1
      <4> QED BY <4>1
    <3> HIDE DEF Ys
    <3>7. AreImages(eps, WithImage(L, eps, sites[n - 1], Image(ops[n], x)), n - 1 + 1, Ys(n))
      <4> DEFINE k == n - 1
                 s == sites[k]
                 a == Image(ops[n], x)
      <4>1. k \in Nat /\ a \in Vectors /\ AreImages(eps, s, k, Ys(k)) /\ Ys(n) = Ys(k) \cup {a}
        BY <3>1, <3>3, <3>5, <3>6
      <4> HIDE DEF k, s, a
      <4>2. AreImages(eps, WithImage(L, eps, s, a), k + 1, Ys(k) \cup {a})
        BY <4>1, WithImageIs
      <4> QED BY <4>1, <4>2 DEF k, s, a
    <3> QED BY <2>3, <2>4, <2>6, <3>1, <3>7 DEF Imaging
  <2> QED BY <2>5, <2>6
<1>7. Len(ops) \in 0..Len(ops)
  BY <1>2
<1> QED BY <1>4, <1>6, <1>7

(* The mean of equal numbers. *)
LEMMA QuotientIs ==
  ASSUME NEW n \in Nat \ {0}, NEW z \in Int
  PROVE  (n * z) \div n = z
<1> DEFINE p == n * z
           q == p \div n
           w == n * (z - q)
           v == n * q
<1>1. p \in Int
  OBVIOUS
<1> HIDE DEF p
<1>2. p = v + (p % n) /\ p % n \in 0..n - 1 /\ q \in Int
  BY <1>1
<1> HIDE DEF q
<1>3. n * (z - q) = n * z - n * q
  BY <1>2
<1>4. w = p - v /\ w \in Int /\ v \in Int
  BY <1>2, <1>3 DEF p
<1>5. (z - q >= 1 => w >= n) /\ (z - q =< -1 => w =< -n)
  <2> DEFINE e == z - q
  <2>1. e \in Int
    BY <1>2
  <2> HIDE DEF e
  <2>2. (e >= 1 => n * e >= n) /\ (e =< -1 => n * e =< -n)
    BY <2>1
  <2> QED BY <2>2 DEF e
<1> HIDE DEF w, v
<1>6. z = q
  BY <1>1, <1>2, <1>4, <1>5
<1> QED BY <1>6 DEF q, p

(* The positions of a site. *)
LEMMA ExpandedIs ==
  ASSUME NEW ops \in Seq(SymOps), NEW eps, NEW x \in Vectors
  PROVE  LET places == ExpandLatticeAtom(L, ops, eps, x)
         IN  /\ places \in Seq(Vectors) /\ places # <<>> /\ Len(places) =< Len(ops) + 1
             /\ ops = <<>> => places = <<x>>
             /\ ops # <<>> => \A k \in DOMAIN places : InCell(places[k])
             /\ ops # <<>> /\ eps = 0 =>
                  /\ \A k, l \in DOMAIN places : places[k] = places[l] => k = l
                  /\ \A j \in DOMAIN ops : \E k \in DOMAIN places :
                       places[k] = UcvFractional(Image(ops[j], x))
<1> DEFINE places == ExpandLatticeAtom(L, ops, eps, x)
           s == Duplicates(L, ops, eps, x)
<1>1. CASE ops = <<>>
  BY <1>1 DEF ExpandLatticeAtom
<1>2. CASE ops # <<>>
  <2>1. places = [k \in DOMAIN s |-> Mean(s[k])]
    BY <1>2 DEF ExpandLatticeAtom
  <2>2. AreImages(eps, s, Len(ops), {Image(ops[j], x) : j \in 1..Len(ops)}) /\ Len(ops) \in Nat /\ Len(ops) # 0
    BY <1>2, DuplicatesAre
  <2> HIDE DEF s, places
  <2>3. s \in Seq(SiteKind) /\ Len(s) \in Nat /\ Len(s) # 0 /\ Len(s) =< Len(ops) /\ DOMAIN s = 1..Len(s)
    BY <2>2 DEF AreImages
  <2>4. ASSUME NEW k \in 1..Len(s)
        PROVE  Mean(s[k]) \in Vectors /\ InCell(Mean(s[k])) /\ s[k].first \in Vectors
    <3>1. s[k] \in SiteKind /\ IsSum(s[k])
      BY <2>2, <2>3 DEF AreImages
    <3>2. s[k].sum \in Vectors /\ s[k].count \in Nat \ {0} /\ s[k].first \in Vectors
      BY <3>1 DEF SiteKind
    <3> DEFINE e == s[k]
               n == e.count
               v == e.sum
    <3>3. v[1] \in Int /\ v[2] \in Int /\ v[3] \in Int
      BY <3>2, VectorsAre
    <3>4. ASSUME NEW a \in Int, a >= 0, a =< n * (Grid - 1) PROVE a \div n \in 0..Grid - 1
      <4> HIDE DEF n
      <4>1. n \in Nat \ {0} /\ Grid \in Nat \ {0}
        BY <3>2, LatticeIs DEF n
      <4> DEFINE q == a \div n
                 w == n * q
      <4>2. a = w + (a % n) /\ a % n \in 0..n - 1 /\ q \in Int
        BY <3>4, <4>1
      <4> HIDE DEF q
      <4>3. w \in Int /\ (q =< -1 => w =< -n)
        BY <4>1, <4>2
      <4>4. ASSUME q >= Grid PROVE FALSE
        <5>1. w >= n * Grid
          BY <4>1, <4>2, <4>4
        <5>2. n * (Grid - 1) = n * Grid - n /\ n * Grid \in Int
          BY <4>1
        <5> HIDE DEF w
        <5> DEFINE z == n * Grid
        <5> HIDE DEF z
        <5>3. w >= z /\ a =< z - n /\ z \in Int
          BY <3>4, <5>1, <5>2 DEF z
        <5> QED BY <3>4, <4>1, <4>2, <4>3, <5>3
      <4> HIDE DEF w
      <4>5. q >= 0
        BY <3>4, <4>1, <4>2, <4>3
      <4> QED BY <4>1, <4>2, <4>4, <4>5 DEF q
    <3>5. \A c \in 1..3 : v[c] \div n \in 0..Grid - 1
      <4>1. \A c \in 1..3 : v[c] >= 0 /\ v[c] =< n * (Grid - 1)
        BY <3>1 DEF IsSum
      <4>2. \A c \in 1..3 : v[c] \in Int
        <5>1. \A c \in 1..3 : c = 1 \/ c = 2 \/ c = 3
          OBVIOUS
        <5> HIDE DEF v
        <5> QED BY <3>3, <5>1
      <4> HIDE DEF v, n
      <4> QED BY <3>4, <4>1, <4>2
    <3>6. \A c \in 1..3 : Mean(s[k])[c] = v[c] \div n
      BY DEF Mean
    <3>7. InCell(Mean(s[k]))
      BY <3>5, <3>6 DEF InCell
    <3>8. Mean(s[k]) \in Vectors
      <4>1. e.sum[1] \in Int /\ e.sum[2] \in Int /\ e.sum[3] \in Int /\ e.count \in Nat \ {0}
        BY <3>2, <3>3
      <4> HIDE DEF e
      <4>2. e.sum[1] \div e.count \in Int /\ e.sum[2] \div e.count \in Int /\ e.sum[3] \div e.count \in Int
        <5>1. ASSUME NEW a \in Int, NEW b \in Nat \ {0}
              PROVE  a \div b \in Int
          OBVIOUS
        <5> QED BY <4>1, <5>1, Zenon
      <4>3. Mean(e) \in [1..3 -> Int]
        <5> DEFINE M(c) == e.sum[c] \div e.count
        <5>1. M(1) \in Int /\ M(2) \in Int /\ M(3) \in Int /\ Mean(e) = [c \in 1..3 |-> M(c)]
          BY <4>2 DEF Mean
        <5> HIDE DEF M
        <5> QED BY <5>1
      <4>4. Mean(e) \in Vectors
        BY <4>3 DEF Vectors
      <4> QED BY <4>4 DEF e
    <3> QED BY <3>2, <3>7, <3>8
  <2>5. places \in Seq(Vectors) /\ Len(places) = Len(s) /\ DOMAIN places = 1..Len(s)
        /\ \A k \in 1..Len(s) : places[k] = Mean(s[k])
    <3> DEFINE M(k) == Mean(s[k])
    <3> HIDE DEF M
    <3>1. \A k \in 1..Len(s) : M(k) \in Vectors
      BY <2>4 DEF M
    <3>2. places = [k \in 1..Len(s) |-> M(k)]
      BY <2>1, <2>3 DEF M
    <3>3. places \in Seq(Vectors) /\ Len(places) = Len(s) /\ DOMAIN places = 1..Len(s)
          /\ \A k \in 1..Len(s) : places[k] = M(k)
      BY <2>3, <3>1, <3>2
    <3> QED BY <3>3 DEF M
  <2>6. ASSUME eps = 0, NEW j \in 1..Len(s) PROVE Mean(s[j]) = UcvFractional(s[j].first)
    <3>1. s[j] \in SiteKind /\ IsOne(s[j]) /\ s[j].first \in Vectors
      BY <2>2, <2>3, <2>4, <2>6 DEF AreImages
    <3> DEFINE u == UcvFractional(s[j].first)
               n == s[j].count
    <3>2. n \in Nat \ {0} /\ u \in Vectors /\ u[1] \in Int /\ u[2] \in Int /\ u[3] \in Int
          /\ u = <<u[1], u[2], u[3]>>
      BY <3>1, UcvIs, VectorsAre DEF SiteKind
    <3>3. \A c \in 1..3 : s[j].sum[c] = n * u[c]
      BY <3>1 DEF IsOne
    <3> HIDE DEF u, n
    <3>4. ASSUME NEW z \in Int PROVE (n * z) \div n = z
      BY <3>2, QuotientIs
    <3>5. \A c \in 1..3 : Mean(s[j])[c] = (n * u[c]) \div n
      BY <3>3 DEF Mean, n
    <3>6. Mean(s[j])[1] = u[1] /\ Mean(s[j])[2] = u[2] /\ Mean(s[j])[3] = u[3]
      <5>1. Mean(s[j])[1] = (n * u[1]) \div n /\ Mean(s[j])[2] = (n * u[2]) \div n
            /\ Mean(s[j])[3] = (n * u[3]) \div n
        BY <3>5
      <5> QED BY <3>2, <3>4, <5>1
    <3>7. Mean(s[j]) \in Vectors
      BY <2>4
    <3>8. Mean(s[j]) = <<Mean(s[j])[1], Mean(s[j])[2], Mean(s[j])[3]>>
      BY <3>7, VectorsAre
    <3> QED BY <3>2, <3>6, <3>8 DEF u
  <2>7. ASSUME eps = 0, NEW k \in 1..Len(s), NEW l \in 1..Len(s), places[k] = places[l] PROVE k = l
    <3>1. UcvFractional(s[k].first) = UcvFractional(s[l].first)
      BY <2>5, <2>6, <2>7
    <3> QED BY <2>2, <2>7, <3>1 DEF AreImages
  <2>8. ASSUME eps = 0, NEW j \in 1..Len(ops)
        PROVE  \E k \in 1..Len(s) : places[k] = UcvFractional(Image(ops[j], x))
    <3>1. PICK k \in 1..Len(s) : UcvFractional(s[k].first) = UcvFractional(Image(ops[j], x))
      BY <2>2, <2>8 DEF AreImages
    <3> QED BY <2>5, <2>6, <2>8, <3>1
  <2>9. DOMAIN ops = 1..Len(ops)
    OBVIOUS
  <2> QED BY <1>2, <2>2, <2>3, <2>4, <2>5, <2>7, <2>8, <2>9 DEF places
<1> QED BY <1>1, <1>2

-----------------------------------------------------------------------------
(* Bonds and positions.                                                    *)

(* Limits on the grid. *)
LEMMA ScaledIs ==
  ASSUME NEW r \in Nat
  PROVE  Scaled(r) = (Grid * r) * (Grid * r) /\ Scaled(r) \in Nat
<1>1. Grid \in Nat
  BY LatticeIs
<1> DEFINE x == Grid * r
<1>2. x \in Nat
  BY <1>1
<1> HIDE DEF x
<1>3. x * x \in Nat /\ SignedSquare(x) = x * x
  BY <1>2 DEF SignedSquare, Square
<1> QED BY <1>3 DEF Scaled, x

(* The generator stands at a lattice point, or at the origin if there is none. *)
LEMMA PointCases ==
  ASSUME NEW g, Ready(g), NEW q \in AllOf(g), kind # "atomic"
  PROVE  LET B == Ball(g)
             p == q.msphere
         IN  /\ p \in Turns(B) /\ p.m \in Int /\ p.n \in Int /\ p.o \in Int
             /\ \/ /\ p.o \in PointsOn(B, p.m, p.n) /\ p \in SphereAll(B)
                   /\ Point(p) = <<Grid * p.m, Grid * p.n, Grid * p.o>>
                \/ SphereAll(B) = {} /\ p = At(B, HiM(B), 0, 0) /\ Point(p) = <<0, 0, 0>>
<1> DEFINE B == Ball(g)
           p == q.msphere
<1>1. p \in Turns(B) /\ p \in Walk(B)
  BY AllOfIs
<1>2. IsSphere(B) /\ MaxRadius \in Nat
  BY BallIs, LatticeIs
<1> HIDE DEF B, p
<1>3. p.m \in Int /\ p.n \in Int /\ p.o \in Int
  BY <1>1, <1>2, TurnsAre
<1>4. CASE SphereAll(B) = {}
  <2>1. p = At(B, HiM(B), 0, 0)
    BY <1>1, <1>4 DEF Walk
  <2>2. B.m \in Int
    BY <1>2 DEF IsSphere
  <2>3. HiM(B) \in Int
    BY <1>2, <2>2, HiMIs
  <2>4. p.m = HiM(B)
    BY <1>2, <2>1, <2>3, AtIs
  <2>5. HiM(p) = HiM(B)
    BY <1>1, <1>2, TurnsAre
  <2>6. Finished(p)
    BY <2>3, <2>4, <2>5 DEF Finished
  <2> QED BY <1>1, <1>3, <1>4, <2>1, <2>6 DEF Point, B, p
<1>5. CASE SphereAll(B) # {}
  <2>1. p \in SphereAll(B)
    BY <1>1, <1>5 DEF Walk
  <2>2. ~Finished(p)
    BY <1>2, <2>1, PointIsWithin
  <2>3. p.o \in PointsOn(B, p.m, p.n)
    BY <2>1 DEF SphereAll
  <2> QED BY <1>1, <1>3, <2>1, <2>2, <2>3 DEF Point, B, p
<1> QED BY <1>4, <1>5

(***************************************************************************)
(* The lattice point of a generator is one of those that copies are told   *)
(* by.                                                                     *)
(***************************************************************************)
LEMMA PointIsNear ==
  ASSUME NEW g, Ready(g), NEW q \in AllOf(g), kind # "atomic"
  PROVE  Cartesian(L, Point(q.msphere)) \in PointsNear[g.rmax] /\ Point(q.msphere) \in Vectors
<1> DEFINE B == Ball(g)
           p == q.msphere
           r == <<g.rmin, g.rmax>>
           D == MaxDiagonal
           c == Cartesian(L, Point(p))
           E == g.rmax + 2 * D
<1>1. /\ IsSphere(B) /\ B.L = L /\ B.Rmax = g.rmax + D /\ MaxRadius \in Nat
      /\ D \in Nat /\ Grid \in Nat \ {0} /\ MaxIndex \in Nat
  BY BallIs, LatticeIs, BoundsAssumption
<1>2. r \in Radii /\ r[2] = g.rmax /\ g.rmax \in Nat /\ E \in Nat
  BY <1>1, GeneratorIs DEF Ready
<1>3. ASSUME NEW m \in Reach, NEW n \in Reach, NEW o \in Reach,
             Point(p) = <<Grid * m, Grid * n, Grid * o>>, Normsq(c) =< Scaled(E)
      PROVE  c \in PointsNear[g.rmax] /\ Point(p) \in Vectors
  <2> HIDE DEF r, E, p
  <2>1. g.rmax \in {x[2] : x \in Radii}
    BY <1>2
  <2>2. m \in Int /\ n \in Int /\ o \in Int
    BY <1>1 DEF Reach
  <2>3. Point(p) \in Vectors
    BY <1>1, <1>3, <2>2 DEF Vectors
  <2>4. c \in {Cartesian(L, <<Grid * i, Grid * j, Grid * k>>) : i, j, k \in Reach}
    BY <1>3
  <2> HIDE DEF c
  <2> QED BY <1>3, <2>1, <2>3, <2>4 DEF PointsNear, E
<1>4. \/ /\ p.o \in PointsOn(B, p.m, p.n) /\ p \in SphereAll(B)
         /\ Point(p) = <<Grid * p.m, Grid * p.n, Grid * p.o>>
      \/ SphereAll(B) = {} /\ p = At(B, HiM(B), 0, 0) /\ Point(p) = <<0, 0, 0>>
  BY PointCases
<1>5. p.m \in Int /\ p.n \in Int /\ p.o \in Int
  BY PointCases
<1>6. CASE /\ p.o \in PointsOn(B, p.m, p.n)
           /\ Point(p) = <<Grid * p.m, Grid * p.n, Grid * p.o>>
  <2> DEFINE f == Far(B, p.m, p.n, p.o)
  <2> HIDE DEF B, p, r
  <2>1. f < SignedSquare(B.Rmax)
    BY <1>1, <1>5, <1>6, PointsAre
  <2>2. p.m \in Reach /\ p.n \in Reach /\ p.o \in Reach
    BY <1>1, <1>2, <1>5, <2>1, IndicesAre
  <2>3. f \in Nat /\ Normsq(c) = (Grid * Grid) * f
    BY <1>1, <1>5, <1>6, PointFar DEF LatticePoint
  <2> DEFINE e == g.rmax + D
             s == e * e
             G == Grid
  <2>4. e \in Nat /\ e =< E /\ SignedSquare(B.Rmax) = s
    BY <1>1, <1>2 DEF SignedSquare, Square
  <2>5. f =< s /\ s \in Nat
    BY <2>1, <2>3, <2>4
  <2> HIDE DEF f, e, E
  <2>6. s =< E * E /\ E * E \in Nat
    <3>1. e * e =< e * E
      BY <1>2, <2>4
    <3>2. e * E =< E * E
      BY <1>2, <2>4
    <3> QED BY <1>2, <2>4, <3>1, <3>2
  <2> DEFINE t == E * E
             G2 == G * G
  <2>7. G2 \in Nat
    BY <1>1
  <2>8. f =< t /\ t \in Nat
    BY <2>3, <2>5, <2>6
  <2>9. Scaled(E) = G2 * t
    <3>1. Scaled(E) = (G * E) * (G * E)
      BY <1>2, ScaledIs
    <3>2. (G * E) * (G * E) = (G * G) * (E * E)
      BY <1>1, <1>2
    <3> QED BY <3>1, <3>2
  <2> HIDE DEF t, G2
  <2>10. G2 * f =< G2 * t
    BY <2>3, <2>7, <2>8
  <2>11. Normsq(c) =< Scaled(E)
    BY <2>3, <2>9, <2>10 DEF G2, G
  <2> HIDE DEF c
  <2>12. c \in PointsNear[g.rmax] /\ Point(p) \in Vectors
    BY <1>3, <1>6, <2>2, <2>11
  <2> QED BY <2>12 DEF c, p
<1>7. CASE Point(p) = <<0, 0, 0>>
  <2>1. PICK z \in Reach : z = 0
    BY <1>1 DEF Reach
  <2>2. Point(p) = <<Grid * z, Grid * z, Grid * z>>
    BY <1>1, <1>7, <2>1
  <2>3. c = <<0, 0, 0>>
    BY <1>7, LatticeAssumption DEF Cartesian, Inner, Column, Matrices, Vectors
  <2>4. Normsq(c) = 0
    BY <2>3 DEF Normsq, Inner
  <2>5. Normsq(c) =< Scaled(E)
    BY <1>2, <2>4, ScaledIs
  <2> HIDE DEF c, p, E
  <2>6. c \in PointsNear[g.rmax] /\ Point(p) \in Vectors
    BY <1>3, <2>1, <2>2, <2>5
  <2> QED BY <2>6 DEF c, p
<1> QED BY <1>4, <1>6, <1>7

(* The position of a bond. *)
LEMMA BondIs ==
  ASSUME NEW g, Ready(g), NEW q \in AllOf(g)
  PROVE  LET place == Places(Site1(q))[q.symidx]
         IN  /\ Bond(q) = <<Site1(q), R1(q)>> /\ place \in Vectors /\ q.r0 = g.r0 /\ q.sites = g.sites
             /\ q.rmin = g.rmin /\ q.rmax = g.rmax /\ g.r0 \in Vectors
             /\ q.symidx \in DOMAIN Places(Site1(q)) /\ q.current \in DOMAIN g.sites
             /\ kind = "atomic" => R1(q) = Cartesian(L, place)
             /\ kind # "atomic" => /\ R1(q) = Cartesian(L, Plus(place, Point(q.msphere)))
                                   /\ Point(q.msphere) \in Vectors
             /\ R1(q) \in Vectors
             /\ DistanceSq(q) = Normsq(Minus(R1(q), g.r0)) /\ DistanceSq(q) \in Nat
<1> DEFINE place == Places(Site1(q))[q.symidx]
<1>1. /\ q \in Looping(g) /\ q.symidx \in 1..Len(Places(Site1(q))) /\ Site1(q) \in Sites
      /\ q.current \in 1..Len(g.sites)
  BY AllOfIs
<1>2. q.r0 = g.r0 /\ q.sites = g.sites /\ q.rmin = g.rmin /\ q.rmax = g.rmax
  BY <1>1 DEF Looping, Configured
<1>3. g.r0 \in Vectors /\ DOMAIN g.sites = 1..Len(g.sites)
  BY GeneratorIs DEF Ready
<1>4. Places(Site1(q)) \in Seq(Vectors)
  BY <1>1 DEF Ready
<1>5. place \in Vectors /\ q.symidx \in DOMAIN Places(Site1(q))
  BY <1>1, <1>4
<1>6. kind # "atomic" => Point(q.msphere) \in Vectors
  BY PointIsNear
<1>7. /\ kind = "atomic" => R1(q) = Cartesian(L, place)
      /\ kind # "atomic" => R1(q) = Cartesian(L, Plus(place, Point(q.msphere)))
  BY DEF R1
<1> HIDE DEF place
<1>8. R1(q) \in Vectors
  <2>1. CASE kind = "atomic"
    BY <1>5, <1>7, <2>1, VectorsAre
  <2>2. CASE kind # "atomic"
    <3>1. Plus(place, Point(q.msphere)) \in Vectors
      BY <1>5, <1>6, <2>2, VectorsAre
    <3> QED BY <1>7, <2>2, <3>1, VectorsAre
  <2> QED BY <2>1, <2>2
<1>9. Minus(R1(q), g.r0) \in Vectors
  BY <1>3, <1>8, VectorsAre
<1>10. DistanceSq(q) = Normsq(Minus(R1(q), g.r0)) /\ DistanceSq(q) \in Nat
  BY <1>2, <1>9, Cauchy DEF DistanceSq
<1> QED BY <1>1, <1>2, <1>3, <1>5, <1>6, <1>7, <1>8, <1>10 DEF Bond, place

(* Valid bonds are bonds within the limits, *)
LEMMA BondIsInRange ==
  ASSUME NEW g, Ready(g), NEW q \in AllOf(g), Valid(q)
  PROVE  Bond(q) \in BondsInRange(g)
<1> DEFINE i == Site1(q)
           place == Places(i)[q.symidx]
           c == R1(q)
           points == IF kind = "atomic" THEN {<<0, 0, 0>>} ELSE PointsNear[g.rmax]
           places == {Cartesian(L, Places(i)[k]) : k \in DOMAIN Places(i)}
           dd == Normsq(Minus(c, g.r0))
<1>1. /\ Bond(q) = <<i, c>> /\ place \in Vectors /\ q.r0 = g.r0 /\ q.sites = g.sites
      /\ q.rmin = g.rmin /\ q.rmax = g.rmax /\ q.symidx \in DOMAIN Places(i)
      /\ q.current \in DOMAIN g.sites
      /\ kind = "atomic" => c = Cartesian(L, place)
      /\ kind # "atomic" => /\ c = Cartesian(L, Plus(place, Point(q.msphere)))
                            /\ Point(q.msphere) \in Vectors
      /\ DistanceSq(q) = dd /\ dd \in Nat
  BY BondIs
<1>2. i \in {g.sites[k] : k \in DOMAIN g.sites}
  BY <1>1 DEF Site1
<1>3. ~GeneratorFinished(q) /\ g.rmin \in Nat /\ g.rmax \in Nat
  BY AllOfIs, GeneratorIs DEF Ready
<1> HIDE DEF dd
<1>4. ~BondOutOfRange(q, dd) /\ ~AtSelfPair(dd)
  BY <1>1, <1>3 DEF Valid
<1>5. dd \in 1..Scaled(g.rmax) /\ dd >= Scaled(g.rmin)
  <2>1. Scaled(g.rmin) \in Nat /\ Scaled(g.rmax) \in Nat
    BY <1>3, ScaledIs
  <2> QED BY <1>1, <1>4, <2>1 DEF BondOutOfRange, AtSelfPair
<1>6. \E x \in places, p \in points : c = Plus(x, p)
  <2>1. Cartesian(L, place) \in places
    BY <1>1
  <2>2. Cartesian(L, place) \in Vectors
    BY <1>1, VectorsAre
  <2>3. CASE kind = "atomic"
    <3>1. <<0, 0, 0>> \in points
      BY <2>3
    <3>2. Cartesian(L, place) = Plus(Cartesian(L, place), <<0, 0, 0>>)
      <4> DEFINE v == Cartesian(L, place)
      <4>1. v[1] \in Int /\ v[2] \in Int /\ v[3] \in Int /\ v = <<v[1], v[2], v[3]>>
        BY <2>2, VectorsAre
      <4> HIDE DEF v
      <4>2. v[1] + 0 = v[1] /\ v[2] + 0 = v[2] /\ v[3] + 0 = v[3]
        BY <4>1
      <4>3. v = Plus(v, <<0, 0, 0>>)
        BY <4>1, <4>2 DEF Plus
      <4> QED BY <4>3 DEF v
    <3> QED BY <1>1, <2>1, <2>3, <3>1, <3>2
  <2>4. CASE kind # "atomic"
    <3>1. Cartesian(L, Point(q.msphere)) \in points
      BY <2>4, PointIsNear
    <3>2. c = Plus(Cartesian(L, place), Cartesian(L, Point(q.msphere)))
      BY <1>1, <2>4, VectorsAre
    <3> QED BY <2>1, <3>1, <3>2
  <2> QED BY <2>3, <2>4
<1> HIDE DEF c, place, i, places, points
<1>7. c \in Copies(i, g.r0, g.rmax)
  <2>1. Copies(i, g.r0, g.rmax) =
          {v \in {Plus(x, p) : x \in places, p \in points} : Normsq(Minus(v, g.r0)) \in 1..Scaled(g.rmax)}
    BY DEF Copies, places, points
  <2>2. c \in {Plus(x, p) : x \in places, p \in points}
    BY <1>6
  <2> QED BY <1>5, <2>1, <2>2 DEF dd
<1>8. c \in {v \in Copies(i, g.r0, g.rmax) : Normsq(Minus(v, g.r0)) >= Scaled(g.rmin)}
  BY <1>5, <1>7 DEF dd
<1> QED BY <1>1, <1>2, <1>8 DEF BondsInRange

(* No two positions of a site are the same in different cells. *)
PlacesAreApart ==
  \A i \in Sites :
    /\ \A k, l \in DOMAIN Places(i) : Places(i)[k] = Places(i)[l] => k = l
    /\ Len(Places(i)) = 1 \/ \A k \in DOMAIN Places(i) : InCell(Places(i)[k])

(* Positions of one loop with equal indices are equal. *)
LEMMA SameIs ==
  ASSUME NEW g, NEW a \in Looping(g), NEW b \in Looping(g),
         a.current = b.current, a.symidx = b.symidx, a.msphere = b.msphere
  PROVE  a = b
<1>1. a \in Generators /\ b \in Generators
  BY DEF Looping, Configured
<1>2. a.anchor = b.anchor /\ a.r0 = b.r0 /\ a.sites = b.sites /\ a.rmin = b.rmin /\ a.rmax = b.rmax
  BY DEF Looping, Configured
<1> QED BY <1>1, <1>2 DEF Generators

(* A coordinate tells its place in the cell from its lattice point, *)
LEMMA CellIs ==
  ASSUME NEW x \in 0..Grid - 1, NEW y \in 0..Grid - 1, NEW a \in Int, NEW b \in Int,
         x + Grid * a = y + Grid * b
  PROVE  x = y /\ a = b
<1> DEFINE G == Grid
           d == a - b
           e == G * d
<1>1. G \in Nat \ {0} /\ d \in Int
  BY LatticeIs
<1>2. e = y - x /\ e \in Int
  BY <1>1
<1>3. (d >= 1 => e >= G) /\ (d =< -1 => e =< -G)
  <2> HIDE DEF d
  <2> QED BY <1>1
<1>4. d = 0
  <2> HIDE DEF e, d
  <2> QED BY <1>1, <1>2, <1>3
<1>5. e = 0
  <2> HIDE DEF d
  <2> QED BY <1>1, <1>4
<1> HIDE DEF e
<1> QED BY <1>1, <1>2, <1>4, <1>5

(* and so do three: equal sums have equal parts. *)
LEMMA SumsDiffer ==
  ASSUME NEW x \in Vectors, NEW y \in Vectors, NEW p \in Vectors, NEW q \in Vectors,
         Plus(x, p) = Plus(y, q)
  PROVE  /\ x = y => p = q
         /\ /\ InCell(x) /\ InCell(y)
            /\ \E a, b, c \in Int : p = <<Grid * a, Grid * b, Grid * c>>
            /\ \E a, b, c \in Int : q = <<Grid * a, Grid * b, Grid * c>>
            => x = y
<1>1. /\ x[1] \in Int /\ x[2] \in Int /\ x[3] \in Int /\ x = <<x[1], x[2], x[3]>>
      /\ y[1] \in Int /\ y[2] \in Int /\ y[3] \in Int /\ y = <<y[1], y[2], y[3]>>
      /\ p[1] \in Int /\ p[2] \in Int /\ p[3] \in Int /\ p = <<p[1], p[2], p[3]>>
      /\ q[1] \in Int /\ q[2] \in Int /\ q[3] \in Int /\ q = <<q[1], q[2], q[3]>>
  BY VectorsAre
<1>2. x[1] + p[1] = y[1] + q[1] /\ x[2] + p[2] = y[2] + q[2] /\ x[3] + p[3] = y[3] + q[3]
  BY DEF Plus
<1>3. ASSUME x = y PROVE p = q
  <2>1. p[1] = q[1] /\ p[2] = q[2] /\ p[3] = q[3]
    <3>1. x[1] = y[1] /\ x[2] = y[2] /\ x[3] = y[3]
      BY <1>3
    <3>2. \A t, u, v \in Int : t + u = t + v => u = v
      OBVIOUS
    <3> QED BY <1>1, <1>2, <3>1, <3>2
  <2> QED BY <1>1, <2>1
<1>4. ASSUME InCell(x), InCell(y),
             NEW a \in Int, NEW b \in Int, NEW c \in Int, p = <<Grid * a, Grid * b, Grid * c>>,
             NEW d \in Int, NEW e \in Int, NEW f \in Int, q = <<Grid * d, Grid * e, Grid * f>>
      PROVE  x = y
  <2>1. /\ x[1] \in 0..Grid - 1 /\ x[2] \in 0..Grid - 1 /\ x[3] \in 0..Grid - 1
        /\ y[1] \in 0..Grid - 1 /\ y[2] \in 0..Grid - 1 /\ y[3] \in 0..Grid - 1
    BY <1>4 DEF InCell
  <2>2. /\ x[1] + Grid * a = y[1] + Grid * d /\ x[2] + Grid * b = y[2] + Grid * e
        /\ x[3] + Grid * c = y[3] + Grid * f
    BY <1>2, <1>4
  <2>3. x[1] = y[1] /\ x[2] = y[2] /\ x[3] = y[3]
    BY <2>1, <2>2, CellIs
  <2> QED BY <1>1, <2>3
<1> QED BY <1>3, <1>4

(* no two positions of the generator are at the same bond, *)
LEMMA BondsDiffer ==
  ASSUME NEW g, Ready(g), PlacesAreApart, NEW a \in AllOf(g), NEW b \in AllOf(g), Bond(a) = Bond(b)
  PROVE  a = b
<1> DEFINE i == Site1(a)
           x == Places(i)[a.symidx]
           y == Places(i)[b.symidx]
           p == a.msphere
           q == b.msphere
           B == Ball(g)
<1>1. Site1(a) = Site1(b) /\ R1(a) = R1(b)
  BY DEF Bond
<1>2. /\ a \in Looping(g) /\ a.current \in DOMAIN g.sites /\ Site1(a) = g.sites[a.current] /\ i \in Sites
      /\ b \in Looping(g) /\ b.current \in DOMAIN g.sites /\ Site1(b) = g.sites[b.current]
      /\ a.symidx \in 1..Len(Places(i)) /\ b.symidx \in 1..Len(Places(i))
      /\ b.current \in Nat /\ b.symidx \in Nat
  <2>1. DOMAIN g.sites = 1..Len(g.sites)
    BY GeneratorIs DEF Ready
  <2>2. b \in Generators
    BY AllOfIs
  <2> QED BY <1>1, <2>1, <2>2, AllOfIs, GeneratorIs
<1>3. a.current = b.current
  BY <1>1, <1>2 DEF Ready
<1>4. /\ x \in Vectors /\ y \in Vectors
      /\ a.symidx \in DOMAIN Places(i) /\ b.symidx \in DOMAIN Places(i)
      /\ kind = "atomic" => R1(a) = Cartesian(L, x) /\ R1(b) = Cartesian(L, y)
      /\ kind # "atomic" => /\ R1(a) = Cartesian(L, Plus(x, Point(p))) /\ Point(p) \in Vectors
                            /\ R1(b) = Cartesian(L, Plus(y, Point(q))) /\ Point(q) \in Vectors
  BY <1>1, BondIs
<1>5. CASE kind = "atomic"
  <2>1. p = NoSphere /\ q = NoSphere /\ a.symidx = 1 /\ b.symidx = 1
    BY <1>5, AllOfIs
  <2> QED BY <1>2, <1>3, <2>1, SameIs
<1>6. CASE kind # "atomic"
  <2>1. /\ p \in Turns(B) /\ p.m \in Int /\ p.n \in Int /\ p.o \in Int
        /\ \/ p \in SphereAll(B) /\ Point(p) = <<Grid * p.m, Grid * p.n, Grid * p.o>>
           \/ SphereAll(B) = {} /\ p = At(B, HiM(B), 0, 0) /\ Point(p) = <<0, 0, 0>>
    BY <1>6, PointCases
  <2>2. /\ q \in Turns(B) /\ q.m \in Int /\ q.n \in Int /\ q.o \in Int
        /\ \/ q \in SphereAll(B) /\ Point(q) = <<Grid * q.m, Grid * q.n, Grid * q.o>>
           \/ SphereAll(B) = {} /\ q = At(B, HiM(B), 0, 0) /\ Point(q) = <<0, 0, 0>>
    BY <1>6, PointCases
  <2>3. Grid \in Nat \ {0} /\ IsSphere(B)
    BY LatticeIs, BallIs
  <2> HIDE DEF B, p, q, x, y, i
  <2>4. PICK a1 \in Int, a2 \in Int, a3 \in Int : Point(p) = <<Grid * a1, Grid * a2, Grid * a3>>
    <3>1. CASE Point(p) = <<0, 0, 0>>
      <4>1. PICK z \in Int : z = 0
        OBVIOUS
      <4>2. Point(p) = <<Grid * z, Grid * z, Grid * z>>
        BY <2>3, <3>1, <4>1
      <4> QED BY <4>2
    <3> QED BY <2>1, <3>1
  <2>5. PICK b1 \in Int, b2 \in Int, b3 \in Int : Point(q) = <<Grid * b1, Grid * b2, Grid * b3>>
    <3>1. CASE Point(q) = <<0, 0, 0>>
      <4>1. PICK z \in Int : z = 0
        OBVIOUS
      <4>2. Point(q) = <<Grid * z, Grid * z, Grid * z>>
        BY <2>3, <3>1, <4>1
      <4> QED BY <4>2
    <3> QED BY <2>2, <3>1
  <2>6. Plus(x, Point(p)) \in Vectors /\ Plus(y, Point(q)) \in Vectors
    BY <1>4, <1>6, VectorsAre
  <2>7. Plus(x, Point(p)) = Plus(y, Point(q))
    BY <1>1, <1>4, <1>6, <2>6, CartesianDiffers
  <2>8. x = y /\ a.symidx = b.symidx
    <3>1. CASE Len(Places(i)) = 1
      <4>1. a.symidx = 1 /\ b.symidx = 1
        BY <1>2, <3>1
      <4> QED BY <4>1 DEF x, y
    <3>2. CASE \A k \in DOMAIN Places(i) : InCell(Places(i)[k])
      <4>1. InCell(x) /\ InCell(y)
        BY <1>4, <3>2 DEF x, y
      <4>2. Point(p) \in Vectors /\ Point(q) \in Vectors
        BY <1>4, <1>6
      <4>3. x = y
        BY <1>4, <2>4, <2>5, <2>7, <4>1, <4>2, SumsDiffer
      <4> QED BY <1>2, <1>4, <4>3 DEF x, y, PlacesAreApart
    <3> QED BY <1>2, <3>1, <3>2 DEF PlacesAreApart
  <2>9. Point(p) = Point(q)
    BY <1>4, <1>6, <2>7, <2>8, SumsDiffer
  <2>10. p = q
    <3>1. CASE SphereAll(B) = {}
      BY <2>1, <2>2, <3>1
    <3>2. CASE SphereAll(B) # {}
      <4>1. ASSUME NEW u \in Int, NEW v \in Int, Grid * u = Grid * v PROVE u = v
        <5>1. PICK z \in 0..Grid - 1 : z = 0
          BY <2>3
        <5>2. z + Grid * u = z + Grid * v
          BY <4>1
        <5> QED BY <5>2, CellIs
      <4>2. CASE /\ Point(p) = <<Grid * p.m, Grid * p.n, Grid * p.o>>
                 /\ Point(q) = <<Grid * q.m, Grid * q.n, Grid * q.o>>
        <5>1. Grid * p.m = Grid * q.m /\ Grid * p.n = Grid * q.n /\ Grid * p.o = Grid * q.o
          <6> DEFINE u1 == Grid * p.m
                     u2 == Grid * p.n
                     u3 == Grid * p.o
                     v1 == Grid * q.m
                     v2 == Grid * q.n
                     v3 == Grid * q.o
          <6>1. Point(p) = <<u1, u2, u3>> /\ Point(q) = <<v1, v2, v3>>
            BY <4>2
          <6> HIDE DEF u1, u2, u3, v1, v2, v3
          <6>2. <<u1, u2, u3>> = <<v1, v2, v3>>
            BY <2>9, <6>1
          <6>3. u1 = v1 /\ u2 = v2 /\ u3 = v3
            BY <6>2
          <6> QED BY <6>3 DEF u1, u2, u3, v1, v2, v3
        <5>2. p.m = q.m /\ p.n = q.n /\ p.o = q.o
          BY <2>1, <2>2, <4>1, <5>1
        <5>3. q = At(B, p.m, p.n, p.o) /\ p = At(B, p.m, p.n, p.o)
          BY <2>1, <2>2, <2>3, <5>2, AtIs
        <5> QED BY <5>3
      <4> QED BY <2>1, <2>2, <3>2, <4>2
    <3> QED BY <3>1, <3>2
  <2> QED BY <1>2, <1>3, <2>8, <2>10, SameIs DEF p, q
<1> QED BY <1>5, <1>6

(* Site, image and point can be chosen. *)
LEMMA PlacedIs ==
  ASSUME NEW g, Ready(g), NEW c \in DOMAIN g.sites, NEW k \in DOMAIN Places(g.sites[c]),
         NEW p, p \in IF kind = "atomic" THEN {NoSphere} ELSE Turns(Ball(g)),
         kind # "atomic" => p \in Walk(Ball(g))
  PROVE  LET q == Moved(g, c, k, p)
         IN  q \in AllOf(g) /\ q.current = c /\ q.symidx = k /\ q.msphere = p
<1> DEFINE q == Moved(g, c, k, p)
<1>1. g \in Generators /\ p \in Spheres \cup {NoSphere}
  BY BallIs DEF Ready
<1>2. c \in Nat /\ k \in Nat
  <2>1. DOMAIN g.sites = 1..Len(g.sites)
    BY <1>1, GeneratorIs
  <2>2. g.sites[c] \in Sites
    BY DEF Ready
  <2>3. Places(g.sites[c]) \in Seq(Vectors)
    BY <2>2 DEF Ready
  <2> QED BY <2>1, <2>3
<1>3. /\ q \in Generators /\ q.current = c /\ q.symidx = k /\ q.msphere = p
      /\ q.anchor = g.anchor /\ q.r0 = g.r0 /\ q.sites = g.sites /\ q.rmin = g.rmin /\ q.rmax = g.rmax
  BY <1>1, <1>2 DEF Moved, Generators
<1> HIDE DEF q
<1>4. q \in Looping(g)
  BY <1>3 DEF Looping, Configured
<1>5. q \in AllOf(g)
  BY <1>3, <1>4 DEF AllOf
<1> QED BY <1>3, <1>5 DEF q

(* A position at a bond that is within the limits is valid. *)
LEMMA InRangeIsValid ==
  ASSUME NEW g, Ready(g), NEW q \in AllOf(g),
         Normsq(Minus(R1(q), g.r0)) \in 1..Scaled(g.rmax), Normsq(Minus(R1(q), g.r0)) >= Scaled(g.rmin)
  PROVE  Valid(q)
<1> DEFINE dd == DistanceSq(q)
<1>1. dd = Normsq(Minus(R1(q), g.r0)) /\ dd \in Nat /\ q.rmin = g.rmin /\ q.rmax = g.rmax
  BY BondIs
<1> HIDE DEF dd
<1>2. g.rmin \in Nat /\ g.rmax \in Nat
  BY GeneratorIs DEF Ready
<1>3. Scaled(g.rmin) \in Nat /\ Scaled(g.rmax) \in Nat
  BY <1>2, ScaledIs
<1>4. ~BondOutOfRange(q, dd) /\ ~AtSelfPair(dd)
  BY <1>1, <1>3 DEF BondOutOfRange, AtSelfPair
<1> QED BY <1>4 DEF Valid, dd

(* A structure of which the bonds are promised, for a loop from a place in the cell. *)
AllInCell(g) ==
  kind # "atomic" =>
    /\ \A i \in Sites : \A k \in DOMAIN Places(i) : InCell(Places(i)[k])
    /\ \E y \in Vectors : InCell(y) /\ g.r0 = Cartesian(L, y)

(* The sphere has all points that bonds need. *)
LEMMA PointIsWalked ==
  ASSUME NEW g, Ready(g), kind # "atomic", NEW x \in Vectors, InCell(x),
         NEW y \in Vectors, InCell(y), g.r0 = Cartesian(L, y),
         NEW m \in Int, NEW n \in Int, NEW o \in Int,
         LET dd == Normsq(Minus(Plus(Cartesian(L, x), LatticePoint(m, n, o)), g.r0))
         IN  dd =< Scaled(g.rmax) /\ dd >= Scaled(g.rmin)
  PROVE  LET p == At(Ball(g), m, n, o)
         IN  p \in Turns(Ball(g)) /\ p \in Walk(Ball(g)) /\ Point(p) = <<Grid * m, Grid * n, Grid * o>>
<1> DEFINE B == Ball(g)
           p == At(B, m, n, o)
           f == Far(B, m, n, o)
           D == MaxDiagonal
           dd == Normsq(Minus(Plus(Cartesian(L, x), LatticePoint(m, n, o)), Cartesian(L, y)))
<1>1. /\ IsSphere(B) /\ B.L = L /\ B.Rmax = g.rmax + D /\ B.Rmin = g.rmin - D
      /\ MaxRadius \in Nat /\ D \in Nat
  BY BallIs, LatticeIs
<1>2. g.rmin \in Nat /\ g.rmax \in Nat
  BY GeneratorIs DEF Ready
<1>3. dd =< Scaled(g.rmax) /\ dd >= Scaled(g.rmin)
  OBVIOUS
<1> HIDE DEF B
<1>4. f < SignedSquare(g.rmax + D)
  BY <1>1, <1>2, <1>3, PointOfBond
<1>5. D =< g.rmin => f > SignedSquare(g.rmin - D)
  BY <1>1, <1>2, <1>3, PointOfBond
<1>6. f \in Nat
  BY <1>1, PointFar
<1> HIDE DEF f, dd
<1>7. f > SignedSquare(B.Rmin) /\ SignedSquare(B.Rmin) \in Int
  <2>1. CASE D =< g.rmin
    <3>1. B.Rmin \in Nat
      BY <1>1, <1>2, <2>1
    <3>2. SignedSquare(B.Rmin) \in Int
      BY <3>1 DEF SignedSquare, Square
    <3> QED BY <1>1, <1>5, <2>1, <3>2
  <2>2. CASE ~(D =< g.rmin)
    <3> DEFINE r == g.rmin - D
    <3>1. r \in Int /\ r < 0
      BY <1>1, <1>2, <2>2
    <3> HIDE DEF r
    <3>2. r * r \in Int /\ r * r > 0 /\ SignedSquare(r) = -(r * r)
      BY <3>1 DEF SignedSquare, Square
    <3> QED BY <1>1, <1>6, <3>2 DEF r
  <2> QED BY <2>1, <2>2
<1>8. o \notin Hole(B, m, n)
  <2>1. SUFFICES ASSUME o \in Hole(B, m, n) PROVE FALSE
    OBVIOUS
  <2>2. f =< SignedSquare(B.Rmin)
    BY <1>1, <2>1, HoleIsNear DEF f
  <2> QED BY <1>6, <1>7, <2>2
<1>9. o \in PointsOn(B, m, n)
  BY <1>1, <1>4, <1>8, PointsAre DEF f
<1>10. p \in Turns(B) /\ p.m = m /\ p.n = n /\ p.o = o
  BY <1>1, AtIs
<1> HIDE DEF p
<1>11. p \in SphereAll(B)
  BY <1>9, <1>10 DEF SphereAll
<1>12. ~Finished(p) /\ p \in Walk(B)
  BY <1>1, <1>11, PointIsWithin DEF Walk
<1>13. Point(p) = <<Grid * m, Grid * n, Grid * o>>
  BY <1>10, <1>12 DEF Point
<1> QED BY <1>10, <1>12, <1>13 DEF p, B

(* and all bonds are come to. *)
LEMMA BondIsReached ==
  ASSUME NEW g, Ready(g), AllInCell(g), NEW b \in BondsInRange(g)
  PROVE  \E q \in AllOf(g) : Valid(q) /\ Bond(q) = b
<1>1. PICK i \in {g.sites[k] : k \in DOMAIN g.sites} :
        b \in {<<i, c>> : c \in {c \in Copies(i, g.r0, g.rmax) : Normsq(Minus(c, g.r0)) >= Scaled(g.rmin)}}
  BY DEF BondsInRange
<1>2. PICK c \in Copies(i, g.r0, g.rmax) : Normsq(Minus(c, g.r0)) >= Scaled(g.rmin) /\ b = <<i, c>>
  BY <1>1
<1>3. PICK s \in DOMAIN g.sites : i = g.sites[s]
  BY <1>1
<1>4. i \in Sites /\ Places(i) \in Seq(Vectors)
  BY <1>3 DEF Ready
<1> DEFINE points == IF kind = "atomic" THEN {<<0, 0, 0>>} ELSE PointsNear[g.rmax]
           places == {Cartesian(L, Places(i)[k]) : k \in DOMAIN Places(i)}
<1>5. /\ c \in {Plus(x, p) : x \in places, p \in points}
      /\ Normsq(Minus(c, g.r0)) \in 1..Scaled(g.rmax)
  BY <1>2 DEF Copies
<1>6. PICK k \in DOMAIN Places(i), P \in points : c = Plus(Cartesian(L, Places(i)[k]), P)
  BY <1>5
<1> DEFINE x == Places(i)[k]
<1>7. x \in Vectors
  BY <1>4, <1>6
<1>8. ASSUME NEW q \in AllOf(g), q.current = s, R1(q) = c PROVE Valid(q) /\ Bond(q) = b
  <2>1. q.sites = g.sites
    BY BondIs
  <2>2. Bond(q) = b
    BY <1>2, <1>3, <1>8, <2>1 DEF Bond, Site1
  <2>3. Valid(q)
    BY <1>2, <1>5, <1>8, InRangeIsValid
  <2> QED BY <2>2, <2>3
<1>9. CASE kind = "atomic"
  <2> DEFINE q == Moved(g, s, k, NoSphere)
  <2>1. q \in AllOf(g) /\ q.current = s /\ q.symidx = k
    BY <1>3, <1>6, <1>9, PlacedIs
  <2> HIDE DEF q
  <2>2. Site1(q) = i
    BY <1>3, <2>1, BondIs DEF Site1
  <2>3. R1(q) = Cartesian(L, x)
    BY <1>9, <2>1, <2>2, BondIs
  <2>4. P = <<0, 0, 0>>
    BY <1>6, <1>9
  <2>5. c = Cartesian(L, x)
    <3> DEFINE v == Cartesian(L, x)
    <3>1. v \in Vectors
      BY <1>7, VectorsAre
    <3>2. v[1] \in Int /\ v[2] \in Int /\ v[3] \in Int /\ v = <<v[1], v[2], v[3]>>
      BY <3>1, VectorsAre
    <3> HIDE DEF v
    <3>3. v[1] + 0 = v[1] /\ v[2] + 0 = v[2] /\ v[3] + 0 = v[3]
      BY <3>2
    <3>4. Plus(v, <<0, 0, 0>>) = v
      BY <3>2, <3>3 DEF Plus
    <3> QED BY <1>6, <2>4, <3>4 DEF v
  <2> QED BY <1>8, <2>1, <2>3, <2>5
<1>10. CASE kind # "atomic"
  <2>1. PICK y \in Vectors : InCell(y) /\ g.r0 = Cartesian(L, y)
    BY <1>10 DEF AllInCell
  <2>2. InCell(x)
    BY <1>4, <1>6, <1>10 DEF AllInCell
  <2>3. P \in PointsNear[g.rmax]
    BY <1>6, <1>10
  <2>4. <<g.rmin, g.rmax>> \in Radii /\ MaxIndex \in Nat
    BY BoundsAssumption DEF Ready
  <2>5. g.rmax \in {r[2] : r \in Radii}
    <3> DEFINE r == <<g.rmin, g.rmax>>
    <3>1. r \in Radii /\ r[2] = g.rmax
      BY <2>4
    <3> HIDE DEF r
    <3> QED BY <3>1
  <2>6. P \in {Cartesian(L, <<Grid * m, Grid * n, Grid * o>>) : m, n, o \in Reach}
    BY <2>3, <2>5 DEF PointsNear
  <2>7. PICK m \in Reach, n \in Reach, o \in Reach : P = LatticePoint(m, n, o)
    BY <2>6 DEF LatticePoint
  <2>8. m \in Int /\ n \in Int /\ o \in Int
    BY <2>4, <2>7 DEF Reach
  <2> DEFINE p == At(Ball(g), m, n, o)
             w == <<Grid * m, Grid * n, Grid * o>>
             dd == Normsq(Minus(c, g.r0))
  <2>9. dd =< Scaled(g.rmax) /\ dd >= Scaled(g.rmin)
    <3> HIDE DEF dd
    <3>1. g.rmax \in Nat
      BY GeneratorIs DEF Ready
    <3>2. Scaled(g.rmax) \in Nat
      BY <3>1, ScaledIs
    <3>3. dd \in 1..Scaled(g.rmax) /\ dd >= Scaled(g.rmin)
      BY <1>2, <1>5 DEF dd
    <3> QED BY <3>2, <3>3
  <2>10. c = Plus(Cartesian(L, x), LatticePoint(m, n, o))
    BY <1>6, <2>7
  <2> HIDE DEF x
  <2>11. p \in Turns(Ball(g)) /\ p \in Walk(Ball(g)) /\ Point(p) = w
    BY <1>7, <1>10, <2>1, <2>2, <2>8, <2>9, <2>10, PointIsWalked
  <2> HIDE DEF p
  <2> DEFINE q == Moved(g, s, k, p)
  <2>12. q \in AllOf(g) /\ q.current = s /\ q.symidx = k /\ q.msphere = p
    BY <1>3, <1>6, <1>10, <2>11, PlacedIs
  <2> HIDE DEF q
  <2>13. Site1(q) = i
    BY <1>3, <2>12, BondIs DEF Site1
  <2>14. R1(q) = Cartesian(L, Plus(x, w)) /\ w \in Vectors
    BY <1>10, <2>11, <2>12, <2>13, BondIs DEF x
  <2>15. R1(q) = Plus(Cartesian(L, x), Cartesian(L, w))
    <3> HIDE DEF w
    <3> QED BY <1>7, <2>14, VectorsAre
  <2>16. R1(q) = c
    BY <2>10, <2>15 DEF LatticePoint
  <2> QED BY <1>8, <2>12, <2>16
<1> QED BY <1>9, <1>10

-----------------------------------------------------------------------------
(* Rewind and next.                                                        *)

(***************************************************************************)
(* A loop comes from one valid position to the next one in their order.    *)
(***************************************************************************)
Ended(g, h) == h \in Looping(g) /\ GeneratorFinished(h) /\ h.current = Len(g.sites) + 1

(* A loop starts at the first valid position, *)
LEMMA RewindIs ==
  ASSUME NEW g, Ready(g), g.msphere \in IF kind = "atomic" THEN {NoSphere} ELSE Turns(Ball(g)) \cup {NoSphere}
  PROVE  LET h == Rewind(g)
         IN  \/ Ended(g, h) /\ \A q \in AllOf(g) : ~Valid(q)
             \/ /\ h \in AllOf(g) /\ h \notin Later(h) /\ Valid(h)
                /\ \A q \in AllOf(g) : q = h \/ q \in Later(h) \/ ~Valid(q)
<1> DEFINE k == [WithSphere(g) EXCEPT !.current = 1]
           i == RewindSymmetry(k)
           h == Rewind(g)
<1>1. /\ k \in Looping(g)
      /\ GeneratorFinished(k) => AllOf(g) = {}
      /\ ~GeneratorFinished(k) => i \in AllOf(g) /\ i \notin Later(i) /\ AllOf(g) = {i} \cup Later(i)
  BY StartIs
<1>2. h = IF GeneratorFinished(k) THEN k ELSE AdvanceWhileInvalid(i)
  BY DEF Rewind
<1>3. CASE GeneratorFinished(k)
  <2>1. k.current = 1
    BY <1>1 DEF WithSphere, Ready, Generators
  <2>2. k.sites = g.sites /\ Len(g.sites) \in Nat
    BY <1>1, GeneratorIs DEF Looping, Configured, Ready
  <2> HIDE DEF k, h
  <2>3. Len(g.sites) = 0
    BY <1>3, <2>1, <2>2 DEF GeneratorFinished
  <2>4. Ended(g, h)
    BY <1>1, <1>2, <1>3, <2>1, <2>3 DEF Ended
  <2> QED BY <1>1, <1>3, <2>4 DEF h
<1>4. CASE ~GeneratorFinished(k)
  <2> HIDE DEF k, i, h
  <2>1. Ready(i) /\ i \in AllOf(i) /\ AllOf(i) = AllOf(g) /\ Looping(i) = Looping(g) /\ i.sites = g.sites
    BY <1>1, <1>4, LaterIs, AllOfIs
  <2>2. \/ /\ h \in Looping(g) /\ GeneratorFinished(h) /\ h.current = Len(g.sites) + 1
           /\ \A q \in {i} \cup Later(i) : ~Valid(q)
        \/ /\ h \in {i} \cup Later(i) /\ h \notin Later(h) /\ Later(h) \subseteq Later(i) /\ Valid(h)
           /\ \A q \in {i} \cup Later(i) : q = h \/ q \in Later(h) \/ ~Valid(q)
    BY <1>2, <1>4, <2>1, AdvanceWhileInvalidIs
  <2> QED BY <1>1, <1>4, <2>2 DEF Ended, h
<1> QED BY <1>3, <1>4

(* and each step takes it to the next valid one. *)
LEMMA NextBondIs ==
  ASSUME NEW g, Ready(g), g \in AllOf(g)
  PROVE  LET h == AdvanceWhileInvalid(GetNextBond(g))
         IN  \/ Ended(g, h) /\ \A q \in Later(g) : ~Valid(q)
             \/ /\ h \in Later(g) /\ h \notin Later(h) /\ Later(h) \subseteq Later(g) /\ Valid(h)
                /\ \A q \in Later(g) : q = h \/ q \in Later(h) \/ ~Valid(q)
<1> DEFINE i == GetNextBond(g)
           h == AdvanceWhileInvalid(i)
<1>1. \/ i \in Looping(g) /\ GeneratorFinished(i) /\ Later(g) = {}
      \/ /\ i \in AllOf(g) /\ ~GeneratorFinished(i)
         /\ Later(g) = {i} \cup Later(i) /\ i \notin Later(i)
  BY StepIs
<1>2. GeneratorFinished(i) => i.current = Len(g.sites) + 1
  BY NextCurrent
<1> HIDE DEF i
<1>3. ASSUME i \in Looping(g), GeneratorFinished(i), Later(g) = {}
      PROVE  Ended(g, h) /\ \A q \in Later(g) : ~Valid(q)
  <2>1. h = i
    BY <1>3 DEF AdvanceWhileInvalid, Valid
  <2> QED BY <1>2, <1>3, <2>1 DEF Ended
<1>4. ASSUME i \in AllOf(g), Later(g) = {i} \cup Later(i), i \notin Later(i)
      PROVE  \/ Ended(g, h) /\ \A q \in Later(g) : ~Valid(q)
             \/ /\ h \in Later(g) /\ h \notin Later(h) /\ Later(h) \subseteq Later(g) /\ Valid(h)
                /\ \A q \in Later(g) : q = h \/ q \in Later(h) \/ ~Valid(q)
  <2>1. Ready(i) /\ i \in AllOf(i) /\ Looping(i) = Looping(g) /\ i.sites = g.sites
    BY <1>4, LaterIs, AllOfIs
  <2>2. \/ /\ h \in Looping(g) /\ GeneratorFinished(h) /\ h.current = Len(g.sites) + 1
           /\ \A q \in {i} \cup Later(i) : ~Valid(q)
        \/ /\ h \in {i} \cup Later(i) /\ h \notin Later(h) /\ Later(h) \subseteq Later(i) /\ Valid(h)
           /\ \A q \in {i} \cup Later(i) : q = h \/ q \in Later(h) \/ ~Valid(q)
    BY <2>1, AdvanceWhileInvalidIs
  <2> HIDE DEF h
  <2> QED BY <1>4, <2>2 DEF Ended
<1> QED BY <1>1, <1>3, <1>4 DEF i

(* What a loop is made of stays while the structure and its cache do. *)
LEMMA UnchangedLoop ==
  ASSUME UNCHANGED <<kind, atoms, symatoms>>
  PROVE  /\ \A g : AllOf(g)' = AllOf(g) /\ Later(g)' = Later(g) /\ (Valid(g)' <=> Valid(g))
         /\ \A g : Bond(g)' = Bond(g) /\ BondsAt(g)' = BondsAt(g) /\ BondsInRange(g)' = BondsInRange(g)
         /\ \A g : Looping(g)' = Looping(g)
<1>1. kind' = kind /\ atoms' = atoms /\ symatoms' = symatoms
  OBVIOUS
<1>2. \A i : Places(i)' = Places(i)
  BY <1>1, Zenon DEF Places
<1>3. \A g : Looping(g)' = Looping(g)
  BY <1>1, Zenon DEF Looping, Configured
<1>4. \A g : AllOf(g)' = AllOf(g)
  <2>1. ASSUME NEW g, NEW h PROVE h \in AllOf(g)' <=> h \in AllOf(g)
    BY <1>1, <1>2, <1>3 DEF AllOf
  <2> QED BY <2>1
<1>5. \A g, h : Before(g, h)' <=> Before(g, h)
  BY <1>1 DEF Before
<1>6. \A g : Later(g)' = Later(g)
  <2>1. ASSUME NEW g, NEW h PROVE h \in Later(g)' <=> h \in Later(g)
    BY <1>4, <1>5 DEF Later
  <2> QED BY <2>1
<1>7. \A g : R1(g)' = R1(g)
  BY <1>1, <1>2 DEF R1
<1>8. \A g : Valid(g)' <=> Valid(g)
  BY <1>7 DEF Valid, DistanceSq
<1>9. \A g : Bond(g)' = Bond(g) /\ BondsAt(g)' = BondsAt(g)
  BY <1>7 DEF BondsAt, Bond
<1>10. \A i, r0, r : Copies(i, r0, r)' = Copies(i, r0, r)
  <2>1. ASSUME NEW i
        PROVE  {Cartesian(L, Places(i)[k]) : k \in DOMAIN Places(i)}'
                 = {Cartesian(L, Places(i)[k]) : k \in DOMAIN Places(i)}
    BY <1>2
  <2> QED BY <1>1, <2>1 DEF Copies
<1>11. \A g : BondsInRange(g)' = BondsInRange(g)
  BY <1>10 DEF BondsInRange
<1> QED BY <1>3, <1>4, <1>6, <1>8, <1>9, <1>11

-----------------------------------------------------------------------------
(* The inductive invariant.                                                *)

(***************************************************************************)
(* The inductive invariant: the structure,                                 *)
(***************************************************************************)
Structured ==
  /\ kind \in Kinds /\ atoms \in Seq(Positions) /\ Len(atoms) =< MaxAtoms /\ precision \in Precisions
  /\ symops \in Seq(SymOps) /\ \A j, k \in DOMAIN symops : symops[j] = symops[k] => j = k
  /\ cached \in BOOLEAN /\ \A i \in DOMAIN symatoms : symatoms[i] # <<>>

(* that nothing is left from a loop when there is no generator, *)
Resting == Idle => selected = {} /\ seen = {}

(* the generator, for which the images are those of the atoms, *)
Prepared ==
  ~Idle =>
    /\ gen \in Generators /\ <<gen.rmin, gen.rmax>> \in Radii
    /\ \A k \in DOMAIN gen.sites : gen.sites[k] \in Sites
    /\ \A j, k \in DOMAIN gen.sites : gen.sites[j] = gen.sites[k] => j = k
    /\ Len(gen.sites) =< Len(atoms)
    /\ gen.current \in 1..Len(gen.sites) + 1
    /\ gen.anchor > 0 => gen.anchor \in Sites /\ gen.r0 = R0(gen.anchor)
    /\ gen.msphere \in IF kind = "atomic" THEN {NoSphere} ELSE Turns(Ball(gen)) \cup {NoSphere}
    /\ kind = "crystal" => symatoms = ExpandedAll

(* and how far a loop has come: to the valid positions that are not later. *)
Underway ==
  ~Idle /\ ~GeneratorFinished(gen) =>
    /\ gen.anchor > 0 /\ gen \in AllOf(gen) /\ Valid(gen)
    /\ selected = BondsInRange(gen)
    /\ seen = {Bond(q) : q \in {p \in AllOf(gen) : p \notin Later(gen) /\ Valid(p)}}

IInv == Structured /\ Resting /\ Prepared /\ Underway

Complete == ~(kind = "crystal" /\ symops = <<>> /\ \E i \in Sites : ~InCell(atoms[i]))

(* No operation is there twice. *)
LEMMA SymOpsAreFew ==
  ASSUME Structured
  PROVE  Len(symops) =< Cardinality(SymOps) /\ Len(symops) \in Nat /\ Cardinality(SymOps) \in Nat
<1>1. symops \in Seq(SymOps) /\ Len(symops) \in Nat /\ DOMAIN symops = 1..Len(symops)
      /\ \A j, k \in 1..Len(symops) : symops[j] = symops[k] => j = k
  BY DEF Structured
<1>2. IsFiniteSet(SymOps) /\ Cardinality(SymOps) \in Nat
  BY StructureAssumption, FS_CardinalityType
<1>3. IsFiniteSet(1..Len(symops)) /\ Cardinality(1..Len(symops)) = Len(symops)
  <2>1. PICK z \in Int : z = 1
    OBVIOUS
  <2>2. IsFiniteSet(z..Len(symops))
        /\ Cardinality(z..Len(symops)) = IF z > Len(symops) THEN 0 ELSE Len(symops) - z + 1
    BY <1>1, FS_Interval
  <2> QED BY <1>1, <2>1, <2>2
<1>4. symops \in [1..Len(symops) -> SymOps]
  BY <1>1
<1>5. symops \in Injection(1..Len(symops), SymOps)
  BY <1>1, <1>4 DEF Injection, IsInjective
<1>6. Cardinality(1..Len(symops)) =< Cardinality(SymOps)
  BY <1>2, <1>5, FS_Injection
<1> QED BY <1>1, <1>2, <1>3, <1>6

(* What positions sites have. *)
LEMMA PlacesAre ==
  ASSUME Structured, kind = "crystal" => symatoms = ExpandedAll, NEW i \in Sites
  PROVE  /\ Places(i) \in Seq(Vectors) /\ Places(i) # <<>>
         /\ kind # "crystal" => Len(Places(i)) = 1
         /\ Len(Places(i)) =< Cardinality(SymOps) + 1
         /\ kind = "crystal" => Places(i) = Expanded(atoms[i]) /\ i \in DOMAIN symatoms /\ symatoms[i] = Places(i)
         /\ kind # "atomic" /\ Complete => \A k \in DOMAIN Places(i) : InCell(Places(i)[k])
         /\ kind = "crystal" /\ symops # <<>> => \A k \in DOMAIN Places(i) : InCell(Places(i)[k])
         /\ kind = "crystal" /\ symops = <<>> => Len(Places(i)) = 1
<1>1. kind \in {"atomic", "periodic", "crystal"} /\ Positions \subseteq Vectors
  BY StructureAssumption DEF Structured
<1>2. atoms[i] \in Vectors
  <2>1. i \in DOMAIN atoms /\ atoms \in Seq(Positions)
    BY DEF Sites, Structured
  <2>2. atoms[i] \in Positions
    BY <2>1
  <2> QED BY <1>1, <2>2
<1>3. Len(symops) =< Cardinality(SymOps) /\ Len(symops) \in Nat /\ Cardinality(SymOps) \in Nat
      /\ symops \in Seq(SymOps)
  BY SymOpsAreFew DEF Structured
<1>4. ASSUME NEW x \in Vectors
      PROVE  <<x>> \in Seq(Vectors) /\ <<x>> # <<>> /\ Len(<<x>>) = 1 /\ DOMAIN <<x>> = {1} /\ <<x>>[1] = x
  OBVIOUS
<1>5. CASE kind = "atomic"
  <2>1. Places(i) = <<atoms[i]>>
    BY <1>5 DEF Places
  <2> QED BY <1>2, <1>3, <1>4, <1>5, <2>1
<1>6. CASE kind = "periodic"
  <2>1. Places(i) = <<UcvFractional(atoms[i])>>
    BY <1>6 DEF Places
  <2>2. UcvFractional(atoms[i]) \in Vectors /\ InCell(UcvFractional(atoms[i]))
    BY <1>2, UcvIs
  <2> QED BY <1>3, <1>4, <1>6, <2>1, <2>2
<1>7. CASE kind = "crystal"
  <2>1. Places(i) = symatoms[i] /\ symatoms = ExpandedAll
    BY <1>7 DEF Places
  <2>2. Places(i) = Expanded(atoms[i]) /\ i \in DOMAIN symatoms /\ symatoms[i] = Places(i)
    BY <2>1 DEF ExpandedAll
  <2>3. /\ Places(i) \in Seq(Vectors) /\ Places(i) # <<>> /\ Len(Places(i)) =< Len(symops) + 1
        /\ symops = <<>> => Places(i) = <<atoms[i]>>
        /\ symops # <<>> => \A k \in DOMAIN Places(i) : InCell(Places(i)[k])
    BY <1>2, <1>3, <2>2, ExpandedIs DEF Expanded
  <2>4. symops = <<>> => Len(Places(i)) = 1
    BY <1>2, <1>4, <2>3
  <2>5. ASSUME Complete, symops = <<>> PROVE \A k \in DOMAIN Places(i) : InCell(Places(i)[k])
    <3>1. InCell(atoms[i])
      BY <1>7, <2>5 DEF Complete
    <3> QED BY <1>2, <1>4, <2>3, <2>5, <3>1
  <2>6. Len(Places(i)) =< Cardinality(SymOps) + 1
    <3>1. Len(Places(i)) \in Nat
      BY <2>3
    <3> QED BY <1>3, <2>3, <3>1
  <2> QED BY <1>7, <2>2, <2>3, <2>4, <2>5, <2>6
<1> QED BY <1>1, <1>5, <1>6, <1>7

(* A generator in use is one that the lemmas about loops apply to; *)
LEMMA ReadyIs ==
  ASSUME Structured, Prepared, ~Idle
  PROVE  Ready(gen)
<1>1. kind \in {"atomic", "periodic", "crystal"}
  BY StructureAssumption DEF Structured
<1>2. /\ gen \in Generators /\ <<gen.rmin, gen.rmax>> \in Radii
      /\ \A k \in DOMAIN gen.sites : gen.sites[k] \in Sites
      /\ \A j, k \in DOMAIN gen.sites : gen.sites[j] = gen.sites[k] => j = k
      /\ kind = "crystal" => symatoms = ExpandedAll
      /\ Len(gen.sites) =< Len(atoms)
  BY DEF Prepared
<1>3. Len(gen.sites) =< MaxAtoms
  <2>1. Len(gen.sites) \in Nat /\ Len(atoms) \in Nat /\ MaxAtoms \in Nat /\ Len(atoms) =< MaxAtoms
    BY <1>2, GeneratorIs, StructureAssumption DEF Structured
  <2> QED BY <1>2, <2>1
<1>4. \A i \in Sites :
       /\ Places(i) \in Seq(Vectors) /\ Places(i) # <<>>
       /\ kind # "crystal" => Len(Places(i)) = 1
       /\ Len(Places(i)) =< Cardinality(SymOps) + 1
  BY <1>2, PlacesAre
<1> QED BY <1>1, <1>2, <1>3, <1>4 DEF Ready

(* positions are apart where images differ, *)
LEMMA ApartIs ==
  ASSUME Structured, kind = "crystal" => symatoms = ExpandedAll, ImagesDiffer
  PROVE  PlacesAreApart
<1>1. ASSUME NEW i \in Sites
      PROVE  /\ \A k, l \in DOMAIN Places(i) : Places(i)[k] = Places(i)[l] => k = l
             /\ Len(Places(i)) = 1 \/ \A k \in DOMAIN Places(i) : InCell(Places(i)[k])
  <2>1. Places(i) \in Seq(Vectors)
    BY PlacesAre
  <2>2. CASE Len(Places(i)) = 1
    <3>1. DOMAIN Places(i) = {1}
      BY <2>1, <2>2
    <3> QED BY <2>2, <3>1
  <2>3. CASE Len(Places(i)) # 1
    <3>1. kind = "crystal" /\ symops # <<>>
      BY <2>3, PlacesAre
    <3>2. i \in DOMAIN symatoms /\ symatoms[i] = Places(i)
      BY <3>1, PlacesAre
    <3>3. \A k, l \in DOMAIN Places(i) : Places(i)[k] = Places(i)[l] => k = l
      BY <3>1, <3>2 DEF ImagesDiffer
    <3>4. \A k \in DOMAIN Places(i) : InCell(Places(i)[k])
      BY <3>1, PlacesAre
    <3> QED BY <3>3, <3>4
  <2> QED BY <2>2, <2>3
<1> QED BY <1>1 DEF PlacesAreApart

(***************************************************************************)
(* and all in the cell of a structure that all bonds are promised for.     *)
(***************************************************************************)
LEMMA AllInCellIs ==
  ASSUME Structured, Prepared, ~Idle, gen.anchor > 0, Complete
  PROVE  AllInCell(gen)
<1>1. SUFFICES ASSUME kind # "atomic"
               PROVE  /\ \A i \in Sites : \A k \in DOMAIN Places(i) : InCell(Places(i)[k])
                      /\ \E y \in Vectors : InCell(y) /\ gen.r0 = Cartesian(L, y)
  BY DEF AllInCell
<1>2. gen.anchor \in Sites /\ gen.r0 = R0(gen.anchor) /\ (kind = "crystal" => symatoms = ExpandedAll)
  BY DEF Prepared
<1>3. \A i \in Sites : \A k \in DOMAIN Places(i) : InCell(Places(i)[k])
  BY <1>1, <1>2, PlacesAre
<1>4. Places(gen.anchor) \in Seq(Vectors) /\ Places(gen.anchor) # <<>>
  BY <1>2, PlacesAre
<1>5. 1 \in DOMAIN Places(gen.anchor) /\ Places(gen.anchor)[1] \in Vectors
  BY <1>4
<1> QED BY <1>2, <1>3, <1>5 DEF R0

-----------------------------------------------------------------------------
(* Steps keep it and are steps of the loop.                                *)

Standing == IF Idle THEN {} ELSE BondsAt(gen)

(* NoGenerator is none of the generators. *)
LEMMA GeneratorsAreNot ==
  ASSUME NEW g \in Generators
  PROVE  g # NoGenerator
<1>1. g.anchor \in Nat /\ NoGenerator.anchor = -1
  BY GeneratorIs DEF NoGenerator
<1> QED BY <1>1

(* Nothing is there at first. *)
LEMMA InitIs ==
  ASSUME Init
  PROVE  IInv /\ Loop!Init
<1>1. Idle
  BY DEF Init, Idle
<1>2. Structured
  <2>1. /\ kind \in Kinds /\ atoms = <<>> /\ symops = <<>> /\ precision = 0 /\ symatoms = <<>> /\ cached = FALSE
        /\ 0 \in Precisions /\ MaxAtoms \in Nat
    BY StructureAssumption DEF Init
  <2>2. Len(<<>>) =< MaxAtoms /\ <<>> \in Seq(Positions) /\ <<>> \in Seq(SymOps) /\ DOMAIN <<>> = {}
    BY <2>1
  <2> QED BY <2>1, <2>2 DEF Structured
<1>3. Resting /\ Prepared /\ Underway
  BY <1>1 DEF Init, Resting, Prepared, Underway
<1>4. Loop!Init
  BY <1>1 DEF Init, Loop!Init
<1> QED BY <1>2, <1>3, <1>4 DEF IInv

(* Refreshed images are positions. *)
LEMMA RefreshedIs ==
  ASSUME Structured, RefreshCache
  PROVE  /\ cached' \in BOOLEAN /\ \A i \in DOMAIN symatoms' : symatoms'[i] # <<>>
         /\ kind = "crystal" => symatoms' = ExpandedAll
<1>1. CASE kind = "crystal"
  <2>1. symatoms' = ExpandedAll /\ cached' = TRUE
    BY <1>1 DEF RefreshCache
  <2>2. ASSUME NEW i \in Sites PROVE Expanded(atoms[i]) # <<>>
    <3>1. i \in DOMAIN atoms /\ atoms \in Seq(Positions) /\ symops \in Seq(SymOps)
      BY DEF Sites, Structured
    <3>2. atoms[i] \in Vectors
      BY <3>1, StructureAssumption
    <3> QED BY <3>1, <3>2, ExpandedIs DEF Expanded
  <2> QED BY <1>1, <2>1, <2>2 DEF ExpandedAll
<1>2. CASE kind # "crystal"
  BY <1>2 DEF RefreshCache, Structured, cache
<1> QED BY <1>1, <1>2

(* Edits, while there is no generator. *)
Edit ==
  \/ \E i \in Sites, x \in Positions : SetAtom(i, x)
  \/ \E x \in Positions : AppendAtom(x)
  \/ EraseLast
  \/ \E op \in SymOps : AddSymOp(op)
  \/ ClearSymOps
  \/ \E e \in Precisions : SetSymmetryPrecision(e)
  \/ UpdateSymmetryPositions

(* Edits of a structure leave a structure, *)
LEMMA EditIs ==
  ASSUME Structured, Edit
  PROVE  Structured' /\ Idle /\ UNCHANGED loop
<1>0. /\ kind \in Kinds /\ atoms \in Seq(Positions) /\ Len(atoms) =< MaxAtoms /\ precision \in Precisions
      /\ symops \in Seq(SymOps) /\ (\A j, k \in DOMAIN symops : symops[j] = symops[k] => j = k)
      /\ cached \in BOOLEAN /\ (\A i \in DOMAIN symatoms : symatoms[i] # <<>>)
      /\ Len(atoms) \in Nat /\ Len(symops) \in Nat /\ MaxAtoms \in Nat
  BY StructureAssumption DEF Structured
<1>1. ASSUME NEW i \in Sites, NEW x \in Positions, SetAtom(i, x) PROVE Structured' /\ Idle /\ UNCHANGED loop
  <2>1. /\ atoms' = [atoms EXCEPT ![i] = x] /\ Idle
        /\ kind' = kind /\ symops' = symops /\ precision' = precision /\ symatoms' = symatoms /\ cached' = cached
        /\ UNCHANGED loop
    BY <1>1 DEF SetAtom, cache
  <2>2. atoms' \in Seq(Positions) /\ Len(atoms') = Len(atoms)
    BY <1>0, <1>1, <2>1 DEF Sites
  <2> QED BY <1>0, <2>1, <2>2 DEF Structured
<1>2. ASSUME NEW x \in Positions, AppendAtom(x) PROVE Structured' /\ Idle /\ UNCHANGED loop
  <2>1. /\ atoms' = Append(atoms, x) /\ Idle /\ Len(atoms) < MaxAtoms
        /\ kind' = kind /\ symops' = symops /\ precision' = precision /\ symatoms' = symatoms /\ cached' = cached
        /\ UNCHANGED loop
    BY <1>2 DEF AppendAtom, cache
  <2>2. atoms' \in Seq(Positions) /\ Len(atoms') = Len(atoms) + 1
    BY <1>0, <1>2, <2>1
  <2>3. Len(atoms') =< MaxAtoms
    BY <1>0, <2>1, <2>2
  <2> QED BY <1>0, <2>1, <2>2, <2>3 DEF Structured
<1>3. ASSUME EraseLast PROVE Structured' /\ Idle /\ UNCHANGED loop
  <2>1. /\ atoms' = SubSeq(atoms, 1, Len(atoms) - 1) /\ Idle /\ atoms # <<>>
        /\ kind' = kind /\ symops' = symops /\ precision' = precision /\ symatoms' = symatoms /\ cached' = cached
        /\ UNCHANGED loop
    BY <1>3 DEF EraseLast, cache
  <2>2. Len(atoms) - 1 \in Nat /\ Len(atoms) - 1 =< Len(atoms)
    BY <1>0, <2>1
  <2>3. atoms' \in Seq(Positions) /\ Len(atoms') = Len(atoms) - 1
    <3> DEFINE n == Len(atoms) - 1
    <3>1. \A i \in 1..n : atoms[i] \in Positions
      BY <1>0
    <3> HIDE DEF n
    <3>2. SubSeq(atoms, 1, n) = [i \in 1..n |-> atoms[i]]
      BY <1>0, <2>2 DEF n
    <3>3. [i \in 1..n |-> atoms[i]] \in Seq(Positions) /\ Len([i \in 1..n |-> atoms[i]]) = n
      BY <2>2, <3>1 DEF n
    <3> QED BY <2>1, <3>2, <3>3 DEF n
  <2>4. Len(atoms') =< MaxAtoms
    BY <1>0, <2>3
  <2> QED BY <1>0, <2>1, <2>3, <2>4 DEF Structured
<1>4. ASSUME NEW op \in SymOps, AddSymOp(op) PROVE Structured' /\ Idle /\ UNCHANGED loop
  <2>1. /\ symops' = Append(symops, op) /\ Idle /\ \A k \in DOMAIN symops : symops[k] # op
        /\ kind' = kind /\ atoms' = atoms /\ precision' = precision /\ symatoms' = <<>> /\ cached' = FALSE
        /\ UNCHANGED loop
    BY <1>4 DEF AddSymOp, DropCache
  <2>2. /\ symops' \in Seq(SymOps) /\ Len(symops') = Len(symops) + 1 /\ symops'[Len(symops) + 1] = op
        /\ DOMAIN symops = 1..Len(symops) /\ DOMAIN symops' = 1..Len(symops) + 1
        /\ \A k \in 1..Len(symops) : symops'[k] = symops[k]
    BY <1>0, <1>4, <2>1
  <2>3. \A j, k \in DOMAIN symops' : symops'[j] = symops'[k] => j = k
    <3>1. \A k \in DOMAIN symops' : k \in DOMAIN symops \/ k = Len(symops) + 1
      BY <1>0, <2>2
    <3> QED BY <1>0, <2>1, <2>2, <3>1
  <2>4. DOMAIN symatoms' = {}
    BY <2>1
  <2> QED BY <1>0, <2>1, <2>2, <2>3, <2>4 DEF Structured
<1>5. ASSUME ClearSymOps PROVE Structured' /\ Idle /\ UNCHANGED loop
  <2>1. /\ symops' = <<>> /\ Idle
        /\ kind' = kind /\ atoms' = atoms /\ precision' = precision /\ symatoms' = <<>> /\ cached' = FALSE
        /\ UNCHANGED loop
    BY <1>5 DEF ClearSymOps, DropCache
  <2>2. symops' \in Seq(SymOps) /\ DOMAIN symops' = {} /\ DOMAIN symatoms' = {}
    BY <2>1
  <2> QED BY <1>0, <2>1, <2>2 DEF Structured
<1>6. ASSUME NEW e \in Precisions, SetSymmetryPrecision(e) PROVE Structured' /\ Idle /\ UNCHANGED loop
  <2>1. /\ symops' = symops /\ Idle /\ precision' = e
        /\ kind' = kind /\ atoms' = atoms /\ symatoms' = <<>> /\ cached' = FALSE
        /\ UNCHANGED loop
    BY <1>6 DEF SetSymmetryPrecision, DropCache
  <2>2. DOMAIN symatoms' = {}
    BY <2>1
  <2> QED BY <1>0, <1>6, <2>1, <2>2 DEF Structured
<1>7. ASSUME UpdateSymmetryPositions PROVE Structured' /\ Idle /\ UNCHANGED loop
  <2>1. /\ RefreshCache /\ Idle /\ UNCHANGED loop
        /\ kind' = kind /\ atoms' = atoms /\ symops' = symops /\ precision' = precision
    BY <1>7 DEF UpdateSymmetryPositions, structure
  <2>2. cached' \in BOOLEAN /\ \A i \in DOMAIN symatoms' : symatoms'[i] # <<>>
    BY <2>1, RefreshedIs
  <2> QED BY <1>0, <2>1, <2>2 DEF Structured
<1> QED BY <1>1, <1>2, <1>3, <1>4, <1>5, <1>6, <1>7 DEF Edit

(* and no loop is under way then. *)
LEMMA EditStep ==
  ASSUME IInv, Edit
  PROVE  IInv' /\ Loop!Select
<1>1. Structured' /\ Idle /\ UNCHANGED loop
  BY EditIs DEF IInv
<1>2. gen' = gen /\ selected' = selected /\ seen' = seen /\ selected = {} /\ seen = {} /\ Idle'
  BY <1>1 DEF IInv, Resting, loop, Idle
<1>3. Loop!Select
  BY <1>2 DEF Loop!Select
<1>4. Resting' /\ Prepared' /\ Underway'
  BY <1>2 DEF Resting, Prepared, Underway
<1> QED BY <1>1, <1>3, <1>4 DEF IInv

(* Between loops. *)
LEMMA SelectStep ==
  ASSUME Structured', Prepared', selected' = {}, seen' = {}, Idle' \/ GeneratorFinished(gen)'
  PROVE  IInv' /\ Loop!Select
<1>1. Standing' = {}
  BY DEF Standing, BondsAt
<1>2. Loop!Select
  BY <1>1 DEF Loop!Select, Standing
<1>3. Resting' /\ Underway'
  BY DEF Resting, Underway
<1> QED BY <1>2, <1>3 DEF IInv

(* Calls on the generator leave the structure alone. *)
LEMMA StructuredStays ==
  ASSUME Structured, UNCHANGED <<structure, cache>>
  PROVE  Structured' /\ Complete' = Complete /\ UNCHANGED <<kind, atoms, symatoms>>
         /\ Sites' = Sites /\ ExpandedAll' = ExpandedAll /\ \A i : R0(i)' = R0(i)
<1>1. kind' = kind /\ atoms' = atoms /\ symops' = symops /\ precision' = precision
      /\ symatoms' = symatoms /\ cached' = cached
  BY DEF structure, cache
<1>2. Structured'
  BY <1>1 DEF Structured
<1>3. Sites' = Sites
  BY <1>1 DEF Sites
<1>4. Complete' = Complete
  BY <1>1, <1>3 DEF Complete
<1>5. \A x : Expanded(x)' = Expanded(x)
  BY <1>1 DEF Expanded
<1>6. ExpandedAll' = ExpandedAll
  BY <1>1, <1>3, <1>5 DEF ExpandedAll
<1>7. \A i : R0(i)' = R0(i)
  BY <1>1 DEF R0, Places
<1> QED BY <1>1, <1>2, <1>3, <1>4, <1>6, <1>7

(* A new generator starts finished. *)
LEMMA StartStep ==
  ASSUME IInv, NEW r \in Radii, StartSum(r)
  PROVE  IInv' /\ Loop!Select
<1>1. Structured /\ RefreshCache /\ UNCHANGED structure /\ selected' = {} /\ seen' = {}
  BY DEF IInv, StartSum
<1>2. kind' = kind /\ atoms' = atoms /\ symops' = symops /\ precision' = precision
  BY <1>1 DEF structure
<1>3. /\ cached' \in BOOLEAN /\ \A i \in DOMAIN symatoms' : symatoms'[i] # <<>>
      /\ kind = "crystal" => symatoms' = ExpandedAll
  BY <1>1, RefreshedIs
<1>4. Structured'
  BY <1>1, <1>2, <1>3 DEF Structured
<1>5. Sites' = Sites /\ ExpandedAll' = ExpandedAll
  BY <1>2 DEF Sites, ExpandedAll, Expanded
<1> DEFINE N == Len(atoms)
           S == [i \in Sites |-> i]
           h == [anchor |-> 0, r0 |-> <<0, 0, 0>>, sites |-> S,
                 current |-> 1, rmin |-> r[1], rmax |-> r[2], msphere |-> NoSphere, symidx |-> 1]
<1>6. N \in Nat /\ Sites = 1..N
  BY <1>1 DEF Structured, Sites
<1>7. S \in Seq(Nat) /\ Len(S) = N /\ DOMAIN S = 1..N /\ \A k \in 1..N : S[k] = k
  BY <1>6
<1>8. r[1] \in Nat /\ r[2] \in Nat /\ <<r[1], r[2]>> \in Radii
  <2>1. r \in Nat \X Nat
    BY BoundsAssumption
  <2>2. r = <<r[1], r[2]>>
    BY <2>1
  <2> QED BY <2>1, <2>2
<1>9. gen' = SetFinishedFlag(h)
  BY DEF StartSum
<1> HIDE DEF S, N
<1>10. gen' = [anchor |-> 0, r0 |-> <<0, 0, 0>>, sites |-> S, current |-> N + 1, rmin |-> r[1], rmax |-> r[2],
               msphere |-> NoSphere, symidx |-> 1]
  BY <1>7, <1>9 DEF SetFinishedFlag
<1>11. gen' \in Generators
  <2>1. <<0, 0, 0>> \in Vectors /\ N + 1 \in Nat
    BY <1>6 DEF Vectors
  <2> QED BY <1>7, <1>8, <1>10, <2>1 DEF Generators
<1>12. /\ gen'.anchor = 0 /\ gen'.sites = S /\ gen'.current = N + 1 /\ gen'.rmin = r[1] /\ gen'.rmax = r[2]
       /\ gen'.msphere = NoSphere
  BY <1>10
<1>13. GeneratorFinished(gen)'
  BY <1>6, <1>7, <1>12 DEF GeneratorFinished
<1>14. Prepared'
  <2>1. <<gen'.rmin, gen'.rmax>> \in Radii
    BY <1>8, <1>12
  <2>2. /\ \A k \in DOMAIN gen'.sites : gen'.sites[k] \in Sites'
        /\ \A j, k \in DOMAIN gen'.sites : gen'.sites[j] = gen'.sites[k] => j = k
        /\ Len(gen'.sites) =< Len(atoms')
    BY <1>2, <1>5, <1>6, <1>7, <1>12 DEF N
  <2>3. gen'.current \in 1..Len(gen'.sites) + 1
    BY <1>6, <1>7, <1>12
  <2>4. ~(gen'.anchor > 0)
    BY <1>12
  <2>5. gen'.msphere \in IF kind' = "atomic" THEN {NoSphere} ELSE Turns(Ball(gen')) \cup {NoSphere}
    BY <1>12
  <2>6. kind' = "crystal" => symatoms' = ExpandedAll'
    BY <1>2, <1>3, <1>5
  <2> QED BY <1>11, <2>1, <2>2, <2>3, <2>4, <2>5, <2>6 DEF Prepared
<1> QED BY <1>1, <1>4, <1>13, <1>14, SelectStep

(* setFinishedFlag changes nothing else. *)
LEMMA FinishedFlagIs ==
  ASSUME NEW k \in Generators
  PROVE  LET h == SetFinishedFlag(k)
         IN  /\ h \in Generators /\ h.current = Len(k.sites) + 1 /\ h.anchor = k.anchor /\ h.r0 = k.r0
             /\ h.sites = k.sites /\ h.rmin = k.rmin /\ h.rmax = k.rmax /\ h.msphere = k.msphere
             /\ GeneratorFinished(h)
<1> DEFINE n == Len(k.sites) + 1
           h == [k EXCEPT !.current = n]
<1>1. n \in Nat /\ Len(k.sites) \in Nat
  BY GeneratorIs
<1> HIDE DEF n
<1>2. /\ h \in Generators /\ h.current = n /\ h.anchor = k.anchor /\ h.r0 = k.r0
      /\ h.sites = k.sites /\ h.rmin = k.rmin /\ h.rmax = k.rmax /\ h.msphere = k.msphere
  BY <1>1 DEF Generators
<1>3. SetFinishedFlag(k) = h
  BY DEF SetFinishedFlag, n
<1> HIDE DEF h
<1>4. GeneratorFinished(h)
  BY <1>1, <1>2 DEF GeneratorFinished, n
<1> QED BY <1>2, <1>3, <1>4 DEF n

(* Selections finish a generator, *)
LEMMA SelectBondsStep ==
  ASSUME IInv, NEW i \in Sites, NEW selection \in Selections, SelectBonds(i, selection)
  PROVE  IInv' /\ Loop!Select
<1> DEFINE k == [gen EXCEPT !.anchor = i, !.r0 = R0(i), !.sites = selection]
           N == Len(selection)
<1>1. /\ Structured /\ Prepared /\ ~Idle /\ gen' = SetFinishedFlag(k) /\ selected' = {} /\ seen' = {}
      /\ UNCHANGED <<structure, cache>>
  BY DEF IInv, SelectBonds, Reconfigure
<1>2. Structured' /\ UNCHANGED <<kind, atoms, symatoms>> /\ Sites' = Sites /\ ExpandedAll' = ExpandedAll
      /\ R0(i)' = R0(i)
  BY <1>1, StructuredStays
<1>3. Sites = 1..Len(atoms) /\ Len(atoms) \in Nat /\ i \in Nat /\ i \in 1..Len(atoms)
  BY <1>1 DEF Structured, Sites
<1>4. /\ selection \in Seq(Nat) /\ N =< Len(atoms) /\ DOMAIN selection = 1..N /\ N \in Nat
      /\ \A j \in 1..N : selection[j] \in Sites
      /\ \A j, l \in 1..N : selection[j] = selection[l] => j = l
  <2>1. CASE selection = [j \in Sites |-> j]
    BY <1>3, <2>1
  <2>2. ASSUME NEW l \in Sites, selection = <<l>>
        PROVE  /\ selection \in Seq(Nat) /\ N = 1 /\ DOMAIN selection = 1..N /\ selection[1] \in Sites
    BY <1>3, <2>2
  <2>3. CASE \E l \in Sites : selection = <<l>>
    <3>1. selection \in Seq(Nat) /\ N = 1 /\ DOMAIN selection = 1..N /\ selection[1] \in Sites
      BY <2>2, <2>3
    <3>2. \A j \in 1..N : j = 1
      BY <3>1
    <3> HIDE DEF N
    <3> QED BY <1>3, <3>1, <3>2
  <2> QED BY <2>1, <2>3 DEF Selections
<1>5. R0(i) \in Vectors
  <2>1. Places(i) \in Seq(Vectors) /\ Places(i) # <<>>
    BY <1>1, PlacesAre DEF Prepared
  <2>2. Places(i)[1] \in Vectors
    BY <2>1
  <2> QED BY <2>2, VectorsAre DEF R0
<1>6. gen \in Generators
  BY <1>1 DEF Prepared
<1> HIDE DEF N
<1>7. /\ k \in Generators /\ k.anchor = i /\ k.r0 = R0(i) /\ k.sites = selection
      /\ k.rmin = gen.rmin /\ k.rmax = gen.rmax /\ k.msphere = gen.msphere
  BY <1>3, <1>4, <1>5, <1>6 DEF Generators
<1> HIDE DEF k
<1>8. /\ gen' \in Generators /\ gen'.anchor = i /\ gen'.r0 = R0(i) /\ gen'.sites = selection
      /\ gen'.rmin = gen.rmin /\ gen'.rmax = gen.rmax /\ gen'.msphere = gen.msphere
      /\ gen'.current = N + 1
  BY <1>1, <1>7, FinishedFlagIs DEF N
<1>9. GeneratorFinished(gen)'
  BY <1>4, <1>8 DEF GeneratorFinished, N
<1>10. Ball(gen)' = Ball(gen)
  BY <1>8 DEF Ball
<1>11. Prepared'
  <2>1. /\ <<gen'.rmin, gen'.rmax>> \in Radii
        /\ gen'.msphere \in IF kind' = "atomic" THEN {NoSphere} ELSE Turns(Ball(gen)) \cup {NoSphere}
        /\ kind' = "crystal" => symatoms' = ExpandedAll'
    BY <1>1, <1>2, <1>8 DEF Prepared
  <2>2. /\ \A j \in DOMAIN gen'.sites : gen'.sites[j] \in Sites'
        /\ \A j, l \in DOMAIN gen'.sites : gen'.sites[j] = gen'.sites[l] => j = l
        /\ Len(gen'.sites) =< Len(atoms')
        /\ gen'.current \in 1..Len(gen'.sites) + 1
    BY <1>2, <1>4, <1>8 DEF N
  <2>3. gen'.anchor \in Sites' /\ gen'.r0 = R0(gen.anchor)'
    BY <1>2, <1>8
  <2> QED BY <1>8, <1>10, <2>1, <2>2, <2>3 DEF Prepared
<1> QED BY <1>1, <1>2, <1>9, <1>11, SelectStep

(* so do limits that change, *)
LEMMA ChangeRadiiStep ==
  ASSUME IInv, NEW r \in Radii, ChangeRadii(r)
  PROVE  IInv' /\ Loop!Select
<1>1. /\ Structured /\ Prepared /\ ~Idle /\ gen' = SetRadii(gen, r[1], r[2]) /\ selected' = {} /\ seen' = {}
      /\ UNCHANGED <<structure, cache>> /\ r # <<gen.rmin, gen.rmax>>
  BY DEF IInv, ChangeRadii, Reconfigure
<1>2. Structured' /\ UNCHANGED <<kind, atoms, symatoms>> /\ Sites' = Sites /\ ExpandedAll' = ExpandedAll
      /\ \A i : R0(i)' = R0(i)
  BY <1>1, StructuredStays
<1>3. r[1] \in Nat /\ r[2] \in Nat /\ r = <<r[1], r[2]>>
  <2>1. r \in Nat \X Nat
    BY BoundsAssumption
  <2> QED BY <2>1
<1>4. gen \in Generators /\ Len(gen.sites) \in Nat
  BY <1>1, GeneratorIs DEF Prepared
<1> DEFINE k == [gen EXCEPT !.rmin = r[1], !.rmax = r[2], !.msphere = NoSphere]
<1>5. gen' = SetFinishedFlag(k)
  <2>1. ~(r[1] = gen.rmin /\ r[2] = gen.rmax)
    BY <1>1, <1>3
  <2> QED BY <1>1, <2>1 DEF SetRadii
<1>6. /\ k \in Generators /\ k.anchor = gen.anchor /\ k.r0 = gen.r0 /\ k.sites = gen.sites
      /\ k.rmin = r[1] /\ k.rmax = r[2] /\ k.msphere = NoSphere
  BY <1>3, <1>4 DEF Generators
<1> HIDE DEF k
<1>7. /\ gen' \in Generators /\ gen'.anchor = gen.anchor /\ gen'.r0 = gen.r0 /\ gen'.sites = gen.sites
      /\ gen'.rmin = r[1] /\ gen'.rmax = r[2] /\ gen'.msphere = NoSphere
      /\ gen'.current = Len(gen.sites) + 1
  BY <1>5, <1>6, FinishedFlagIs
<1>8. GeneratorFinished(gen)'
  BY <1>4, <1>7 DEF GeneratorFinished
<1>9. Prepared'
  <2>1. /\ \A j \in DOMAIN gen'.sites : gen'.sites[j] \in Sites'
        /\ \A j, l \in DOMAIN gen'.sites : gen'.sites[j] = gen'.sites[l] => j = l
        /\ Len(gen'.sites) =< Len(atoms')
        /\ gen'.current \in 1..Len(gen'.sites) + 1
        /\ kind' = "crystal" => symatoms' = ExpandedAll'
    BY <1>1, <1>2, <1>4, <1>7 DEF Prepared
  <2>2. gen'.anchor > 0 => gen'.anchor \in Sites' /\ gen'.r0 = R0(gen.anchor)'
    BY <1>1, <1>2, <1>7 DEF Prepared
  <2>3. <<gen'.rmin, gen'.rmax>> \in Radii
    BY <1>3, <1>7
  <2>4. gen'.msphere \in IF kind' = "atomic" THEN {NoSphere} ELSE Turns(Ball(gen')) \cup {NoSphere}
    BY <1>7
  <2> QED BY <1>7, <2>1, <2>2, <2>3, <2>4 DEF Prepared
<1> QED BY <1>1, <1>2, <1>8, <1>9, SelectStep

(* and so does the end of its use. *)
LEMMA EndStep ==
  ASSUME IInv, EndSum
  PROVE  IInv' /\ Loop!Select
<1>1. Structured /\ gen' = NoGenerator /\ selected' = {} /\ seen' = {} /\ UNCHANGED <<structure, cache>>
  BY DEF IInv, EndSum
<1>2. Structured' /\ Idle'
  BY <1>1, StructuredStays DEF Idle
<1>3. Prepared'
  BY <1>2 DEF Prepared
<1> QED BY <1>1, <1>2, <1>3, SelectStep

(* A generator that a loop turns into. *)
LEMMA TurnIs ==
  ASSUME Structured, Prepared, ~Idle, gen' \in Looping(gen), gen'.current \in 1..Len(gen.sites) + 1,
         UNCHANGED <<structure, cache>>
  PROVE  Structured' /\ Prepared' /\ ~Idle' /\ AllOf(gen)' = AllOf(gen) /\ BondsInRange(gen') = BondsInRange(gen)
<1>1. /\ gen' \in Generators /\ gen'.anchor = gen.anchor /\ gen'.r0 = gen.r0 /\ gen'.sites = gen.sites
      /\ gen'.rmin = gen.rmin /\ gen'.rmax = gen.rmax
      /\ gen'.msphere \in IF kind = "atomic" THEN {NoSphere} ELSE Turns(Ball(gen))
  BY DEF Looping, Configured
<1>2. Structured' /\ UNCHANGED <<kind, atoms, symatoms>> /\ Sites' = Sites /\ ExpandedAll' = ExpandedAll
      /\ \A i : R0(i)' = R0(i)
  BY StructuredStays
<1>3. ~Idle'
  BY <1>1, GeneratorsAreNot DEF Idle
<1>4. Prepared'
  <2>1. /\ \A j \in DOMAIN gen'.sites : gen'.sites[j] \in Sites'
        /\ \A j, l \in DOMAIN gen'.sites : gen'.sites[j] = gen'.sites[l] => j = l
        /\ Len(gen'.sites) =< Len(atoms')
        /\ kind' = "crystal" => symatoms' = ExpandedAll'
        /\ <<gen'.rmin, gen'.rmax>> \in Radii
    BY <1>1, <1>2 DEF Prepared
  <2>2. gen'.anchor > 0 => gen'.anchor \in Sites' /\ gen'.r0 = R0(gen.anchor)'
    BY <1>1, <1>2 DEF Prepared
  <2>3. Ball(gen') = Ball(gen)
    BY <1>1 DEF Ball
  <2>4. gen'.msphere \in IF kind' = "atomic" THEN {NoSphere} ELSE Turns(Ball(gen')) \cup {NoSphere}
    BY <1>1, <1>2, <2>3
  <2> QED BY <1>1, <2>1, <2>2, <2>4 DEF Prepared
<1>5. AllOf(gen)' = AllOf(gen)
  <2>1. Ready(gen)
    BY ReadyIs
  <2>2. AllOf(gen') = AllOf(gen)
    BY <2>1, LoopingIs
  <2> QED BY <1>2, <2>2, UnchangedLoop
<1>6. BondsInRange(gen') = BondsInRange(gen)
  BY <1>1 DEF BondsInRange
<1> QED BY <1>2, <1>3, <1>4, <1>5, <1>6

(***************************************************************************)
(* rewind takes the loop to a first bond, or to none if there is none.     *)
(***************************************************************************)
LEMMA RewindStep ==
  ASSUME IInv, RewindLoop
  PROVE  IInv' /\ Loop!Rewind
<1> DEFINE h == Rewind(gen)
           A == AllOf(gen)
<1>1. /\ Structured /\ Prepared /\ gen.anchor > 0 /\ GeneratorFinished(gen) /\ gen' = h
      /\ selected' = BondsInRange(gen') /\ seen' = BondsAt(gen') /\ UNCHANGED <<structure, cache>>
  BY DEF IInv, RewindLoop
<1>2. ~Idle
  <2>1. NoGenerator.anchor = -1
    BY DEF NoGenerator
  <2>2. ~(NoGenerator.anchor > 0)
    BY <2>1
  <2> QED BY <1>1, <2>2 DEF Idle
<1>3. Ready(gen) /\ Len(gen.sites) \in Nat /\ DOMAIN gen.sites = 1..Len(gen.sites)
  BY <1>1, <1>2, ReadyIs, GeneratorIs DEF Ready
<1>4. gen.msphere \in IF kind = "atomic" THEN {NoSphere} ELSE Turns(Ball(gen)) \cup {NoSphere}
  BY <1>1, <1>2 DEF Prepared
<1>5. \/ Ended(gen, h) /\ \A q \in A : ~Valid(q)
      \/ /\ h \in A /\ h \notin Later(h) /\ Valid(h)
         /\ \A q \in A : q = h \/ q \in Later(h) \/ ~Valid(q)
  BY <1>3, <1>4, RewindIs
<1> HIDE DEF h, A
<1>6. h \in Looping(gen) /\ h.current \in 1..Len(gen.sites) + 1
  <2>1. CASE Ended(gen, h)
    BY <1>3, <2>1 DEF Ended
  <2>2. CASE h \in A
    <3>1. h \in Looping(gen) /\ h.current \in 1..Len(gen.sites)
      BY <1>3, <2>2, AllOfIs DEF A
    <3> QED BY <1>3, <3>1
  <2> QED BY <1>5, <2>1, <2>2
<1>7. Structured' /\ Prepared' /\ ~Idle' /\ AllOf(gen)' = A /\ BondsInRange(gen') = BondsInRange(gen)
  BY <1>1, <1>2, <1>6, TurnIs DEF A
<1>8. /\ Complete' = Complete
      /\ \A g : AllOf(g)' = AllOf(g) /\ Later(g)' = Later(g) /\ (Valid(g)' <=> Valid(g))
      /\ \A g : Bond(g)' = Bond(g) /\ BondsAt(g)' = BondsAt(g) /\ BondsInRange(g)' = BondsInRange(g)
  BY <1>1, StructuredStays, UnchangedLoop
<1>9. Standing = {}
  BY <1>1 DEF Standing, BondsAt
<1>10. Standing' = BondsAt(gen')
  BY <1>7, <1>8 DEF Standing
<1>11. Resting'
  BY <1>7 DEF Resting
<1>12. ASSUME Ended(gen, h), \A q \in A : ~Valid(q)
       PROVE  IInv' /\ Loop!Rewind
  <2>1. GeneratorFinished(gen)' /\ BondsAt(gen') = {}
    BY <1>1, <1>12 DEF Ended, GeneratorFinished, BondsAt
  <2>2. Underway'
    BY <2>1 DEF Underway
  <2>3. ASSUME Complete PROVE selected' \subseteq {}
    <3>1. AllInCell(gen)
      BY <1>1, <1>2, <2>3, AllInCellIs
    <3>2. BondsInRange(gen) = {}
      BY <1>3, <1>12, <3>1, BondIsReached DEF A
    <3> QED BY <1>1, <1>7, <3>2
  <2>4. Standing' = {} /\ seen' = {} /\ (selected' \subseteq {} \/ ~Complete)
    BY <1>1, <1>10, <2>1, <2>3
  <2>5. Loop!Rewind
    BY <1>8, <1>9, <2>4 DEF Loop!Rewind, Loop!Continue, Standing, Complete
  <2> QED BY <1>7, <1>11, <2>2, <2>5 DEF IInv
<1>13. ASSUME h \in A, h \notin Later(h), Valid(h), \A q \in A : q = h \/ q \in Later(h) \/ ~Valid(q)
       PROVE  IInv' /\ Loop!Rewind
  <2>1. ~GeneratorFinished(h)
    BY <1>3, <1>13, AllOfIs DEF A
  <2>2. BondsAt(gen') = {Bond(h)} /\ seen' = {Bond(h)} /\ Standing' = {Bond(h)}
    BY <1>1, <1>10, <2>1 DEF BondsAt
  <2>3. Bond(h) \in selected'
    <3>1. Bond(h) \in BondsInRange(gen)
      BY <1>3, <1>13, BondIsInRange DEF A
    <3> QED BY <1>1, <1>7, <3>1
  <2>4. Loop!Rewind
    <3>1. Bond(h) \in selected' \ {} /\ seen' = {} \cup {Bond(h)}
      BY <2>2, <2>3
    <3> QED BY <1>8, <1>9, <2>2, <3>1 DEF Loop!Rewind, Loop!Continue, Standing, Complete
  <2>5. {Bond(h)} = {Bond(q) : q \in {p \in A : p \notin Later(h) /\ Valid(p)}}
    <3>1. {p \in A : p \notin Later(h) /\ Valid(p)} = {h}
      BY <1>13
    <3> QED BY <3>1
  <2>6. Underway'
    <3>1. gen'.anchor > 0
      <4>1. gen'.anchor = gen.anchor
        BY <1>1, <1>6 DEF Looping, Configured
      <4> QED BY <1>1, <4>1
    <3>2. gen' \in AllOf(gen)' /\ Valid(gen)' /\ selected' = BondsInRange(gen)'
      BY <1>1, <1>7, <1>8, <1>13
    <3>3. Later(gen)' = Later(h)
      BY <1>1, <1>8
    <3>4. {Bond(q) : q \in {p \in AllOf(gen) : p \notin Later(gen) /\ Valid(p)}}'
            = {Bond(q) : q \in {p \in A : p \notin Later(h) /\ Valid(p)}}
      BY <1>7, <1>8, <3>3
    <3>5. seen' = {Bond(q) : q \in {p \in AllOf(gen) : p \notin Later(gen) /\ Valid(p)}}'
      BY <2>2, <2>5, <3>4
    <3> QED BY <3>1, <3>2, <3>5 DEF Underway
  <2> QED BY <1>7, <1>11, <2>4, <2>6 DEF IInv
<1> QED BY <1>5, <1>12, <1>13

(***************************************************************************)
(* next takes it to another, that it has not been to if positions differ.  *)
(***************************************************************************)
LEMMA NextStep ==
  ASSUME IInv, NextBond
  PROVE  /\ IInv' /\ (ImagesDiffer => Loop!Move)
         /\ Loop!AllVisited => Loop!AllVisited'
<1> DEFINE h == AdvanceWhileInvalid(GetNextBond(gen))
           A == AllOf(gen)
           Passed(g) == {p \in A : p \notin Later(g) /\ Valid(p)}
<1>1. /\ Structured /\ Prepared /\ ~Idle /\ ~GeneratorFinished(gen) /\ gen' = h
      /\ selected' = selected /\ seen' = seen \cup BondsAt(gen') /\ UNCHANGED <<structure, cache>>
  BY DEF IInv, NextBond
<1>2. /\ gen.anchor > 0 /\ gen \in A /\ Valid(gen)
      /\ selected = BondsInRange(gen) /\ seen = {Bond(q) : q \in Passed(gen)}
  BY <1>1 DEF IInv, Underway
<1>3. Ready(gen) /\ Len(gen.sites) \in Nat /\ DOMAIN gen.sites = 1..Len(gen.sites)
  BY <1>1, ReadyIs, GeneratorIs DEF Ready
<1>4. ImagesDiffer => PlacesAreApart
  BY <1>1, ApartIs DEF Prepared
<1>5. \/ Ended(gen, h) /\ \A q \in Later(gen) : ~Valid(q)
      \/ /\ h \in Later(gen) /\ h \notin Later(h) /\ Later(h) \subseteq Later(gen) /\ Valid(h)
         /\ \A q \in Later(gen) : q = h \/ q \in Later(h) \/ ~Valid(q)
  BY <1>2, <1>3, NextBondIs
<1> HIDE DEF h, A
<1>6. h \in Looping(gen) /\ h.current \in 1..Len(gen.sites) + 1
  <2>1. CASE Ended(gen, h)
    BY <1>3, <2>1 DEF Ended
  <2>2. CASE h \in Later(gen)
    <3>1. h \in AllOf(gen)
      BY <2>2 DEF Later
    <3>2. h \in Looping(gen) /\ h.current \in 1..Len(gen.sites)
      BY <1>3, <3>1, AllOfIs
    <3> QED BY <1>3, <3>2
  <2> QED BY <1>5, <2>1, <2>2
<1>7. Structured' /\ Prepared' /\ ~Idle' /\ AllOf(gen)' = A /\ BondsInRange(gen') = BondsInRange(gen)
  BY <1>1, <1>6, TurnIs DEF A
<1>8. /\ Complete' = Complete
      /\ \A g : AllOf(g)' = AllOf(g) /\ Later(g)' = Later(g) /\ (Valid(g)' <=> Valid(g))
      /\ \A g : Bond(g)' = Bond(g) /\ BondsAt(g)' = BondsAt(g) /\ BondsInRange(g)' = BondsInRange(g)
  BY <1>1, StructuredStays, UnchangedLoop
<1>9. Standing # {}
  BY <1>1 DEF Standing, BondsAt
<1>10. Standing' = BondsAt(gen')
  BY <1>7, <1>8 DEF Standing
<1>11. Resting'
  BY <1>7 DEF Resting
<1>12. ASSUME Ended(gen, h), \A q \in Later(gen) : ~Valid(q)
       PROVE  /\ IInv' /\ (ImagesDiffer => Loop!Move)
              /\ Loop!AllVisited => Loop!AllVisited'
  <2>1. GeneratorFinished(gen)' /\ BondsAt(gen') = {}
    BY <1>1, <1>12 DEF Ended, GeneratorFinished, BondsAt
  <2>2. Underway'
    BY <2>1 DEF Underway
  <2>3. ASSUME Complete PROVE selected \subseteq seen
    <3>1. AllInCell(gen)
      BY <1>1, <1>2, <2>3, AllInCellIs
    <3>2. ASSUME NEW b \in selected PROVE b \in seen
      <4>1. PICK q \in A : Valid(q) /\ Bond(q) = b
        BY <1>2, <1>3, <3>1, <3>2, BondIsReached DEF A
      <4>2. q \in Passed(gen)
        BY <1>12, <4>1
      <4> HIDE DEF Passed
      <4> QED BY <1>2, <4>1, <4>2
    <3> QED BY <3>2
  <2>4. Standing' = {} /\ seen' = seen /\ (selected' \subseteq seen \/ ~Complete)
    BY <1>1, <1>10, <2>1, <2>3
  <2>5. Loop!Move
    BY <1>1, <1>8, <1>9, <2>4 DEF Loop!Move, Loop!Continue, Standing, Complete
  <2>6. Loop!AllVisited => Loop!AllVisited'
    <3>1. Standing' \subseteq seen'
      BY <2>4
    <3>2. /\ seen \subseteq selected => seen' \subseteq selected'
          /\ seen \subseteq selected /\ Complete' => seen' = selected'
      BY <1>1, <1>8, <2>4
    <3> QED BY <3>1, <3>2 DEF Loop!AllVisited, Standing, Complete
  <2> QED BY <1>7, <1>11, <2>2, <2>5, <2>6 DEF IInv
<1>13. ASSUME h \in Later(gen), h \notin Later(h), Later(h) \subseteq Later(gen), Valid(h),
              \A q \in Later(gen) : q = h \/ q \in Later(h) \/ ~Valid(q)
       PROVE  /\ IInv' /\ (ImagesDiffer => Loop!Move)
              /\ Loop!AllVisited => Loop!AllVisited'
  <2>0. h \in A /\ Later(gen) \subseteq A
    BY <1>13 DEF Later, A
  <2>1. ~GeneratorFinished(h)
    BY <1>3, <2>0, AllOfIs DEF A
  <2>2. BondsAt(gen') = {Bond(h)} /\ seen' = seen \cup {Bond(h)} /\ Standing' = {Bond(h)}
    BY <1>1, <1>10, <2>1 DEF BondsAt
  <2>3. Bond(h) \in selected'
    <3>1. Bond(h) \in BondsInRange(gen)
      BY <1>3, <1>13, <2>0, BondIsInRange DEF A
    <3> QED BY <1>1, <1>2, <3>1
  <2>4. ASSUME ImagesDiffer PROVE Bond(h) \notin seen
    <3>1. SUFFICES ASSUME NEW q \in Passed(gen), Bond(q) = Bond(h) PROVE FALSE
      <4> HIDE DEF Passed
      <4> QED BY <1>2
    <3>2. q \in A /\ q \notin Later(gen)
      OBVIOUS
    <3>3. q = h
      BY <1>3, <1>4, <2>0, <2>4, <3>1, <3>2, BondsDiffer DEF A
    <3> QED BY <1>13, <3>2, <3>3
  <2>5. ASSUME ImagesDiffer PROVE Loop!Move
    <3>1. Bond(h) \in selected' \ seen
      BY <2>3, <2>4, <2>5
    <3> QED BY <1>1, <1>8, <1>9, <2>2, <3>1 DEF Loop!Move, Loop!Continue, Standing, Complete
  <2>6. seen' = {Bond(q) : q \in Passed(h)}
    <3>1. Passed(h) = Passed(gen) \cup {h}
      BY <1>13, <2>0
    <3> HIDE DEF Passed
    <3> QED BY <1>2, <2>2, <3>1
  <2>7. Underway'
    <3>1. gen'.anchor > 0
      <4>1. gen'.anchor = gen.anchor
        BY <1>1, <1>6 DEF Looping, Configured
      <4> QED BY <1>2, <4>1
    <3>2. gen' \in AllOf(gen)' /\ Valid(gen)' /\ selected' = BondsInRange(gen)'
      BY <1>1, <1>2, <1>7, <1>8, <1>13, <2>0
    <3>3. Later(gen)' = Later(h)
      BY <1>1, <1>8
    <3>4. {Bond(q) : q \in {p \in AllOf(gen) : p \notin Later(gen) /\ Valid(p)}}'
            = {Bond(q) : q \in Passed(h)}
      BY <1>7, <1>8, <3>3
    <3>5. seen' = {Bond(q) : q \in {p \in AllOf(gen) : p \notin Later(gen) /\ Valid(p)}}'
      BY <2>6, <3>4
    <3> QED BY <3>1, <3>2, <3>5 DEF Underway
  <2>8. Loop!AllVisited => Loop!AllVisited'
    <3>1. Standing' \subseteq seen' /\ Standing' # {}
      BY <2>2
    <3>2. seen \subseteq selected => seen' \subseteq selected'
      BY <1>1, <2>2, <2>3
    <3> QED BY <3>1, <3>2 DEF Loop!AllVisited, Standing, Complete
  <2> QED BY <1>7, <1>11, <2>5, <2>7, <2>8 DEF IInv
<1> QED BY <1>5, <1>12, <1>13

-----------------------------------------------------------------------------
(* The theorems.                                                           *)

(* Steps of others. *)
LEMMA UnchangedStep ==
  ASSUME IInv, UNCHANGED vars
  PROVE  IInv' /\ UNCHANGED Loop!vars
<1>1. /\ UNCHANGED <<structure, cache>> /\ UNCHANGED <<kind, atoms, symatoms>>
      /\ gen' = gen /\ selected' = selected /\ seen' = seen
  BY DEF vars, structure, cache, loop
<1>2. Structured /\ Resting /\ Prepared /\ Underway
  BY DEF IInv
<1>3. /\ Structured' /\ Complete' = Complete /\ Sites' = Sites /\ ExpandedAll' = ExpandedAll
      /\ \A i : R0(i)' = R0(i)
  BY <1>1, <1>2, StructuredStays
<1>4. /\ \A g : AllOf(g)' = AllOf(g) /\ Later(g)' = Later(g) /\ (Valid(g)' <=> Valid(g))
      /\ \A g : Bond(g)' = Bond(g) /\ BondsAt(g)' = BondsAt(g) /\ BondsInRange(g)' = BondsInRange(g)
  BY <1>1, UnchangedLoop
<1>5. Idle' <=> Idle
  BY <1>1 DEF Idle
<1>6. Resting'
  BY <1>1, <1>2, <1>5 DEF Resting
<1>7. Ball(gen)' = Ball(gen) /\ GeneratorFinished(gen)' = GeneratorFinished(gen)
  BY <1>1 DEF Ball, GeneratorFinished
<1>8. Prepared'
  BY <1>1, <1>2, <1>3, <1>5, <1>7 DEF Prepared
<1>9. AllOf(gen)' = AllOf(gen) /\ Later(gen)' = Later(gen) /\ (Valid(gen)' <=> Valid(gen))
      /\ BondsAt(gen)' = BondsAt(gen) /\ BondsInRange(gen)' = BondsInRange(gen)
  BY <1>1, <1>4
<1>10. {Bond(q) : q \in {p \in AllOf(gen) : p \notin Later(gen) /\ Valid(p)}}'
         = {Bond(q) : q \in {p \in AllOf(gen) : p \notin Later(gen) /\ Valid(p)}}
  BY <1>4, <1>9
<1>11. Underway'
  BY <1>1, <1>2, <1>5, <1>7, <1>9, <1>10 DEF Underway
<1>12. Standing' = Standing
  BY <1>5, <1>9 DEF Standing
<1> QED BY <1>1, <1>3, <1>6, <1>8, <1>11, <1>12 DEF IInv, Loop!vars, Standing, Complete

(***************************************************************************)
(* Steps of the structure and its generators keep the inductive invariant, *)
(* are steps of the abstract loop, and leave a finished loop complete.     *)
(***************************************************************************)
LEMMA Steps ==
  ASSUME IInv, [Next]_vars
  PROVE  /\ IInv' /\ (ImagesDiffer => [Loop!Next]_(Loop!vars))
         /\ Loop!AllVisited => Loop!AllVisited'
<1>1. ASSUME Loop!Select PROVE Loop!AllVisited'
  BY <1>1 DEF Loop!Select, Loop!AllVisited
<1>2. CASE Edit
  BY <1>1, <1>2, EditStep DEF Loop!Next
<1>3. ASSUME NEW r \in Radii, StartSum(r) PROVE IInv' /\ Loop!Select
  BY <1>3, StartStep
<1>4. ASSUME NEW i \in Sites, NEW selection \in Selections, SelectBonds(i, selection) PROVE IInv' /\ Loop!Select
  BY <1>4, SelectBondsStep
<1>5. ASSUME NEW r \in Radii, ChangeRadii(r) PROVE IInv' /\ Loop!Select
  BY <1>5, ChangeRadiiStep
<1>6. CASE RewindLoop
  <2>1. IInv' /\ Loop!Rewind
    BY <1>6, RewindStep
  <2>2. Loop!AllVisited'
    BY <2>1 DEF Loop!Rewind, Loop!Continue, Loop!AllVisited
  <2> QED BY <2>1, <2>2 DEF Loop!Next
<1>7. CASE NextBond
  BY <1>7, NextStep DEF Loop!Next
<1>8. CASE EndSum
  BY <1>1, <1>8, EndStep DEF Loop!Next
<1>9. CASE UNCHANGED vars
  <2>1. IInv' /\ UNCHANGED Loop!vars
    BY <1>9, UnchangedStep
  <2>2. Loop!AllVisited => Loop!AllVisited'
    BY <2>1 DEF Loop!vars, Loop!AllVisited
  <2> QED BY <2>1, <2>2
<1>10. CASE Next
  <2>1. \/ Edit
        \/ \E r \in Radii : StartSum(r)
        \/ \E i \in Sites, selection \in Selections : SelectBonds(i, selection)
        \/ \E r \in Radii : ChangeRadii(r)
        \/ RewindLoop \/ NextBond \/ EndSum
    BY <1>10 DEF Next, Edit
  <2>2. CASE (\E r \in Radii : StartSum(r)) \/ (\E r \in Radii : ChangeRadii(r))
             \/ \E i \in Sites, selection \in Selections : SelectBonds(i, selection)
    <3>1. IInv' /\ Loop!Select
      BY <1>3, <1>4, <1>5, <2>2
    <3> QED BY <1>1, <3>1 DEF Loop!Next
  <2> QED BY <1>2, <1>6, <1>7, <1>8, <2>1, <2>2
<1> QED BY <1>9, <1>10

(***************************************************************************)
(* Where a generator stands when the structure is edited, selections are   *)
(* made or it is finished is inductive.                                    *)
(***************************************************************************)
THEOREM GeneratorsAreSound == Spec => []IInv
<1>1. Init => IInv
  BY InitIs
<1>2. IInv /\ [Next]_vars => IInv'
  BY Steps
<1> QED BY <1>1, <1>2, PTL DEF Spec

(***************************************************************************)
(* Positions, images and the state of a generator have their types; one    *)
(* that is not finished stands at an image that its site has.              *)
(***************************************************************************)
THEOREM GeneratorTypes == Spec => []TypeOK
<1>1. ASSUME IInv PROVE TypeOK
  <2>1. /\ kind \in Kinds /\ atoms \in Seq(Positions) /\ Len(atoms) =< MaxAtoms /\ precision \in Precisions
        /\ cached \in BOOLEAN /\ \A i \in DOMAIN symatoms : symatoms[i] # <<>>
    BY <1>1 DEF IInv, Structured
  <2>2. \A i \in Sites : atoms[i] \in Positions
    BY <2>1 DEF Sites
  <2>3. ASSUME gen # NoGenerator
        PROVE  gen \in Generators /\ gen.current \in 1..Len(gen.sites) + 1
    BY <1>1, <2>3 DEF IInv, Prepared, Idle
  <2>4. ASSUME gen # NoGenerator, ~GeneratorFinished(gen)
        PROVE  gen.symidx \in DOMAIN Places(Site1(gen))
    <3>1. ~Idle /\ gen \in AllOf(gen)
      BY <1>1, <2>4 DEF IInv, Underway, Idle
    <3>2. Ready(gen)
      BY <1>1, <3>1, ReadyIs DEF IInv
    <3>3. gen.symidx \in 1..Len(Places(Site1(gen))) /\ Site1(gen) \in Sites
      BY <3>1, <3>2, AllOfIs
    <3>4. Places(Site1(gen)) \in Seq(Vectors)
      BY <1>1, <3>1, <3>3, PlacesAre DEF IInv, Prepared
    <3> QED BY <3>3, <3>4
  <2> QED BY <2>1, <2>2, <2>3, <2>4 DEF TypeOK
<1> QED BY <1>1, GeneratorsAreSound, PTL

(***************************************************************************)
(* A loop that is finished has come to all bonds within the limits, if the *)
(* structure is one that all are promised for, and to no others.           *)
(***************************************************************************)
THEOREM FinishedLoopsAreFull == Spec => []Loop!AllVisited
<1>1. Init => IInv /\ Loop!AllVisited
  BY InitIs DEF Loop!Init, Loop!AllVisited
<1>2. IInv /\ Loop!AllVisited /\ [Next]_vars => IInv' /\ Loop!AllVisited'
  BY Steps
<1> QED BY <1>1, <1>2, PTL DEF Spec

(***************************************************************************)
(* The generators implement the loop of their users: they come to bonds in *)
(* some order and to none of them twice, as long as averaging makes no two *)
(* positions of a site one (CrystalStructureAdapter.cpp:184-206).          *)
(***************************************************************************)
THEOREM LoopIsImplemented == Spec /\ []ImagesDiffer => ImplementsLoop
<1>1. Init => IInv /\ Loop!Init
  BY InitIs
<1>2. IInv /\ ImagesDiffer /\ [Next]_vars => IInv' /\ [Loop!Next]_(Loop!vars)
  BY Steps
<1>3. Spec /\ []ImagesDiffer => Loop!Spec
  BY <1>1, <1>2, PTL DEF Spec, Loop!Spec
<1> QED BY <1>3 DEF ImplementsLoop

(* Positions that are not averages are different, *)
LEMMA ExactPlaces ==
  ASSUME Structured, Precisions = {0}, NEW i \in Sites
  PROVE  /\ \A k, l \in DOMAIN Expanded(atoms[i]) :
              Expanded(atoms[i])[k] = Expanded(atoms[i])[l] => k = l
         /\ Represented(atoms[i])
<1> DEFINE places == Expanded(atoms[i])
<1>1. i \in DOMAIN atoms /\ atoms \in Seq(Positions) /\ symops \in Seq(SymOps) /\ precision = 0
  BY DEF Sites, Structured
<1>2. atoms[i] \in Vectors
  BY <1>1, StructureAssumption
<1>3. CASE symops = <<>>
  <2>1. places = <<atoms[i]>>
    BY <1>1, <1>2, <1>3, ExpandedIs DEF Expanded
  <2>2. DOMAIN <<atoms[i]>> = {1} /\ DOMAIN symops = {}
    BY <1>3
  <2> QED BY <2>1, <2>2 DEF Represented
<1>4. CASE symops # <<>>
  <2>1. /\ places \in Seq(Vectors)
        /\ \A k, l \in DOMAIN places : places[k] = places[l] => k = l
        /\ \A j \in DOMAIN symops : \E k \in DOMAIN places :
             places[k] = UcvFractional(Image(symops[j], atoms[i]))
    BY <1>1, <1>2, <1>4, ExpandedIs DEF Expanded
  <2>2. ASSUME NEW j \in DOMAIN symops
        PROVE  \E k \in DOMAIN places : EqualPosition(L, 2 * precision, Image(symops[j], atoms[i]), places[k])
    <3> DEFINE y == Image(symops[j], atoms[i])
    <3>1. PICK k \in DOMAIN places : places[k] = UcvFractional(y)
      BY <2>1
    <3>2. y \in Vectors
      BY <1>1, <1>2, ImageIs
    <3> HIDE DEF y, places
    <3>3. UcvFractional(y) \in Vectors /\ UcvFractional(UcvFractional(y)) = UcvFractional(y)
      <4>1. /\ UcvFractional(y) \in Vectors /\ InCell(UcvFractional(y)) /\ Grid \in Nat \ {0}
        BY <3>2, UcvIs, LatticeIs
      <4> DEFINE z == UcvFractional(y)
      <4>2. z[1] \in 0..Grid - 1 /\ z[2] \in 0..Grid - 1 /\ z[3] \in 0..Grid - 1
            /\ z = <<z[1], z[2], z[3]>>
        BY <4>1, VectorsAre DEF InCell
      <4> HIDE DEF z
      <4>3. ASSUME NEW a \in 0..Grid - 1 PROVE a % Grid = a
        BY <4>1
      <4>4. UcvFractional(z) = z
        BY <4>2, <4>3 DEF UcvFractional
      <4> QED BY <4>1, <4>4 DEF z
    <3>4. 2 * precision = 0
      BY <1>1
    <3>5. EqualPosition(L, 0, y, UcvFractional(y))
      BY <3>2, <3>3, EqualIs
    <3> QED BY <3>1, <3>4, <3>5 DEF y
  <2> QED BY <2>1, <2>2 DEF Represented, places
<1> QED BY <1>3, <1>4

(* and so they are in the cache. *)
LEMMA ImagesStayDifferent ==
  ASSUME IInv, ImagesDiffer, [Next]_vars, Precisions = {0}
  PROVE  ImagesDiffer'
<1>1. Structured
  BY DEF IInv
<1>2. CASE symatoms' = symatoms /\ kind' = kind
  BY <1>2 DEF ImagesDiffer
<1>3. CASE symatoms' = <<>>
  BY <1>3 DEF ImagesDiffer
<1>4. CASE symatoms' = ExpandedAll
  <2>1. DOMAIN symatoms' = Sites /\ \A i \in Sites : symatoms'[i] = Expanded(atoms[i])
    BY <1>4 DEF ExpandedAll
  <2> QED BY <1>1, <2>1, ExactPlaces DEF ImagesDiffer
<1>5. RefreshCache => symatoms' = ExpandedAll \/ (symatoms' = symatoms /\ kind # "crystal")
  BY DEF RefreshCache, cache
<1>6. CASE RefreshCache /\ kind' = kind
  BY <1>2, <1>4, <1>5, <1>6
<1>7. Next => \/ RefreshCache /\ kind' = kind
              \/ symatoms' = symatoms /\ kind' = kind
              \/ symatoms' = <<>>
  BY DEF Next, SetAtom, AppendAtom, EraseLast, AddSymOp, ClearSymOps, SetSymmetryPrecision, DropCache,
         UpdateSymmetryPositions, StartSum, SelectBonds, ChangeRadii, Reconfigure, RewindLoop, NextBond, EndSum,
         structure, cache
<1>8. UNCHANGED vars => symatoms' = symatoms /\ kind' = kind
  BY DEF vars, structure, cache
<1> QED BY <1>2, <1>3, <1>6, <1>7, <1>8

(***************************************************************************)
(* With the finest precision, which takes for one position only images     *)
(* that are equal up to a lattice vector, each image of a site is among    *)
(* its positions and no position is there twice, whatever the operations   *)
(* are and in whatever order they were added                               *)
(* (CrystalStructureAdapter.cpp:151-206).                                  *)
(***************************************************************************)
THEOREM ExactImagesAreRepresented ==
  ASSUME Precisions = {0}
  PROVE  Spec => []ImagesAreRepresented
<1>1. Init => ImagesDiffer
  BY DEF Init, ImagesDiffer
<1>2. IInv /\ ImagesDiffer /\ [Next]_vars => ImagesDiffer'
  BY ImagesStayDifferent
<1>3. IInv /\ ImagesDiffer => ImagesAreRepresented
  BY ExactPlaces DEF IInv, ImagesAreRepresented
<1> QED BY <1>1, <1>2, <1>3, GeneratorsAreSound, PTL DEF Spec

(***************************************************************************)
(* Nothing is averaged then, and the generators implement the loop in all  *)
(* structures.                                                             *)
(***************************************************************************)
THEOREM ExactLoopIsImplemented ==
  ASSUME Precisions = {0}
  PROVE  Spec => ImplementsLoop
<1>1. ImagesAreRepresented => ImagesDiffer
  BY DEF ImagesAreRepresented
<1> QED BY <1>1, ExactImagesAreRepresented, LoopIsImplemented, PTL

(***************************************************************************)
(* Atoms that have only one position, in a molecule or a cell without      *)
(* symmetry, need no precision.                                            *)
(***************************************************************************)
THEOREM PlainLoopIsImplemented ==
  ASSUME "crystal" \notin Kinds
  PROVE  Spec => ImplementsLoop
<1>1. IInv => ImagesDiffer
  BY DEF IInv, Structured, ImagesDiffer
<1> QED BY <1>1, GeneratorsAreSound, LoopIsImplemented, PTL

-----------------------------------------------------------------------------
(* Matrices of integers.                                                   *)

(* A lattice, with its bounds those of the generators. *)
CONSTANTS Shapes, StandardBases, Bases, Coordinates, Qranges
VARIABLES lat, torn

Lat == INSTANCE Lattice

Unit == Lat!Identity

(* A multiple of a vector and of a matrix. *)
Scale(d, x) == <<d * x[1], d * x[2], d * x[3]>>

Times(d, M) == <<Scale(d, M[1]), Scale(d, M[2]), Scale(d, M[3])>>

(* The lattice shares its operators with the generators. *)
LEMMA OperatorsAgree ==
  /\ \A x, y : Lat!Inner(x, y) = Inner(x, y) /\ Lat!Plus(x, y) = Plus(x, y)
  /\ \A M, k : Lat!Column(M, k) = Column(M, k)
  /\ \A M, x : Lat!Cartesian(M, x) = Cartesian(M, x)
  /\ \A M : Lat!Transpose(M) = Transpose(M)
  /\ \A M, N : Lat!Product(M, N) = Product(M, N)
  /\ \A x : Lat!Normsq(x) = Normsq(x)
<1>1. \A x, y : Lat!Inner(x, y) = Inner(x, y) /\ Lat!Plus(x, y) = Plus(x, y)
  BY DEF Lat!Inner, Inner, Lat!Plus, Plus
<1>2. \A M, k : Lat!Column(M, k) = Column(M, k)
  BY DEF Lat!Column, Column
<1>3. \A M, x : Lat!Cartesian(M, x) = Cartesian(M, x)
  BY <1>1, <1>2 DEF Lat!Cartesian, Cartesian
<1>4. \A M : Lat!Transpose(M) = Transpose(M)
  BY <1>2 DEF Lat!Transpose, Transpose
<1>5. \A M, N : Lat!Product(M, N) = Product(M, N)
  BY <1>3 DEF Lat!Product, Product
<1>6. \A x : Lat!Normsq(x) = Normsq(x)
  BY <1>1 DEF Lat!Normsq, Normsq
<1> QED BY <1>1, <1>2, <1>3, <1>4, <1>5, <1>6

(* A vector has three integers, *)
LEMMA VectorIs ==
  ASSUME NEW x \in Vectors
  PROVE  x[1] \in Int /\ x[2] \in Int /\ x[3] \in Int /\ x = <<x[1], x[2], x[3]>>
  BY DEF Vectors

LEMMA IsVector ==
  ASSUME NEW a \in Int, NEW b \in Int, NEW c \in Int
  PROVE  <<a, b, c>> \in Vectors /\ <<a, b, c>>[1] = a /\ <<a, b, c>>[2] = b /\ <<a, b, c>>[3] = c
  BY DEF Vectors

(* and a matrix three vectors. *)
LEMMA MatrixIs ==
  ASSUME NEW M \in Matrices
  PROVE  /\ M[1] \in Vectors /\ M[2] \in Vectors /\ M[3] \in Vectors /\ M = <<M[1], M[2], M[3]>>
         /\ M[1][1] \in Int /\ M[1][2] \in Int /\ M[1][3] \in Int
         /\ M[2][1] \in Int /\ M[2][2] \in Int /\ M[2][3] \in Int
         /\ M[3][1] \in Int /\ M[3][2] \in Int /\ M[3][3] \in Int
<1>1. M[1] \in Vectors /\ M[2] \in Vectors /\ M[3] \in Vectors /\ M = <<M[1], M[2], M[3]>>
  BY DEF Matrices
<1> QED BY <1>1, VectorIs

LEMMA IsMatrix ==
  ASSUME NEW x \in Vectors, NEW y \in Vectors, NEW z \in Vectors
  PROVE  <<x, y, z>> \in Matrices /\ <<x, y, z>>[1] = x /\ <<x, y, z>>[2] = y /\ <<x, y, z>>[3] = z
  BY DEF Matrices

(* They are equal if their entries are. *)
LEMMA SameVector ==
  ASSUME NEW x \in Vectors, NEW y \in Vectors, x[1] = y[1], x[2] = y[2], x[3] = y[3]
  PROVE  x = y
  BY VectorIs

LEMMA SameRows ==
  ASSUME NEW M \in Matrices, NEW N \in Matrices, M[1] = N[1], M[2] = N[2], M[3] = N[3]
  PROVE  M = N
  BY MatrixIs

(* Rows times a matrix, *)
LEMMA RowTimes ==
  ASSUME NEW M \in Matrices, NEW x \in Vectors
  PROVE  /\ Cartesian(M, x) \in Vectors
         /\ Cartesian(M, x)[1] = x[1] * M[1][1] + x[2] * M[2][1] + x[3] * M[3][1]
         /\ Cartesian(M, x)[2] = x[1] * M[1][2] + x[2] * M[2][2] + x[3] * M[3][2]
         /\ Cartesian(M, x)[3] = x[1] * M[1][3] + x[2] * M[2][3] + x[3] * M[3][3]
<1> DEFINE a == x[1] * M[1][1] + x[2] * M[2][1] + x[3] * M[3][1]
           b == x[1] * M[1][2] + x[2] * M[2][2] + x[3] * M[3][2]
           c == x[1] * M[1][3] + x[2] * M[2][3] + x[3] * M[3][3]
<1>1. Cartesian(M, x) = <<a, b, c>>
  BY DEF Cartesian, Inner, Column
<1>2. a \in Int /\ b \in Int /\ c \in Int
  BY MatrixIs, VectorIs
<1> HIDE DEF a, b, c
<1>3. Cartesian(M, x) \in Vectors /\ Cartesian(M, x)[1] = a /\ Cartesian(M, x)[2] = b
      /\ Cartesian(M, x)[3] = c
  BY <1>1, <1>2, IsVector
<1> QED BY <1>3 DEF a, b, c

(* and what is made of matrices. *)
LEMMA ProductIs ==
  ASSUME NEW M \in Matrices, NEW N \in Matrices
  PROVE  /\ Product(M, N) \in Matrices
         /\ Product(M, N)[1] = Cartesian(N, M[1])
         /\ Product(M, N)[2] = Cartesian(N, M[2])
         /\ Product(M, N)[3] = Cartesian(N, M[3])
<1>1. /\ Cartesian(N, M[1]) \in Vectors /\ Cartesian(N, M[2]) \in Vectors
      /\ Cartesian(N, M[3]) \in Vectors
  BY MatrixIs, RowTimes
<1>2. Product(M, N) = <<Cartesian(N, M[1]), Cartesian(N, M[2]), Cartesian(N, M[3])>>
  BY DEF Product
<1> QED BY <1>1, <1>2, IsMatrix

LEMMA TransposeIs ==
  ASSUME NEW M \in Matrices
  PROVE  /\ Transpose(M) \in Matrices
         /\ Transpose(M)[1] = <<M[1][1], M[2][1], M[3][1]>>
         /\ Transpose(M)[2] = <<M[1][2], M[2][2], M[3][2]>>
         /\ Transpose(M)[3] = <<M[1][3], M[2][3], M[3][3]>>
<1>1. /\ <<M[1][1], M[2][1], M[3][1]>> \in Vectors
      /\ <<M[1][2], M[2][2], M[3][2]>> \in Vectors
      /\ <<M[1][3], M[2][3], M[3][3]>> \in Vectors
  BY MatrixIs, IsVector
<1>2. Transpose(M) = <<<<M[1][1], M[2][1], M[3][1]>>, <<M[1][2], M[2][2], M[3][2]>>,
                       <<M[1][3], M[2][3], M[3][3]>>>>
  BY DEF Transpose, Column
<1> QED BY <1>1, <1>2, IsMatrix

LEMMA ScaleIs ==
  ASSUME NEW d \in Int, NEW x \in Vectors
  PROVE  /\ Scale(d, x) \in Vectors
         /\ Scale(d, x)[1] = d * x[1] /\ Scale(d, x)[2] = d * x[2] /\ Scale(d, x)[3] = d * x[3]
<1>1. d * x[1] \in Int /\ d * x[2] \in Int /\ d * x[3] \in Int
  BY VectorIs
<1> QED BY <1>1, IsVector DEF Scale

LEMMA TimesIs ==
  ASSUME NEW d \in Int, NEW M \in Matrices
  PROVE  /\ Times(d, M) \in Matrices
         /\ Times(d, M)[1] = Scale(d, M[1]) /\ Times(d, M)[2] = Scale(d, M[2])
         /\ Times(d, M)[3] = Scale(d, M[3])
<1>1. Scale(d, M[1]) \in Vectors /\ Scale(d, M[2]) \in Vectors /\ Scale(d, M[3]) \in Vectors
  BY MatrixIs, ScaleIs
<1> QED BY <1>1, IsMatrix DEF Times

LEMMA UnitIs ==
  /\ Unit \in Matrices
  /\ Unit[1] = <<1, 0, 0>> /\ Unit[2] = <<0, 1, 0>> /\ Unit[3] = <<0, 0, 1>>
<1>1. <<1, 0, 0>> \in Vectors /\ <<0, 1, 0>> \in Vectors /\ <<0, 0, 1>> \in Vectors
  BY IsVector
<1> QED BY <1>1, IsMatrix DEF Unit, Lat!Identity

LEMMA AdjugateIs ==
  ASSUME NEW M \in Matrices
  PROVE  /\ Lat!Adjugate(M) \in Matrices
         /\ \A i, k \in 1..3 :
              Lat!Adjugate(M)[i][k] =
                M[Lat!After(k)][Lat!After(i)] * M[Lat!After(Lat!After(k))][Lat!After(Lat!After(i))]
                  - M[Lat!After(k)][Lat!After(Lat!After(i))] * M[Lat!After(Lat!After(k))][Lat!After(i)]
<1> DEFINE A(i, k) == M[Lat!After(k)][Lat!After(i)] * M[Lat!After(Lat!After(k))][Lat!After(Lat!After(i))]
                        - M[Lat!After(k)][Lat!After(Lat!After(i))] * M[Lat!After(Lat!After(k))][Lat!After(i)]
<1>1. Lat!Adjugate(M) = [i \in 1..3 |-> [k \in 1..3 |-> A(i, k)]]
  BY DEF Lat!Adjugate
<1>2. ASSUME NEW i \in 1..3, NEW k \in 1..3
      PROVE  A(i, k) \in Int
  <2>1. \A l \in 1..3 : Lat!After(l) \in 1..3
    BY DEF Lat!After
  <2>2. \A l, m \in 1..3 : M[l][m] \in Int
    BY MatrixEntries
  <2>3. ASSUME NEW a \in Int, NEW b \in Int, NEW c \in Int, NEW e \in Int
        PROVE  a * b - c * e \in Int
    OBVIOUS
  <2> QED BY <2>1, <2>2, <2>3
<1> HIDE DEF A
<1>3. ASSUME NEW i \in 1..3, NEW k \in 1..3
      PROVE  Lat!Adjugate(M)[i][k] = A(i, k)
  BY <1>1
<1>4. ASSUME NEW i \in 1..3
      PROVE  Lat!Adjugate(M)[i] \in Vectors
  <2>1. Lat!Adjugate(M)[i] = <<A(i, 1), A(i, 2), A(i, 3)>>
    BY <1>1
  <2>2. A(i, 1) \in Int /\ A(i, 2) \in Int /\ A(i, 3) \in Int
    BY <1>2
  <2> QED BY <2>1, <2>2, IsVector
<1>5. Lat!Adjugate(M) = <<Lat!Adjugate(M)[1], Lat!Adjugate(M)[2], Lat!Adjugate(M)[3]>>
  BY <1>1
<1>6. Lat!Adjugate(M) \in Matrices
  BY <1>4, <1>5, IsMatrix
<1> QED BY <1>3, <1>6 DEF A

LEMMA MinorIs ==
  ASSUME NEW M \in Matrices, NEW i \in 1..3, NEW k \in 1..3,
         NEW f, NEW g, NEW h, NEW j,
         f = Lat!After(k), h = Lat!After(f), g = Lat!After(i), j = Lat!After(g)
  PROVE  Lat!Adjugate(M)[i][k] = M[f][g] * M[h][j] - M[f][j] * M[h][g]
  BY AdjugateIs

(* The nine minors. *)
LEMMA Minors ==
  ASSUME NEW M \in Matrices
  PROVE  /\ Lat!Adjugate(M)[1][1] = M[2][2] * M[3][3] - M[2][3] * M[3][2]
         /\ Lat!Adjugate(M)[1][2] = M[3][2] * M[1][3] - M[3][3] * M[1][2]
         /\ Lat!Adjugate(M)[1][3] = M[1][2] * M[2][3] - M[1][3] * M[2][2]
         /\ Lat!Adjugate(M)[2][1] = M[2][3] * M[3][1] - M[2][1] * M[3][3]
         /\ Lat!Adjugate(M)[2][2] = M[3][3] * M[1][1] - M[3][1] * M[1][3]
         /\ Lat!Adjugate(M)[2][3] = M[1][3] * M[2][1] - M[1][1] * M[2][3]
         /\ Lat!Adjugate(M)[3][1] = M[2][1] * M[3][2] - M[2][2] * M[3][1]
         /\ Lat!Adjugate(M)[3][2] = M[3][1] * M[1][2] - M[3][2] * M[1][1]
         /\ Lat!Adjugate(M)[3][3] = M[1][1] * M[2][2] - M[1][2] * M[2][1]
<1>1. Lat!After(1) = 2 /\ Lat!After(2) = 3 /\ Lat!After(3) = 1
  BY DEF Lat!After
<1>2. 1 \in 1..3 /\ 2 \in 1..3 /\ 3 \in 1..3
  OBVIOUS
<1>3. /\ Lat!Adjugate(M)[1][1] = M[2][2] * M[3][3] - M[2][3] * M[3][2]
      /\ Lat!Adjugate(M)[1][2] = M[3][2] * M[1][3] - M[3][3] * M[1][2]
      /\ Lat!Adjugate(M)[1][3] = M[1][2] * M[2][3] - M[1][3] * M[2][2]
  BY <1>1, <1>2, MinorIs
<1>4. /\ Lat!Adjugate(M)[2][1] = M[2][3] * M[3][1] - M[2][1] * M[3][3]
      /\ Lat!Adjugate(M)[2][2] = M[3][3] * M[1][1] - M[3][1] * M[1][3]
      /\ Lat!Adjugate(M)[2][3] = M[1][3] * M[2][1] - M[1][1] * M[2][3]
  BY <1>1, <1>2, MinorIs
<1>5. /\ Lat!Adjugate(M)[3][1] = M[2][1] * M[3][2] - M[2][2] * M[3][1]
      /\ Lat!Adjugate(M)[3][2] = M[3][1] * M[1][2] - M[3][2] * M[1][1]
      /\ Lat!Adjugate(M)[3][3] = M[1][1] * M[2][2] - M[1][2] * M[2][1]
  BY <1>1, <1>2, MinorIs
<1> QED BY <1>3, <1>4, <1>5

-----------------------------------------------------------------------------
(* Their algebra.                                                          *)

(* Numbers are taken out of brackets. *)
LEMMA Brackets ==
  ASSUME NEW x \in Int, NEW y \in Int, NEW z \in Int,
         NEW a \in Int, NEW b \in Int, NEW c \in Int, NEW d \in Int, NEW e \in Int, NEW f \in Int,
         NEW g \in Int, NEW h \in Int, NEW i \in Int, NEW p \in Int, NEW q \in Int, NEW r \in Int
  PROVE  (x * a + y * d + z * g) * p + (x * b + y * e + z * h) * q + (x * c + y * f + z * i) * r
           = x * (a * p + b * q + c * r) + y * (d * p + e * q + f * r) + z * (g * p + h * q + i * r)
  OBVIOUS

(* Products are associative. *)
LEMMA RowTimesTwo ==
  ASSUME NEW M \in Matrices, NEW N \in Matrices, NEW x \in Vectors
  PROVE  Cartesian(N, Cartesian(M, x)) = Cartesian(Product(M, N), x)
<1> DEFINE y == Cartesian(M, x)
           P == Product(M, N)
<1>1. /\ y \in Vectors
      /\ y[1] = x[1] * M[1][1] + x[2] * M[2][1] + x[3] * M[3][1]
      /\ y[2] = x[1] * M[1][2] + x[2] * M[2][2] + x[3] * M[3][2]
      /\ y[3] = x[1] * M[1][3] + x[2] * M[2][3] + x[3] * M[3][3]
  BY RowTimes
<1>2. P \in Matrices /\ P[1] = Cartesian(N, M[1]) /\ P[2] = Cartesian(N, M[2]) /\ P[3] = Cartesian(N, M[3])
  BY ProductIs
<1> HIDE DEF y, P
<1>3. ASSUME NEW k \in 1..3, NEW R \in Vectors
      PROVE  Cartesian(N, R) \in Vectors
             /\ Cartesian(N, R)[k] = R[1] * N[1][k] + R[2] * N[2][k] + R[3] * N[3][k]
  BY RowTimes
<1>4. ASSUME NEW k \in 1..3, NEW R \in Vectors
      PROVE  Cartesian(P, R)[k] = R[1] * P[1][k] + R[2] * P[2][k] + R[3] * P[3][k]
  BY <1>2, RowTimes
<1>5. ASSUME NEW k \in 1..3
      PROVE  Cartesian(N, y)[k] = Cartesian(P, x)[k]
  <2>1. Cartesian(N, y)[k] = y[1] * N[1][k] + y[2] * N[2][k] + y[3] * N[3][k]
    BY <1>1, <1>3
  <2>2. /\ P[1][k] = M[1][1] * N[1][k] + M[1][2] * N[2][k] + M[1][3] * N[3][k]
        /\ P[2][k] = M[2][1] * N[1][k] + M[2][2] * N[2][k] + M[2][3] * N[3][k]
        /\ P[3][k] = M[3][1] * N[1][k] + M[3][2] * N[2][k] + M[3][3] * N[3][k]
    BY <1>2, <1>3, MatrixIs
  <2>3. Cartesian(P, x)[k] = x[1] * P[1][k] + x[2] * P[2][k] + x[3] * P[3][k]
    BY <1>4
  <2>4. N[1][k] \in Int /\ N[2][k] \in Int /\ N[3][k] \in Int
    BY MatrixEntries
  <2>5. /\ x[1] \in Int /\ x[2] \in Int /\ x[3] \in Int
        /\ M[1][1] \in Int /\ M[1][2] \in Int /\ M[1][3] \in Int
        /\ M[2][1] \in Int /\ M[2][2] \in Int /\ M[2][3] \in Int
        /\ M[3][1] \in Int /\ M[3][2] \in Int /\ M[3][3] \in Int
    BY MatrixIs, VectorIs
  <2>6. Cartesian(N, y)[k] =
          (x[1] * M[1][1] + x[2] * M[2][1] + x[3] * M[3][1]) * N[1][k]
          + (x[1] * M[1][2] + x[2] * M[2][2] + x[3] * M[3][2]) * N[2][k]
          + (x[1] * M[1][3] + x[2] * M[2][3] + x[3] * M[3][3]) * N[3][k]
    BY <1>1, <2>1, Zenon
  <2>7. Cartesian(P, x)[k] =
          x[1] * (M[1][1] * N[1][k] + M[1][2] * N[2][k] + M[1][3] * N[3][k])
          + x[2] * (M[2][1] * N[1][k] + M[2][2] * N[2][k] + M[2][3] * N[3][k])
          + x[3] * (M[3][1] * N[1][k] + M[3][2] * N[2][k] + M[3][3] * N[3][k])
    BY <2>2, <2>3, Zenon
  <2> QED BY <2>4, <2>5, <2>6, <2>7, Brackets
<1>6. Cartesian(N, y) \in Vectors /\ Cartesian(P, x) \in Vectors
  BY <1>1, <1>2, RowTimes
<1>7. Cartesian(N, y) = Cartesian(P, x)
  <2>1. 1 \in 1..3 /\ 2 \in 1..3 /\ 3 \in 1..3
    OBVIOUS
  <2> QED BY <1>5, <1>6, <2>1, SameVector
<1> QED BY <1>7 DEF y, P

LEMMA Associates ==
  ASSUME NEW M \in Matrices, NEW N \in Matrices, NEW P \in Matrices
  PROVE  Product(Product(M, N), P) = Product(M, Product(N, P))
<1>1. /\ Product(M, N) \in Matrices /\ Product(N, P) \in Matrices
      /\ Product(Product(M, N), P) \in Matrices /\ Product(M, Product(N, P)) \in Matrices
  BY ProductIs
<1>2. ASSUME NEW i \in 1..3
      PROVE  Product(Product(M, N), P)[i] = Product(M, Product(N, P))[i]
  <2>1. M[i] \in Vectors /\ Product(M, N)[i] = Cartesian(N, M[i])
    BY MatrixIs, ProductIs
  <2>2. Product(Product(M, N), P)[i] = Cartesian(P, Product(M, N)[i])
    BY <1>1, ProductIs
  <2>3. Product(M, Product(N, P))[i] = Cartesian(Product(N, P), M[i])
    BY <1>1, ProductIs
  <2> QED BY <2>1, <2>2, <2>3, RowTimesTwo
<1> QED BY <1>1, <1>2, SameRows

(* The unit matrix. *)
LEMMA UnitRow ==
  ASSUME NEW x \in Vectors
  PROVE  Cartesian(Unit, x) = x
<1>1. /\ Unit[1][1] = 1 /\ Unit[1][2] = 0 /\ Unit[1][3] = 0
      /\ Unit[2][1] = 0 /\ Unit[2][2] = 1 /\ Unit[2][3] = 0
      /\ Unit[3][1] = 0 /\ Unit[3][2] = 0 /\ Unit[3][3] = 1
  BY UnitIs
<1>2. Cartesian(Unit, x) \in Vectors /\ Cartesian(Unit, x)[1] = x[1]
      /\ Cartesian(Unit, x)[2] = x[2] /\ Cartesian(Unit, x)[3] = x[3]
  BY <1>1, UnitIs, RowTimes, VectorIs
<1> QED BY <1>2, SameVector

LEMMA UnitProducts ==
  ASSUME NEW M \in Matrices
  PROVE  Product(M, Unit) = M /\ Product(Unit, M) = M
<1>1. M[1] \in Vectors /\ M[2] \in Vectors /\ M[3] \in Vectors
  BY MatrixIs
<1>2. Product(M, Unit) = M
  <2>1. /\ Product(M, Unit) \in Matrices /\ Product(M, Unit)[1] = M[1]
        /\ Product(M, Unit)[2] = M[2] /\ Product(M, Unit)[3] = M[3]
    BY <1>1, UnitIs, ProductIs, UnitRow
  <2> QED BY <2>1, SameRows
<1>3. Product(Unit, M) = M
  <2>1. ASSUME NEW a \in Int, NEW b \in Int, NEW c \in Int, NEW x \in Vectors,
               <<a, b, c>> \in Vectors,
               x[1] = a * M[1][1] + b * M[2][1] + c * M[3][1],
               x[2] = a * M[1][2] + b * M[2][2] + c * M[3][2],
               x[3] = a * M[1][3] + b * M[2][3] + c * M[3][3]
        PROVE  Cartesian(M, <<a, b, c>>) = x
    <3>1. /\ Cartesian(M, <<a, b, c>>) \in Vectors
          /\ Cartesian(M, <<a, b, c>>)[1] = x[1] /\ Cartesian(M, <<a, b, c>>)[2] = x[2]
          /\ Cartesian(M, <<a, b, c>>)[3] = x[3]
      BY <2>1, RowTimes, IsVector
    <3> QED BY <3>1, SameVector
  <2>2. <<1, 0, 0>> \in Vectors /\ <<0, 1, 0>> \in Vectors /\ <<0, 0, 1>> \in Vectors
    BY IsVector
  <2>a. ASSUME NEW u \in Int, NEW v \in Int, NEW w \in Int
        PROVE  u = 1 * u + 0 * v + 0 * w /\ v = 0 * u + 1 * v + 0 * w /\ w = 0 * u + 0 * v + 1 * w
    OBVIOUS
  <2>b. ASSUME NEW k \in 1..3
        PROVE  /\ M[1][k] = 1 * M[1][k] + 0 * M[2][k] + 0 * M[3][k]
               /\ M[2][k] = 0 * M[1][k] + 1 * M[2][k] + 0 * M[3][k]
               /\ M[3][k] = 0 * M[1][k] + 0 * M[2][k] + 1 * M[3][k]
    BY <2>a, MatrixEntries
  <2>c. 1 \in 1..3 /\ 2 \in 1..3 /\ 3 \in 1..3 /\ 0 \in Int /\ 1 \in Int
    OBVIOUS
  <2>3. Cartesian(M, <<1, 0, 0>>) = M[1]
    BY <1>1, <2>1, <2>2, <2>b, <2>c, Zenon
  <2>4. Cartesian(M, <<0, 1, 0>>) = M[2]
    BY <1>1, <2>1, <2>2, <2>b, <2>c, Zenon
  <2>5. Cartesian(M, <<0, 0, 1>>) = M[3]
    BY <1>1, <2>1, <2>2, <2>b, <2>c, Zenon
  <2>6. /\ Product(Unit, M) \in Matrices /\ Product(Unit, M)[1] = M[1]
        /\ Product(Unit, M)[2] = M[2] /\ Product(Unit, M)[3] = M[3]
    BY <2>3, <2>4, <2>5, UnitIs, ProductIs
  <2> QED BY <2>6, SameRows
<1> QED BY <1>2, <1>3

(* Transposed matrices. *)
LEMMA Transposed ==
  ASSUME NEW M \in Matrices, NEW i \in 1..3, NEW k \in 1..3
  PROVE  Transpose(M)[i][k] = M[k][i]
<1>1. i = 1 \/ i = 2 \/ i = 3
  OBVIOUS
<1>2. k = 1 \/ k = 2 \/ k = 3
  OBVIOUS
<1>3. ASSUME NEW a, NEW b, NEW c
      PROVE  <<a, b, c>>[1] = a /\ <<a, b, c>>[2] = b /\ <<a, b, c>>[3] = c
  OBVIOUS
<1> QED BY <1>1, <1>2, <1>3, TransposeIs

LEMMA SameEntries ==
  ASSUME NEW M \in Matrices, NEW N \in Matrices, \A i, k \in 1..3 : M[i][k] = N[i][k]
  PROVE  M = N
<1>1. 1 \in 1..3 /\ 2 \in 1..3 /\ 3 \in 1..3
  OBVIOUS
<1>2. ASSUME NEW i \in 1..3
      PROVE  M[i] = N[i]
  <2>1. M[i] \in Vectors /\ N[i] \in Vectors
    BY MatrixIs
  <2>2. M[i][1] = N[i][1] /\ M[i][2] = N[i][2] /\ M[i][3] = N[i][3]
    BY <1>1
  <2> QED BY <2>1, <2>2, SameVector
<1> QED BY <1>1, <1>2, SameRows

LEMMA Entries ==
  ASSUME NEW M \in Matrices, NEW N \in Matrices, NEW i \in 1..3, NEW k \in 1..3
  PROVE  Product(M, N)[i][k] = M[i][1] * N[1][k] + M[i][2] * N[2][k] + M[i][3] * N[3][k]
<1>1. M[i] \in Vectors
  BY MatrixIs
<1>2. Product(M, N)[i] = Cartesian(N, M[i])
  BY ProductIs
<1>3. k = 1 \/ k = 2 \/ k = 3
  OBVIOUS
<1> QED BY <1>1, <1>2, <1>3, RowTimes

LEMMA TransposedTwice ==
  ASSUME NEW M \in Matrices
  PROVE  Transpose(Transpose(M)) = M
<1>1. Transpose(M) \in Matrices /\ Transpose(Transpose(M)) \in Matrices
  BY TransposeIs
<1>2. \A i, k \in 1..3 : Transpose(Transpose(M))[i][k] = M[i][k]
  BY <1>1, Transposed
<1> QED BY <1>1, <1>2, SameEntries

LEMMA ProductTransposed ==
  ASSUME NEW M \in Matrices, NEW N \in Matrices
  PROVE  Transpose(Product(M, N)) = Product(Transpose(N), Transpose(M))
<1> DEFINE P == Transpose(Product(M, N))
           Q == Product(Transpose(N), Transpose(M))
<1>1. /\ Transpose(M) \in Matrices /\ Transpose(N) \in Matrices /\ Product(M, N) \in Matrices
  BY TransposeIs, ProductIs
<1>2. P \in Matrices /\ Q \in Matrices
  BY <1>1, TransposeIs, ProductIs
<1>3. ASSUME NEW i \in 1..3, NEW k \in 1..3
      PROVE  P[i][k] = Q[i][k]
  <2>1. P[i][k] = M[k][1] * N[1][i] + M[k][2] * N[2][i] + M[k][3] * N[3][i]
    BY <1>1, Transposed, Entries
  <2>2. Q[i][k] = Transpose(N)[i][1] * Transpose(M)[1][k] + Transpose(N)[i][2] * Transpose(M)[2][k]
                    + Transpose(N)[i][3] * Transpose(M)[3][k]
    BY <1>1, Entries
  <2>3. /\ Transpose(N)[i][1] = N[1][i] /\ Transpose(N)[i][2] = N[2][i] /\ Transpose(N)[i][3] = N[3][i]
        /\ Transpose(M)[1][k] = M[k][1] /\ Transpose(M)[2][k] = M[k][2] /\ Transpose(M)[3][k] = M[k][3]
    BY Transposed
  <2>4. /\ M[k][1] \in Int /\ M[k][2] \in Int /\ M[k][3] \in Int
        /\ N[1][i] \in Int /\ N[2][i] \in Int /\ N[3][i] \in Int
    BY MatrixEntries
  <2>5. ASSUME NEW a \in Int, NEW b \in Int
        PROVE  a * b = b * a
    OBVIOUS
  <2> HIDE DEF P, Q
  <2> QED BY <2>1, <2>2, <2>3, <2>4, <2>5
<1> HIDE DEF P, Q
<1>4. P = Q
  BY <1>2, <1>3, SameEntries
<1> QED BY <1>4 DEF P, Q

(* Multiples. *)
LEMMA MultipleEntries ==
  ASSUME NEW d \in Int, NEW M \in Matrices, NEW i \in 1..3, NEW k \in 1..3
  PROVE  Times(d, M)[i][k] = d * M[i][k]
<1>1. Times(d, M)[i] = Scale(d, M[i]) /\ M[i] \in Vectors
  BY TimesIs, MatrixIs
<1>2. k = 1 \/ k = 2 \/ k = 3
  OBVIOUS
<1> QED BY <1>1, <1>2, ScaleIs

LEMMA Multiples ==
  ASSUME NEW d \in Int, NEW M \in Matrices, NEW N \in Matrices
  PROVE  /\ Product(Times(d, M), N) = Times(d, Product(M, N))
         /\ Product(M, Times(d, N)) = Times(d, Product(M, N))
         /\ Transpose(Times(d, M)) = Times(d, Transpose(M))
<1>1. /\ Times(d, M) \in Matrices /\ Times(d, N) \in Matrices /\ Product(M, N) \in Matrices
      /\ Transpose(M) \in Matrices
  BY TimesIs, ProductIs, TransposeIs
<1>2. /\ Product(Times(d, M), N) \in Matrices /\ Product(M, Times(d, N)) \in Matrices
      /\ Times(d, Product(M, N)) \in Matrices /\ Transpose(Times(d, M)) \in Matrices
      /\ Times(d, Transpose(M)) \in Matrices
  BY <1>1, TimesIs, ProductIs, TransposeIs
<1>3. ASSUME NEW i \in 1..3, NEW k \in 1..3
      PROVE  /\ Product(Times(d, M), N)[i][k] = Times(d, Product(M, N))[i][k]
             /\ Product(M, Times(d, N))[i][k] = Times(d, Product(M, N))[i][k]
             /\ Transpose(Times(d, M))[i][k] = Times(d, Transpose(M))[i][k]
  <2>1. Times(d, Product(M, N))[i][k] = d * (M[i][1] * N[1][k] + M[i][2] * N[2][k] + M[i][3] * N[3][k])
    <3>1. Times(d, Product(M, N))[i][k] = d * Product(M, N)[i][k]
      BY <1>1, MultipleEntries
    <3>2. Product(M, N)[i][k] = M[i][1] * N[1][k] + M[i][2] * N[2][k] + M[i][3] * N[3][k]
      BY Entries
    <3> QED BY <3>1, <3>2
  <2>2. Product(Times(d, M), N)[i][k] =
          (d * M[i][1]) * N[1][k] + (d * M[i][2]) * N[2][k] + (d * M[i][3]) * N[3][k]
    <3>1. /\ Times(d, M)[i][1] = d * M[i][1] /\ Times(d, M)[i][2] = d * M[i][2]
          /\ Times(d, M)[i][3] = d * M[i][3]
      BY MultipleEntries
    <3>2. Product(Times(d, M), N)[i][k] =
            Times(d, M)[i][1] * N[1][k] + Times(d, M)[i][2] * N[2][k] + Times(d, M)[i][3] * N[3][k]
      BY <1>1, Entries
    <3> QED BY <3>1, <3>2
  <2>3. Product(M, Times(d, N))[i][k] =
          M[i][1] * (d * N[1][k]) + M[i][2] * (d * N[2][k]) + M[i][3] * (d * N[3][k])
    <3>1. /\ Times(d, N)[1][k] = d * N[1][k] /\ Times(d, N)[2][k] = d * N[2][k]
          /\ Times(d, N)[3][k] = d * N[3][k]
      BY MultipleEntries
    <3>2. Product(M, Times(d, N))[i][k] =
            M[i][1] * Times(d, N)[1][k] + M[i][2] * Times(d, N)[2][k] + M[i][3] * Times(d, N)[3][k]
      BY <1>1, Entries
    <3> QED BY <3>1, <3>2
  <2>4. ASSUME NEW a \in Int, NEW b \in Int, NEW c \in Int, NEW p \in Int, NEW q \in Int, NEW r \in Int
        PROVE  /\ (d * a) * p + (d * b) * q + (d * c) * r = d * (a * p + b * q + c * r)
               /\ a * (d * p) + b * (d * q) + c * (d * r) = d * (a * p + b * q + c * r)
    OBVIOUS
  <2>5. /\ M[i][1] \in Int /\ M[i][2] \in Int /\ M[i][3] \in Int
        /\ N[1][k] \in Int /\ N[2][k] \in Int /\ N[3][k] \in Int
    BY MatrixEntries
  <2>6. Transpose(Times(d, M))[i][k] = Times(d, Transpose(M))[i][k]
    BY <1>1, Transposed, MultipleEntries
  <2> DEFINE a == M[i][1]
             b == M[i][2]
             c == M[i][3]
             p == N[1][k]
             q == N[2][k]
             r == N[3][k]
  <2>7. a \in Int /\ b \in Int /\ c \in Int /\ p \in Int /\ q \in Int /\ r \in Int
    BY <2>5
  <2> HIDE DEF a, b, c, p, q, r
  <2>8. /\ (d * a) * p + (d * b) * q + (d * c) * r = d * (a * p + b * q + c * r)
        /\ a * (d * p) + b * (d * q) + c * (d * r) = d * (a * p + b * q + c * r)
    BY <2>4, <2>7
  <2> QED BY <2>1, <2>2, <2>3, <2>6, <2>8, Zenon DEF a, b, c, p, q, r
<1> QED BY <1>2, <1>3, SameEntries

(* A factor that is not zero is told from a multiple. *)
LEMMA MultiplesDiffer ==
  ASSUME NEW d \in Int, d # 0, NEW M \in Matrices, NEW N \in Matrices, Times(d, M) = Times(d, N)
  PROVE  M = N
<1>1. ASSUME NEW i \in 1..3, NEW k \in 1..3
      PROVE  M[i][k] = N[i][k]
  <2>1. d * M[i][k] = d * N[i][k]
    BY MultipleEntries
  <2>2. M[i][k] \in Int /\ N[i][k] \in Int
    BY MatrixEntries
  <2>3. ASSUME NEW a \in Int, NEW b \in Int, d * a = d * b
        PROVE  a = b
    <3>1. d * (a - b) = 0
      BY <2>3
    <3>2. a - b \in Int
      OBVIOUS
    <3> QED BY <3>1, <3>2
  <2> QED BY <2>1, <2>2, <2>3
<1> QED BY <1>1, SameEntries

-----------------------------------------------------------------------------
(* Adjugates and determinants.                                             *)

LEMMA AdjugateTransposed ==
  ASSUME NEW M \in Matrices
  PROVE  Lat!Adjugate(Transpose(M)) = Transpose(Lat!Adjugate(M))
<1> DEFINE P == Lat!Adjugate(Transpose(M))
           Q == Transpose(Lat!Adjugate(M))
<1>1. Transpose(M) \in Matrices /\ Lat!Adjugate(M) \in Matrices
  BY TransposeIs, AdjugateIs
<1>2. P \in Matrices /\ Q \in Matrices
  BY <1>1, TransposeIs, AdjugateIs
<1>3. ASSUME NEW i \in 1..3, NEW k \in 1..3
      PROVE  P[i][k] = Q[i][k]
  <2> DEFINE a == Lat!After(k)
             b == Lat!After(i)
             c == Lat!After(Lat!After(k))
             e == Lat!After(Lat!After(i))
  <2>1. a \in 1..3 /\ b \in 1..3 /\ c \in 1..3 /\ e \in 1..3
    BY DEF Lat!After
  <2>2. P[i][k] = Transpose(M)[a][b] * Transpose(M)[c][e] - Transpose(M)[a][e] * Transpose(M)[c][b]
    BY <1>1, AdjugateIs
  <2>3. Q[i][k] = M[b][a] * M[e][c] - M[b][c] * M[e][a]
    BY <1>1, Transposed, AdjugateIs
  <2> HIDE DEF a, b, c, e, P, Q
  <2>4. P[i][k] = M[b][a] * M[e][c] - M[e][a] * M[b][c]
    BY <2>1, <2>2, Transposed
  <2>5. /\ M[b][a] \in Int /\ M[e][c] \in Int /\ M[e][a] \in Int /\ M[b][c] \in Int
    BY <2>1, MatrixEntries
  <2>6. M[e][a] * M[b][c] = M[b][c] * M[e][a]
    BY <2>5
  <2> QED BY <2>3, <2>4, <2>6
<1> HIDE DEF P, Q
<1>4. P = Q
  BY <1>2, <1>3, SameEntries
<1> QED BY <1>4 DEF P, Q

(* The products of the minors of two matrices are minors of their product. *)
LEMMA BinetCauchy ==
  ASSUME NEW a \in Int, NEW b \in Int, NEW c \in Int, NEW x \in Int, NEW y \in Int, NEW z \in Int,
         NEW p \in Int, NEW q \in Int, NEW r \in Int, NEW u \in Int, NEW v \in Int, NEW w \in Int
  PROVE  (a * p + b * q + c * r) * (x * u + y * v + z * w)
           - (a * u + b * v + c * w) * (x * p + y * q + z * r)
         = (q * w - v * r) * (b * z - c * y) + (r * u - w * p) * (c * x - a * z)
             + (p * v - u * q) * (a * y - b * x)
  OBVIOUS

LEMMA AdjugateProduct ==
  ASSUME NEW M \in Matrices, NEW N \in Matrices
  PROVE  Lat!Adjugate(Product(M, N)) = Product(Lat!Adjugate(N), Lat!Adjugate(M))
<1> DEFINE T == Product(M, N)
           P == Lat!Adjugate(T)
           A == Lat!Adjugate(M)
           B == Lat!Adjugate(N)
           Q == Product(B, A)
<1>1. T \in Matrices /\ A \in Matrices /\ B \in Matrices
  BY ProductIs, AdjugateIs
<1>2. P \in Matrices /\ Q \in Matrices
  BY <1>1, ProductIs, AdjugateIs
<1>3. ASSUME NEW i \in 1..3, NEW k \in 1..3
      PROVE  P[i][k] = Q[i][k]
  <2> DEFINE f == Lat!After(k)
             g == Lat!After(i)
             h == Lat!After(Lat!After(k))
             j == Lat!After(Lat!After(i))
  <2>1. f \in 1..3 /\ g \in 1..3 /\ h \in 1..3 /\ j \in 1..3
    BY DEF Lat!After
  <2>2. P[i][k] = T[f][g] * T[h][j] - T[f][j] * T[h][g]
    BY <1>1, AdjugateIs
  <2>3. Lat!After(1) = 2 /\ Lat!After(2) = 3 /\ Lat!After(3) = 1 /\ 1 \in 1..3 /\ 2 \in 1..3 /\ 3 \in 1..3
    BY DEF Lat!After
  <2>4. /\ A[1][k] = M[f][2] * M[h][3] - M[f][3] * M[h][2]
        /\ A[2][k] = M[f][3] * M[h][1] - M[f][1] * M[h][3]
        /\ A[3][k] = M[f][1] * M[h][2] - M[f][2] * M[h][1]
    BY <2>3, MinorIs
  <2>5. /\ B[i][1] = N[2][g] * N[3][j] - N[2][j] * N[3][g]
        /\ B[i][2] = N[3][g] * N[1][j] - N[3][j] * N[1][g]
        /\ B[i][3] = N[1][g] * N[2][j] - N[1][j] * N[2][g]
    BY <2>3, MinorIs
  <2> HIDE DEF f, g, h, j, P, A, B, Q
  <2>6. /\ T[f][g] = M[f][1] * N[1][g] + M[f][2] * N[2][g] + M[f][3] * N[3][g]
        /\ T[h][j] = M[h][1] * N[1][j] + M[h][2] * N[2][j] + M[h][3] * N[3][j]
        /\ T[f][j] = M[f][1] * N[1][j] + M[f][2] * N[2][j] + M[f][3] * N[3][j]
        /\ T[h][g] = M[h][1] * N[1][g] + M[h][2] * N[2][g] + M[h][3] * N[3][g]
    BY <2>1, Entries
  <2>7. Q[i][k] = B[i][1] * A[1][k] + B[i][2] * A[2][k] + B[i][3] * A[3][k]
    BY <1>1, Entries DEF Q
  <2> HIDE DEF T
  <2> DEFINE a == M[f][1]
             b == M[f][2]
             c == M[f][3]
             x == M[h][1]
             y == M[h][2]
             z == M[h][3]
             p == N[1][g]
             q == N[2][g]
             r == N[3][g]
             u == N[1][j]
             v == N[2][j]
             w == N[3][j]
  <2>8. /\ a \in Int /\ b \in Int /\ c \in Int /\ x \in Int /\ y \in Int /\ z \in Int
        /\ p \in Int /\ q \in Int /\ r \in Int /\ u \in Int /\ v \in Int /\ w \in Int
    BY <2>1, MatrixEntries
  <2>9. P[i][k] = (a * p + b * q + c * r) * (x * u + y * v + z * w)
                    - (a * u + b * v + c * w) * (x * p + y * q + z * r)
    BY <2>2, <2>6, Zenon
  <2>10. Q[i][k] = (q * w - v * r) * (b * z - c * y) + (r * u - w * p) * (c * x - a * z)
                     + (p * v - u * q) * (a * y - b * x)
    BY <2>4, <2>5, <2>7, Zenon
  <2> HIDE DEF a, b, c, x, y, z, p, q, r, u, v, w
  <2> QED BY <2>8, <2>9, <2>10, BinetCauchy
<1> HIDE DEF P, Q
<1>4. P = Q
  BY <1>2, <1>3, SameEntries
<1> QED BY <1>4 DEF P, Q

(* An adjugate is the inverse times the determinant. *)
LEMMA Laplace ==
  ASSUME NEW a \in Int, NEW b \in Int, NEW c \in Int, NEW d \in Int, NEW e \in Int, NEW f \in Int,
         NEW g \in Int, NEW h \in Int, NEW i \in Int, NEW D,
         D = a * (e * i - f * h) + b * (f * g - d * i) + c * (d * h - e * g)
  PROVE  /\ D \in Int
         /\ a * (h * c - i * b) + b * (i * a - g * c) + c * (g * b - h * a) = 0
         /\ a * (b * f - c * e) + b * (c * d - a * f) + c * (a * e - b * d) = 0
         /\ d * (e * i - f * h) + e * (f * g - d * i) + f * (d * h - e * g) = 0
         /\ d * (h * c - i * b) + e * (i * a - g * c) + f * (g * b - h * a) = D
         /\ d * (b * f - c * e) + e * (c * d - a * f) + f * (a * e - b * d) = 0
         /\ g * (e * i - f * h) + h * (f * g - d * i) + i * (d * h - e * g) = 0
         /\ g * (h * c - i * b) + h * (i * a - g * c) + i * (g * b - h * a) = 0
         /\ g * (b * f - c * e) + h * (c * d - a * f) + i * (a * e - b * d) = D
  OBVIOUS

LEMMA DeterminantIs ==
  ASSUME NEW M \in Matrices
  PROVE  Lat!Determinant(M) =
           M[1][1] * (M[2][2] * M[3][3] - M[2][3] * M[3][2])
             + M[1][2] * (M[2][3] * M[3][1] - M[2][1] * M[3][3])
             + M[1][3] * (M[2][1] * M[3][2] - M[2][2] * M[3][1])
<1> DEFINE A == Lat!Adjugate(M)
<1>1. Lat!Determinant(M) = Product(M, A)[1][1]
  BY OperatorsAgree DEF Lat!Determinant
<1>2. A \in Matrices
  BY AdjugateIs
<1>3. /\ A[1][1] = M[2][2] * M[3][3] - M[2][3] * M[3][2]
      /\ A[2][1] = M[2][3] * M[3][1] - M[2][1] * M[3][3]
      /\ A[3][1] = M[2][1] * M[3][2] - M[2][2] * M[3][1]
  BY Minors
<1> HIDE DEF A
<1>4. Product(M, A)[1][1] = M[1][1] * A[1][1] + M[1][2] * A[2][1] + M[1][3] * A[3][1]
  BY <1>2, Entries
<1> QED BY <1>1, <1>3, <1>4, Zenon

LEMMA RightInverse ==
  ASSUME NEW M \in Matrices
  PROVE  /\ Lat!Determinant(M) \in Int
         /\ Product(M, Lat!Adjugate(M)) = Times(Lat!Determinant(M), Unit)
<1> DEFINE A == Lat!Adjugate(M)
           P == Product(M, A)
           D == Lat!Determinant(M)
           a == M[1][1]
           b == M[1][2]
           c == M[1][3]
           d == M[2][1]
           e == M[2][2]
           f == M[2][3]
           g == M[3][1]
           h == M[3][2]
           i == M[3][3]
<1>1. /\ a \in Int /\ b \in Int /\ c \in Int /\ d \in Int /\ e \in Int /\ f \in Int
      /\ g \in Int /\ h \in Int /\ i \in Int
  BY MatrixIs
<1>2. /\ A[1][1] = e * i - f * h /\ A[1][2] = h * c - i * b /\ A[1][3] = b * f - c * e
      /\ A[2][1] = f * g - d * i /\ A[2][2] = i * a - g * c /\ A[2][3] = c * d - a * f
      /\ A[3][1] = d * h - e * g /\ A[3][2] = g * b - h * a /\ A[3][3] = a * e - b * d
  <2>1. /\ A[1][1] = e * i - f * h /\ A[1][2] = h * c - i * b /\ A[1][3] = b * f - c * e
        /\ A[2][1] = f * g - d * i /\ A[2][2] = i * a - g * c /\ A[2][3] = c * d - a * f
    <3>1. /\ A[1][2] = h * c - i * b /\ A[2][2] = i * a - g * c /\ A[2][3] = c * d - a * f
      BY Minors
    <3> QED BY <3>1, Minors
  <2> QED BY <2>1, Minors
<1>3. A \in Matrices /\ P \in Matrices
  BY AdjugateIs, ProductIs
<1>4. D = a * (e * i - f * h) + b * (f * g - d * i) + c * (d * h - e * g)
  BY DeterminantIs
<1> HIDE DEF A, P, D
<1>5. \A k, l \in 1..3 : P[k][l] = M[k][1] * A[1][l] + M[k][2] * A[2][l] + M[k][3] * A[3][l]
  BY <1>3, Entries DEF P
<1>6. 1 \in 1..3 /\ 2 \in 1..3 /\ 3 \in 1..3
  OBVIOUS
<1>7. /\ P[1][1] = a * A[1][1] + b * A[2][1] + c * A[3][1]
      /\ P[1][2] = a * A[1][2] + b * A[2][2] + c * A[3][2]
      /\ P[1][3] = a * A[1][3] + b * A[2][3] + c * A[3][3]
      /\ P[2][1] = d * A[1][1] + e * A[2][1] + f * A[3][1]
      /\ P[2][2] = d * A[1][2] + e * A[2][2] + f * A[3][2]
      /\ P[2][3] = d * A[1][3] + e * A[2][3] + f * A[3][3]
      /\ P[3][1] = g * A[1][1] + h * A[2][1] + i * A[3][1]
      /\ P[3][2] = g * A[1][2] + h * A[2][2] + i * A[3][2]
      /\ P[3][3] = g * A[1][3] + h * A[2][3] + i * A[3][3]
  BY <1>5, <1>6, Zenon
<1> HIDE DEF a, b, c, d, e, f, g, h, i
<1>8. /\ D \in Int
      /\ a * (h * c - i * b) + b * (i * a - g * c) + c * (g * b - h * a) = 0
      /\ a * (b * f - c * e) + b * (c * d - a * f) + c * (a * e - b * d) = 0
      /\ d * (e * i - f * h) + e * (f * g - d * i) + f * (d * h - e * g) = 0
      /\ d * (h * c - i * b) + e * (i * a - g * c) + f * (g * b - h * a) = D
      /\ d * (b * f - c * e) + e * (c * d - a * f) + f * (a * e - b * d) = 0
      /\ g * (e * i - f * h) + h * (f * g - d * i) + i * (d * h - e * g) = 0
      /\ g * (h * c - i * b) + h * (i * a - g * c) + i * (g * b - h * a) = 0
      /\ g * (b * f - c * e) + h * (c * d - a * f) + i * (a * e - b * d) = D
  BY <1>1, <1>4, Laplace
<1>9. /\ P[1][1] = D /\ P[1][2] = 0 /\ P[1][3] = 0
      /\ P[2][1] = 0 /\ P[2][2] = D /\ P[2][3] = 0
      /\ P[3][1] = 0 /\ P[3][2] = 0 /\ P[3][3] = D
  <2>1. P[1][1] = D /\ P[1][2] = 0 /\ P[1][3] = 0
    BY <1>2, <1>4, <1>7, <1>8, ZenonT(30)
  <2>2. P[2][1] = 0 /\ P[2][2] = D /\ P[2][3] = 0
    BY <1>2, <1>7, <1>8, ZenonT(30)
  <2>3. P[3][1] = 0 /\ P[3][2] = 0 /\ P[3][3] = D
    BY <1>2, <1>7, <1>8, ZenonT(30)
  <2> QED BY <2>1, <2>2, <2>3, Zenon
<1>10. /\ Unit[1][1] = 1 /\ Unit[1][2] = 0 /\ Unit[1][3] = 0
       /\ Unit[2][1] = 0 /\ Unit[2][2] = 1 /\ Unit[2][3] = 0
       /\ Unit[3][1] = 0 /\ Unit[3][2] = 0 /\ Unit[3][3] = 1
  BY UnitIs
<1>11. D * 1 = D /\ D * 0 = 0
  BY <1>8
<1>12. \A k, l \in 1..3 : Times(D, Unit)[k][l] = D * Unit[k][l]
  BY <1>8, UnitIs, MultipleEntries
<1>13. /\ Times(D, Unit)[1][1] = D /\ Times(D, Unit)[1][2] = 0 /\ Times(D, Unit)[1][3] = 0
       /\ Times(D, Unit)[2][1] = 0 /\ Times(D, Unit)[2][2] = D /\ Times(D, Unit)[2][3] = 0
       /\ Times(D, Unit)[3][1] = 0 /\ Times(D, Unit)[3][2] = 0 /\ Times(D, Unit)[3][3] = D
  BY <1>6, <1>10, <1>11, <1>12, Zenon
<1>14. ASSUME NEW k \in 1..3, NEW l \in 1..3
       PROVE  P[k][l] = Times(D, Unit)[k][l]
  <2>1. (k = 1 \/ k = 2 \/ k = 3) /\ (l = 1 \/ l = 2 \/ l = 3)
    OBVIOUS
  <2> QED BY <1>9, <1>13, <2>1
<1>15. P = Times(D, Unit)
  BY <1>3, <1>8, <1>14, UnitIs, TimesIs, SameEntries
<1> QED BY <1>8, <1>15 DEF P, A, D

LEMMA DeterminantTransposed ==
  ASSUME NEW M \in Matrices
  PROVE  Lat!Determinant(Transpose(M)) = Lat!Determinant(M)
<1> DEFINE T == Transpose(M)
           a == M[1][1]
           b == M[1][2]
           c == M[1][3]
           d == M[2][1]
           e == M[2][2]
           f == M[2][3]
           g == M[3][1]
           h == M[3][2]
           i == M[3][3]
<1>1. /\ a \in Int /\ b \in Int /\ c \in Int /\ d \in Int /\ e \in Int /\ f \in Int
      /\ g \in Int /\ h \in Int /\ i \in Int
  BY MatrixIs
<1>2. T \in Matrices
  BY TransposeIs
<1>3. /\ T[1][1] = a /\ T[1][2] = d /\ T[1][3] = g /\ T[2][1] = b /\ T[2][2] = e
      /\ T[2][3] = h /\ T[3][1] = c /\ T[3][2] = f /\ T[3][3] = i
  BY Transposed
<1>4. Lat!Determinant(M) = a * (e * i - f * h) + b * (f * g - d * i) + c * (d * h - e * g)
  BY DeterminantIs
<1> HIDE DEF T, a, b, c, d, e, f, g, h, i
<1>5. Lat!Determinant(T) = a * (e * i - h * f) + d * (h * c - b * i) + g * (b * f - e * c)
  BY <1>2, <1>3, DeterminantIs
<1> QED BY <1>1, <1>4, <1>5 DEF T

LEMMA UnitTransposed == Transpose(Unit) = Unit
<1>1. /\ Unit[1][1] = 1 /\ Unit[1][2] = 0 /\ Unit[1][3] = 0
      /\ Unit[2][1] = 0 /\ Unit[2][2] = 1 /\ Unit[2][3] = 0
      /\ Unit[3][1] = 0 /\ Unit[3][2] = 0 /\ Unit[3][3] = 1
  BY UnitIs
<1>2. Unit \in Matrices /\ Transpose(Unit) \in Matrices
  BY UnitIs, TransposeIs
<1>3. ASSUME NEW i \in 1..3, NEW k \in 1..3
      PROVE  Unit[k][i] = Unit[i][k]
  BY <1>1
<1> QED BY <1>2, <1>3, Transposed, SameEntries

(* Transposed, the inverse is one from the other side. *)
LEMMA LeftInverse ==
  ASSUME NEW M \in Matrices
  PROVE  Product(Lat!Adjugate(M), M) = Times(Lat!Determinant(M), Unit)
<1> DEFINE A == Lat!Adjugate(M)
           T == Transpose(M)
           D == Lat!Determinant(M)
<1>1. A \in Matrices /\ T \in Matrices /\ Product(A, M) \in Matrices
  BY AdjugateIs, TransposeIs, ProductIs
<1>2. D \in Int /\ Lat!Determinant(T) = D /\ Lat!Adjugate(T) = Transpose(A)
  BY RightInverse, DeterminantTransposed, AdjugateTransposed
<1> HIDE DEF A, T, D
<1>3. Product(T, Transpose(A)) = Times(D, Unit)
  BY <1>1, <1>2, RightInverse
<1>4. Transpose(Product(A, M)) = Product(T, Transpose(A))
  BY <1>1, ProductTransposed DEF T
<1>5. Transpose(Times(D, Unit)) = Times(D, Unit)
  BY <1>2, Multiples, UnitTransposed, UnitIs
<1>6. Product(A, M) = Times(D, Unit)
  BY <1>1, <1>3, <1>4, <1>5, TransposedTwice
<1> QED BY <1>6 DEF A, D

(* The determinant of a product, *)
LEMMA DeterminantProduct ==
  ASSUME NEW M \in Matrices, NEW N \in Matrices
  PROVE  Lat!Determinant(Product(M, N)) = Lat!Determinant(M) * Lat!Determinant(N)
<1> DEFINE d == Lat!Determinant(M)
           e == Lat!Determinant(N)
           f == Lat!Determinant(Product(M, N))
           A == Lat!Adjugate(M)
           B == Lat!Adjugate(N)
<1>1. d \in Int /\ e \in Int /\ f \in Int /\ A \in Matrices /\ B \in Matrices
      /\ Unit \in Matrices /\ Product(M, N) \in Matrices /\ Product(B, A) \in Matrices
      /\ Product(N, B) \in Matrices
  BY ProductIs, AdjugateIs, RightInverse, UnitIs
<1>2. Product(M, A) = Times(d, Unit) /\ Product(N, B) = Times(e, Unit)
      /\ Product(Product(M, N), Product(B, A)) = Times(f, Unit)
  BY <1>1, RightInverse, AdjugateProduct
<1> HIDE DEF d, e, f, A, B
<1>3. Product(N, Product(B, A)) = Times(e, A)
  <2>1. Product(N, Product(B, A)) = Product(Product(N, B), A)
    BY <1>1, Associates
  <2>2. Product(Times(e, Unit), A) = Times(e, Product(Unit, A))
    BY <1>1, Multiples
  <2> QED BY <1>1, <1>2, <2>1, <2>2, UnitProducts
<1>4. Times(f, Unit) = Times(e, Times(d, Unit))
  <2>1. Product(Product(M, N), Product(B, A)) = Product(M, Product(N, Product(B, A)))
    BY <1>1, Associates
  <2>2. Product(M, Times(e, A)) = Times(e, Product(M, A))
    BY <1>1, Multiples
  <2> QED BY <1>2, <1>3, <2>1, <2>2
<1>5. Times(f, Unit)[1][1] = f * 1 /\ Times(e, Times(d, Unit))[1][1] = e * (d * 1)
  <2>1. Unit[1][1] = 1 /\ 1 \in 1..3 /\ Times(d, Unit) \in Matrices
    BY <1>1, UnitIs, TimesIs
  <2> QED BY <1>1, <2>1, MultipleEntries
<1>6. f = d * e
  BY <1>1, <1>4, <1>5
<1> QED BY <1>6 DEF d, e, f

LEMMA DeterminantOfUnit ==
  Lat!Determinant(Unit) = 1 /\ Lat!Adjugate(Unit) = Unit
<1>1. /\ Unit[1][1] = 1 /\ Unit[1][2] = 0 /\ Unit[1][3] = 0
      /\ Unit[2][1] = 0 /\ Unit[2][2] = 1 /\ Unit[2][3] = 0
      /\ Unit[3][1] = 0 /\ Unit[3][2] = 0 /\ Unit[3][3] = 1
  BY UnitIs
<1>2. Lat!Determinant(Unit) = 1
  BY <1>1, UnitIs, DeterminantIs
<1>3. Product(Unit, Lat!Adjugate(Unit)) = Times(1, Unit) /\ Lat!Adjugate(Unit) \in Matrices
  BY <1>2, UnitIs, RightInverse, AdjugateIs
<1>4. Times(1, Unit) = Unit
  <2>1. ASSUME NEW i \in 1..3, NEW k \in 1..3
        PROVE  Times(1, Unit)[i][k] = Unit[i][k]
    <3>1. Times(1, Unit)[i][k] = 1 * Unit[i][k] /\ Unit[i][k] \in Int
      BY UnitIs, MultipleEntries, MatrixEntries
    <3> QED BY <3>1
  <2> QED BY <2>1, UnitIs, TimesIs, SameEntries
<1> QED BY <1>2, <1>3, <1>4, UnitProducts

(* and of the metrics of a base, whose minors are products as well. *)
LEMMA MetricsAre ==
  ASSUME NEW M \in Matrices
  PROVE  /\ Lat!Metrics(M) = Product(M, Transpose(M)) /\ Lat!Metrics(M) \in Matrices
         /\ Lat!Determinant(Lat!Metrics(M)) = Lat!Determinant(M) * Lat!Determinant(M)
         /\ Lat!Adjugate(Lat!Metrics(M)) = Product(Transpose(Lat!Adjugate(M)), Lat!Adjugate(M))
<1>1. Lat!Metrics(M) = Product(M, Transpose(M))
  BY OperatorsAgree DEF Lat!Metrics
<1>2. Transpose(M) \in Matrices /\ Product(M, Transpose(M)) \in Matrices
  BY TransposeIs, ProductIs
<1> QED BY <1>1, <1>2, DeterminantProduct, DeterminantTransposed, AdjugateProduct, AdjugateTransposed

-----------------------------------------------------------------------------
(* Rotations.                                                              *)

(* What has a determinant is cancelled. *)
LEMMA CancelLeft ==
  ASSUME NEW S \in Matrices, Lat!Determinant(S) # 0, NEW X \in Matrices, NEW Y \in Matrices,
         Product(S, X) = Product(S, Y)
  PROVE  X = Y
<1> DEFINE A == Lat!Adjugate(S)
           d == Lat!Determinant(S)
<1>1. A \in Matrices /\ d \in Int /\ d # 0 /\ Product(A, S) = Times(d, Unit) /\ Unit \in Matrices
  BY AdjugateIs, RightInverse, LeftInverse, UnitIs
<1> HIDE DEF A, d
<1>2. ASSUME NEW Z \in Matrices
      PROVE  Product(A, Product(S, Z)) = Times(d, Z)
  <2>1. Product(A, Product(S, Z)) = Product(Times(d, Unit), Z)
    BY <1>1, Associates
  <2>2. Product(Times(d, Unit), Z) = Times(d, Product(Unit, Z))
    BY <1>1, Multiples
  <2> QED BY <2>1, <2>2, UnitProducts
<1>3. Times(d, X) = Times(d, Y)
  <2>1. Product(A, Product(S, X)) = Times(d, X) /\ Product(A, Product(S, Y)) = Times(d, Y)
    BY <1>2
  <2> QED BY <2>1
<1> QED BY <1>1, <1>3, MultiplesDiffer

LEMMA CancelRight ==
  ASSUME NEW S \in Matrices, Lat!Determinant(S) # 0, NEW X \in Matrices, NEW Y \in Matrices,
         Product(X, S) = Product(Y, S)
  PROVE  X = Y
<1>1. /\ Transpose(S) \in Matrices /\ Transpose(X) \in Matrices /\ Transpose(Y) \in Matrices
      /\ Lat!Determinant(Transpose(S)) # 0
  BY TransposeIs, DeterminantTransposed
<1>2. Product(Transpose(S), Transpose(X)) = Product(Transpose(S), Transpose(Y))
  BY ProductTransposed
<1>3. Transpose(X) = Transpose(Y)
  BY <1>1, <1>2, CancelLeft
<1> QED BY <1>3, TransposedTwice

Rotation(R) == R \in Matrices /\ Product(R, Transpose(R)) = Unit /\ Lat!Determinant(R) = 1

(* A base that is turned keeps its metrics. *)
LEMMA TurnedBase ==
  ASSUME NEW S \in Matrices, NEW R, Rotation(R)
  PROVE  /\ Product(S, R) \in Matrices
         /\ Lat!Metrics(Product(S, R)) = Lat!Metrics(S)
         /\ Lat!Determinant(Product(S, R)) = Lat!Determinant(S)
<1>1. R \in Matrices /\ Product(R, Transpose(R)) = Unit /\ Lat!Determinant(R) = 1
  BY DEF Rotation
<1>2. Product(S, R) \in Matrices /\ Transpose(S) \in Matrices /\ Transpose(R) \in Matrices
      /\ Lat!Determinant(S) \in Int
  BY <1>1, ProductIs, TransposeIs, RightInverse
<1>3. Lat!Metrics(Product(S, R)) = Lat!Metrics(S)
  <2> DEFINE T == Transpose(S)
             U == Transpose(R)
  <2>1. Transpose(Product(S, R)) = Product(U, T)
    BY <1>1, ProductTransposed
  <2>2. T \in Matrices /\ U \in Matrices /\ Product(U, T) \in Matrices /\ Product(R, U) = Unit
    BY <1>1, <1>2, ProductIs
  <2>3. Lat!Metrics(Product(S, R)) = Product(Product(S, R), Product(U, T))
    BY <1>2, <2>1, MetricsAre
  <2>4. Lat!Metrics(S) = Product(S, T)
    BY MetricsAre
  <2> HIDE DEF T, U
  <2>5. Product(Product(S, R), Product(U, T)) = Product(S, Product(R, Product(U, T)))
    BY <1>1, <2>2, Associates
  <2>6. Product(R, Product(U, T)) = Product(Unit, T)
    BY <1>1, <2>2, Associates
  <2> QED BY <2>2, <2>3, <2>4, <2>5, <2>6, UnitProducts
<1>4. Lat!Determinant(Product(S, R)) = Lat!Determinant(S)
  BY <1>1, <1>2, DeterminantProduct
<1> QED BY <1>2, <1>3, <1>4

(* Standard bases have a volume. *)
LEMMA TriangularVolume ==
  ASSUME NEW S, Triangular(S)
  PROVE  S \in Matrices /\ Lat!Determinant(S) \in Int /\ Lat!Determinant(S) > 0
<1> DEFINE a == S[1][1]
           b == S[2][2]
           c == S[3][3]
<1>1. S \in Matrices /\ a > 0 /\ b > 0 /\ c > 0 /\ S[2][1] = 0 /\ S[3][1] = 0 /\ S[3][2] = 0
  BY DEF Triangular
<1>2. /\ a \in Int /\ b \in Int /\ c \in Int /\ S[1][2] \in Int /\ S[1][3] \in Int /\ S[2][3] \in Int
  BY <1>1, MatrixIs
<1>3. Lat!Determinant(S) = a * (b * c - S[2][3] * 0) + S[1][2] * (S[2][3] * 0 - 0 * c)
                             + S[1][3] * (0 * 0 - b * 0)
  BY <1>1, DeterminantIs
<1> HIDE DEF a, b, c
<1>4. Lat!Determinant(S) = a * (b * c)
  BY <1>2, <1>3
<1>5. b * c > 0 /\ b * c \in Int
  BY <1>1, <1>2
<1> DEFINE e == b * c
<1> HIDE DEF e
<1>6. e \in Int /\ e > 0 /\ Lat!Determinant(S) = a * e
  BY <1>4, <1>5 DEF e
<1> QED BY <1>1, <1>2, <1>6

(* Exact quotients. *)
LEMMA ExactQuotient ==
  ASSUME NEW a \in Int, NEW d \in Nat \ {0}, a % d = 0
  PROVE  a \div d \in Int /\ d * (a \div d) = a
  OBVIOUS

LEMMA DividedIs ==
  ASSUME NEW M \in Matrices, NEW d \in Nat \ {0}, \A i, k \in 1..3 : M[i][k] % d = 0
  PROVE  Lat!Divided(M, d) \in Matrices /\ Times(d, Lat!Divided(M, d)) = M
<1> DEFINE D == Lat!Divided(M, d)
           q(i, k) == M[i][k] \div d
<1>1. D = [i \in 1..3 |-> [k \in 1..3 |-> q(i, k)]]
  BY DEF Lat!Divided
<1>2. ASSUME NEW i \in 1..3, NEW k \in 1..3
      PROVE  q(i, k) \in Int /\ d * q(i, k) = M[i][k]
  BY MatrixEntries, ExactQuotient
<1> HIDE DEF D, q
<1>3. ASSUME NEW i \in 1..3
      PROVE  D[i] \in Vectors
  <2>1. D[i] = <<q(i, 1), q(i, 2), q(i, 3)>>
    BY <1>1
  <2>2. q(i, 1) \in Int /\ q(i, 2) \in Int /\ q(i, 3) \in Int
    BY <1>2
  <2> QED BY <2>1, <2>2, IsVector
<1>4. D = <<D[1], D[2], D[3]>>
  BY <1>1
<1>5. D \in Matrices
  BY <1>3, <1>4, IsMatrix
<1>6. ASSUME NEW i \in 1..3, NEW k \in 1..3
      PROVE  D[i][k] = q(i, k)
  BY <1>1
<1>7. d \in Int
  OBVIOUS
<1>8. ASSUME NEW i \in 1..3, NEW k \in 1..3
      PROVE  Times(d, D)[i][k] = M[i][k]
  BY <1>2, <1>5, <1>6, <1>7, MultipleEntries
<1>9. Times(d, D) \in Matrices
  BY <1>5, <1>7, TimesIs
<1>10. Times(d, D) = M
  BY <1>8, <1>9, SameEntries, ZenonT(30)
<1> QED BY <1>5, <1>10 DEF D

(* A base is a rotation of the standard base of its metrics. *)
LEMMA BaseRotation ==
  ASSUME NEW S, Triangular(S), NEW A \in Matrices, Lat!Determinant(A) > 0,
         Lat!Metrics(S) = Lat!Metrics(A),
         \A i, k \in 1..3 : Product(Lat!Adjugate(S), A)[i][k] % Lat!Determinant(S) = 0
  PROVE  LET R == Lat!Divided(Product(Lat!Adjugate(S), A), Lat!Determinant(S))
         IN  Rotation(R) /\ Product(S, R) = A
<1> DEFINE d == Lat!Determinant(S)
           B == Lat!Adjugate(S)
           R == Lat!Divided(Product(B, A), d)
           e == Lat!Determinant(A)
<1>1. S \in Matrices /\ d \in Nat \ {0} /\ B \in Matrices /\ Product(B, A) \in Matrices /\ e \in Int
  BY TriangularVolume, AdjugateIs, ProductIs, RightInverse
<1>2. R \in Matrices /\ Times(d, R) = Product(B, A)
  BY <1>1, DividedIs
<1>3. Product(S, B) = Times(d, Unit) /\ Unit \in Matrices /\ d \in Int
  BY <1>1, RightInverse, UnitIs
<1>4. e > 0 /\ Lat!Metrics(S) = Lat!Metrics(A)
  OBVIOUS
<1>5. e * e = d * d
  BY <1>1, <1>4, MetricsAre
<1> HIDE DEF B, R
<1>6. Product(S, R) = A
  <2>1. Product(S, Times(d, R)) = Times(d, Product(S, R))
    BY <1>1, <1>2, <1>3, Multiples
  <2>2. Product(S, Product(B, A)) = Product(Times(d, Unit), A)
    BY <1>1, <1>3, Associates
  <2>3. Product(Times(d, Unit), A) = Times(d, A)
    BY <1>3, Multiples, UnitProducts
  <2>4. Times(d, Product(S, R)) = Times(d, A)
    BY <1>2, <2>1, <2>2, <2>3
  <2>5. Product(S, R) \in Matrices /\ d # 0
    BY <1>1, <1>2, ProductIs
  <2> HIDE DEF d
  <2> QED BY <1>3, <2>4, <2>5, MultiplesDiffer
<1>7. Product(R, Transpose(R)) = Unit
  <2> DEFINE X == Product(R, Transpose(R))
             T == Transpose(S)
             U == Transpose(R)
  <2>1. T \in Matrices /\ U \in Matrices /\ X \in Matrices /\ Product(U, T) \in Matrices
        /\ Product(X, T) \in Matrices
    BY <1>1, <1>2, TransposeIs, ProductIs
  <2>2. Transpose(A) = Product(U, T)
    BY <1>1, <1>2, <1>6, ProductTransposed
  <2>3. Product(A, Transpose(A)) = Product(S, T)
    BY <1>1, <1>4, MetricsAre
  <2>4. X = Product(R, U)
    OBVIOUS
  <2> HIDE DEF X, T, U
  <2>5. Product(A, Transpose(A)) = Product(S, Product(X, T))
    <3>1. Product(Product(S, R), Product(U, T)) = Product(S, Product(R, Product(U, T)))
      BY <1>1, <1>2, <2>1, Associates
    <3>2. Product(R, Product(U, T)) = Product(X, T)
      BY <1>2, <2>1, <2>4, Associates
    <3> QED BY <1>6, <2>2, <3>1, <3>2
  <2>6. Product(X, T) = T
    BY <1>1, <2>1, <2>3, <2>5, CancelLeft
  <2>7. Lat!Determinant(T) # 0
    BY <1>1, DeterminantTransposed DEF T
  <2>8. X = Unit
    BY <1>3, <2>1, <2>6, <2>7, UnitProducts, CancelRight
  <2> QED BY <2>8 DEF X
<1>8. Lat!Determinant(R) = 1
  <2> DEFINE r == Lat!Determinant(R)
  <2>1. r \in Int /\ e = d * r
    BY <1>1, <1>2, <1>6, RightInverse, DeterminantProduct
  <2> HIDE DEF d, e, r
  <2>2. e = d
    <3>1. (e - d) * (e + d) = 0 /\ e \in Int /\ d \in Int /\ e + d > 0
      BY <1>1, <1>4, <1>5
    <3> QED BY <3>1
  <2>4. r = 1
    <3>1. d * (r - 1) = 0 /\ d \in Int /\ d # 0 /\ r \in Int
      BY <1>1, <2>1, <2>2
    <3> QED BY <3>1
  <2> QED BY <2>4 DEF r
<1> QED BY <1>2, <1>6, <1>7, <1>8 DEF Rotation, R, B


-----------------------------------------------------------------------------
(* Vectors and a base.                                                     *)

(* Sums of vectors. *)
LEMMA SumIs ==
  ASSUME NEW x \in Vectors, NEW y \in Vectors
  PROVE  /\ Plus(x, y) \in Vectors /\ Plus(x, y)[1] = x[1] + y[1]
         /\ Plus(x, y)[2] = x[2] + y[2] /\ Plus(x, y)[3] = x[3] + y[3]
<1>1. /\ x[1] + y[1] \in Int /\ x[2] + y[2] \in Int /\ x[3] + y[3] \in Int
  BY VectorIs
<1> QED BY <1>1, IsVector DEF Plus

(* Sums of three products are linear. *)
LEMMA Sums ==
  ASSUME NEW a \in Int, NEW b \in Int, NEW c \in Int, NEW x \in Int, NEW y \in Int, NEW z \in Int,
         NEW u \in Int, NEW v \in Int, NEW w \in Int, NEW d \in Int
  PROVE  /\ (x + u) * a + (y + v) * b + (z + w) * c
              = (x * a + y * b + z * c) + (u * a + v * b + w * c)
         /\ (d * x) * a + (d * y) * b + (d * z) * c = d * (x * a + y * b + z * c)
  OBVIOUS

(* Rows times a matrix are linear. *)
LEMMA RowIsLinear ==
  ASSUME NEW M \in Matrices, NEW x \in Vectors, NEW y \in Vectors, NEW d \in Int
  PROVE  /\ Cartesian(M, Plus(x, y)) = Plus(Cartesian(M, x), Cartesian(M, y))
         /\ Cartesian(M, Scale(d, x)) = Scale(d, Cartesian(M, x))
<1> DEFINE X == Cartesian(M, x)
           Y == Cartesian(M, y)
           s == Plus(x, y)
           t == Scale(d, x)
<1>1. /\ x[1] \in Int /\ x[2] \in Int /\ x[3] \in Int /\ y[1] \in Int /\ y[2] \in Int /\ y[3] \in Int
      /\ X \in Vectors /\ Y \in Vectors /\ s \in Vectors /\ t \in Vectors
  BY VectorIs, RowTimes, SumIs, ScaleIs
<1>2. /\ s[1] = x[1] + y[1] /\ s[2] = x[2] + y[2] /\ s[3] = x[3] + y[3]
      /\ t[1] = d * x[1] /\ t[2] = d * x[2] /\ t[3] = d * x[3]
  BY SumIs, ScaleIs
<1>3. ASSUME NEW k \in 1..3
      PROVE  /\ Cartesian(M, s)[k] = X[k] + Y[k]
             /\ Cartesian(M, t)[k] = d * X[k]
  <2> DEFINE a == M[1][k]
             b == M[2][k]
             c == M[3][k]
  <2>1. a \in Int /\ b \in Int /\ c \in Int
    BY MatrixEntries
  <2>2. ASSUME NEW z \in Vectors PROVE Cartesian(M, z)[k] = z[1] * a + z[2] * b + z[3] * c
    <3>1. k = 1 \/ k = 2 \/ k = 3
      OBVIOUS
    <3> QED BY <3>1, RowTimes
  <2>3. /\ X[k] = x[1] * a + x[2] * b + x[3] * c /\ Y[k] = y[1] * a + y[2] * b + y[3] * c
        /\ Cartesian(M, s)[k] = s[1] * a + s[2] * b + s[3] * c
        /\ Cartesian(M, t)[k] = t[1] * a + t[2] * b + t[3] * c
    BY <1>1, <2>2
  <2> HIDE DEF X, Y, s, t, a, b, c
  <2> QED BY <1>1, <1>2, <2>1, <2>3, Sums
<1>4. /\ Cartesian(M, s) \in Vectors /\ Plus(X, Y) \in Vectors
      /\ Cartesian(M, t) \in Vectors /\ Scale(d, X) \in Vectors
  BY <1>1, RowTimes, SumIs, ScaleIs
<1>5. /\ Plus(X, Y)[1] = X[1] + Y[1] /\ Plus(X, Y)[2] = X[2] + Y[2] /\ Plus(X, Y)[3] = X[3] + Y[3]
      /\ Scale(d, X)[1] = d * X[1] /\ Scale(d, X)[2] = d * X[2] /\ Scale(d, X)[3] = d * X[3]
  BY <1>1, SumIs, ScaleIs
<1> HIDE DEF X, Y, s, t
<1>6. Cartesian(M, s) = Plus(X, Y)
  BY <1>3, <1>4, <1>5, SameVector
<1>7. Cartesian(M, t) = Scale(d, X)
  BY <1>3, <1>4, <1>5, SameVector
<1> QED BY <1>6, <1>7 DEF X, Y, s, t

(* Rows times a multiple of the unit matrix. *)
LEMMA RowTimesUnit ==
  ASSUME NEW x \in Vectors, NEW d \in Int
  PROVE  Cartesian(Times(d, Unit), x) = Scale(d, x)
<1> DEFINE M == Times(d, Unit)
<1>1. /\ M \in Matrices /\ \A i, k \in 1..3 : M[i][k] = d * Unit[i][k]
  BY UnitIs, TimesIs, MultipleEntries
<1>2. /\ Unit[1][1] = 1 /\ Unit[1][2] = 0 /\ Unit[1][3] = 0
      /\ Unit[2][1] = 0 /\ Unit[2][2] = 1 /\ Unit[2][3] = 0
      /\ Unit[3][1] = 0 /\ Unit[3][2] = 0 /\ Unit[3][3] = 1
  BY UnitIs
<1>3. /\ M[1][1] = d /\ M[1][2] = 0 /\ M[1][3] = 0
      /\ M[2][1] = 0 /\ M[2][2] = d /\ M[2][3] = 0
      /\ M[3][1] = 0 /\ M[3][2] = 0 /\ M[3][3] = d
  <2> HIDE DEF M
  <2>1. d * 1 = d /\ d * 0 = 0
    OBVIOUS
  <2> QED BY <1>1, <1>2, <2>1
<1> HIDE DEF M
<1>4. x[1] \in Int /\ x[2] \in Int /\ x[3] \in Int
  BY VectorIs
<1>5. /\ Cartesian(M, x) \in Vectors
      /\ Cartesian(M, x)[1] = d * x[1] /\ Cartesian(M, x)[2] = d * x[2] /\ Cartesian(M, x)[3] = d * x[3]
  BY <1>1, <1>3, <1>4, RowTimes
<1> QED BY <1>5, ScaleIs, SameVector DEF M

(* The adjugate takes back what the matrix does, times the determinant. *)
LEMMA RowBack ==
  ASSUME NEW A \in Matrices, NEW x \in Vectors
  PROVE  /\ Cartesian(Lat!Adjugate(A), Cartesian(A, x)) = Scale(Lat!Determinant(A), x)
         /\ Cartesian(A, Cartesian(Lat!Adjugate(A), x)) = Scale(Lat!Determinant(A), x)
<1>1. Lat!Adjugate(A) \in Matrices /\ Lat!Determinant(A) \in Int
  BY AdjugateIs, RightInverse
<1> QED BY <1>1, RowTimesTwo, RightInverse, LeftInverse, RowTimesUnit

(* A matrix on one side of an inner product is its transpose on the other. *)
LEMMA OtherSide ==
  ASSUME NEW M \in Matrices, NEW x \in Vectors, NEW y \in Vectors
  PROVE  Inner(Cartesian(M, x), y) = Inner(x, Cartesian(Transpose(M), y))
<1> DEFINE T == Transpose(M)
           X == Cartesian(M, x)
           Y == Cartesian(T, y)
<1>1. /\ x[1] \in Int /\ x[2] \in Int /\ x[3] \in Int /\ y[1] \in Int /\ y[2] \in Int /\ y[3] \in Int
      /\ \A i, k \in 1..3 : M[i][k] \in Int
  BY VectorIs, MatrixEntries
<1>2. /\ X[1] = x[1] * M[1][1] + x[2] * M[2][1] + x[3] * M[3][1]
      /\ X[2] = x[1] * M[1][2] + x[2] * M[2][2] + x[3] * M[3][2]
      /\ X[3] = x[1] * M[1][3] + x[2] * M[2][3] + x[3] * M[3][3]
  BY RowTimes
<1>3. /\ Y[1] = y[1] * T[1][1] + y[2] * T[2][1] + y[3] * T[3][1]
      /\ Y[2] = y[1] * T[1][2] + y[2] * T[2][2] + y[3] * T[3][2]
      /\ Y[3] = y[1] * T[1][3] + y[2] * T[2][3] + y[3] * T[3][3]
  BY TransposeIs, RowTimes
<1>4. /\ T[1][1] = M[1][1] /\ T[2][1] = M[1][2] /\ T[3][1] = M[1][3]
      /\ T[1][2] = M[2][1] /\ T[2][2] = M[2][2] /\ T[3][2] = M[2][3]
      /\ T[1][3] = M[3][1] /\ T[2][3] = M[3][2] /\ T[3][3] = M[3][3]
  BY Transposed
<1>5. /\ Inner(X, y) = X[1] * y[1] + X[2] * y[2] + X[3] * y[3]
      /\ Inner(x, Y) = x[1] * Y[1] + x[2] * Y[2] + x[3] * Y[3]
  BY DEF Inner
<1> DEFINE a == M[1][1]
           b == M[1][2]
           c == M[1][3]
           d == M[2][1]
           e == M[2][2]
           f == M[2][3]
           g == M[3][1]
           h == M[3][2]
           i == M[3][3]
           u == x[1]
           v == x[2]
           w == x[3]
           p == y[1]
           q == y[2]
           r == y[3]
<1>6. /\ a \in Int /\ b \in Int /\ c \in Int /\ d \in Int /\ e \in Int /\ f \in Int
      /\ g \in Int /\ h \in Int /\ i \in Int /\ u \in Int /\ v \in Int /\ w \in Int
      /\ p \in Int /\ q \in Int /\ r \in Int
  BY <1>1
<1>7. /\ Inner(X, y) = (u * a + v * d + w * g) * p + (u * b + v * e + w * h) * q + (u * c + v * f + w * i) * r
  BY <1>2, <1>5
<1>8. Inner(x, Y) = u * (p * a + q * b + r * c) + v * (p * d + q * e + r * f) + w * (p * g + q * h + r * i)
  BY <1>3, <1>4, <1>5
<1> HIDE DEF a, b, c, d, e, f, g, h, i, u, v, w, p, q, r, X, Y, T
<1>9. /\ p * a = a * p /\ q * b = b * q /\ r * c = c * r /\ p * d = d * p /\ q * e = e * q
      /\ r * f = f * r /\ p * g = g * p /\ q * h = h * q /\ r * i = i * r
  BY <1>6
<1>10. Inner(x, Y) = u * (a * p + b * q + c * r) + v * (d * p + e * q + f * r) + w * (g * p + h * q + i * r)
  BY <1>8, <1>9
<1> QED BY <1>6, <1>7, <1>10, Brackets DEF X, Y, T

(* Lengths by the metrics are those in the base. *)
LEMMA LengthByMetrics ==
  ASSUME NEW A \in Matrices, NEW x \in Vectors
  PROVE  Inner(Cartesian(Lat!Metrics(A), x), x) = Normsq(Cartesian(A, x))
<1> DEFINE T == Transpose(A)
           u == Cartesian(A, x)
<1>1. T \in Matrices /\ u \in Vectors /\ Transpose(T) = A
  BY TransposeIs, RowTimes, TransposedTwice
<1>2. Cartesian(Lat!Metrics(A), x) = Cartesian(T, u)
  BY <1>1, MetricsAre, RowTimesTwo
<1>3. Inner(Cartesian(T, u), x) = Inner(u, Cartesian(Transpose(T), x))
  BY <1>1, OtherSide
<1> QED BY <1>1, <1>2, <1>3 DEF Normsq

-----------------------------------------------------------------------------
(* The unit cell.                                                          *)

(* Remainders are below the divisor, and are the same for numbers that are *)
(* a multiple of it apart.                                                 *)
LEMMA RemaindersAre ==
  ASSUME NEW m \in Nat \ {0}, NEW a \in Int, NEW t \in Int
  PROVE  /\ a % m \in 0..m - 1 /\ a \div m \in Int /\ a = m * (a \div m) + (a % m)
         /\ (a + m * t) % m = a % m
         /\ \A r \in 0..m - 1 : r % m = r
<1>1. ASSUME NEW b \in Int
      PROVE  b % m \in 0..m - 1 /\ b \div m \in Int /\ b = m * (b \div m) + (b % m)
  OBVIOUS
<1>2. ASSUME NEW r \in 0..m - 1, NEW s \in 0..m - 1, NEW u \in Int, r = m * u + s
      PROVE  r = s
  <2>1. m \in Int /\ m > 0 /\ m * u \in Int /\ m * u < m /\ m * u > -m
    BY <1>2
  <2>2. ~(u >= 1)
    <3> SUFFICES ASSUME u >= 1 PROVE FALSE
      OBVIOUS
    <3>1. m * u >= m * 1
      BY <2>1
    <3> QED BY <2>1, <3>1
  <2>3. ~(u =< -1)
    <3> SUFFICES ASSUME u =< -1 PROVE FALSE
      OBVIOUS
    <3>1. m * u =< m * (-1)
      BY <2>1
    <3> QED BY <2>1, <3>1
  <2>4. u = 0
    BY <2>2, <2>3
  <2> QED BY <1>2, <2>4
<1>3. (a + m * t) % m = a % m
  <2> DEFINE b == a + m * t
             r == b % m
             s == a % m
             p == b \div m
             q == a \div m
  <2>1. b \in Int
    OBVIOUS
  <2>2. r \in 0..m - 1 /\ p \in Int /\ b = m * p + r
    BY <1>1, <2>1
  <2>3. s \in 0..m - 1 /\ q \in Int /\ a = m * q + s
    BY <1>1
  <2>4. m * p \in Int /\ m * q \in Int /\ m * t \in Int /\ m \in Int
        /\ m * (q + t - p) = m * q + m * t - m * p
    BY <2>2, <2>3
  <2>5. b = a + m * t
    OBVIOUS
  <2> HIDE DEF r, s, p, q, b
  <2>6. r = m * (q + t - p) + s /\ q + t - p \in Int
    <3> DEFINE mp == m * p
               mq == m * q
               mt == m * t
               d == m * (q + t - p)
    <3>1. mp \in Int /\ mq \in Int /\ mt \in Int /\ d = mq + mt - mp
      BY <2>4
    <3>2. r \in Int /\ s \in Int /\ mp + r = (mq + s) + mt
      BY <2>2, <2>3, <2>5
    <3>3. q + t - p \in Int
      BY <2>2, <2>3
    <3> HIDE DEF mp, mq, mt, d
    <3>4. r = d + s
      BY <3>1, <3>2
    <3> QED BY <3>3, <3>4 DEF d
  <2>7. r \in 0..m - 1 /\ s \in 0..m - 1
    BY <2>2, <2>3
  <2>8. r = s
    BY <1>2, <2>6, <2>7
  <2> QED BY <2>8, Zenon DEF r, s, b
<1>4. ASSUME NEW r \in 0..m - 1 PROVE r % m = r
  <2> DEFINE s == r % m
             q == r \div m
  <2>1. s \in 0..m - 1 /\ q \in Int /\ r = m * q + s
    BY <1>1
  <2> HIDE DEF s, q
  <2>2. r = s
    BY <1>2, <2>1
  <2> QED BY <2>2 DEF s
<1> QED BY <1>1, <1>3, <1>4

Wrapped(n, f) == [k \in 1..3 |-> f[k] % n]

(* Functions of 1, 2 and 3. *)
LEMMA VectorOf ==
  ASSUME NEW x, x = [k \in 1..3 |-> x[k]], \A k \in 1..3 : x[k] \in Int
  PROVE  x \in Vectors
<1>1. x = <<x[1], x[2], x[3]>>
  OBVIOUS
<1> QED BY <1>1, IsVector

LEMMA SameCoordinates ==
  ASSUME NEW x \in Vectors, NEW y \in Vectors, \A k \in 1..3 : x[k] = y[k]
  PROVE  x = y
  BY SameVector

(* A position is moved by whole vectors, and one that is inside stays. *)
LEMMA WrappedIs ==
  ASSUME NEW n \in Nat \ {0}, NEW f \in Vectors, NEW t \in Vectors
  PROVE  /\ Wrapped(n, f) \in Vectors
         /\ \E q \in Vectors : f = Plus(Scale(n, q), Wrapped(n, f))
         /\ Wrapped(n, Plus(f, Scale(n, t))) = Wrapped(n, f)
         /\ Wrapped(n, Wrapped(n, f)) = Wrapped(n, f)
<1> DEFINE w == Wrapped(n, f)
           q == [k \in 1..3 |-> f[k] \div n]
           g == Plus(f, Scale(n, t))
<1>1. /\ \A k \in 1..3 : f[k] \in Int /\ t[k] \in Int
      /\ n \in Int
  BY VectorIs
<1>2. ASSUME NEW k \in 1..3
      PROVE  /\ w[k] \in 0..n - 1 /\ w[k] \in Int /\ q[k] \in Int /\ f[k] = n * q[k] + w[k]
             /\ (f[k] + n * t[k]) % n = w[k] /\ w[k] % n = w[k]
  <2>1. w[k] = f[k] % n /\ q[k] = f[k] \div n
    BY DEF Wrapped
  <2> DEFINE a == f[k]
             b == t[k]
             r == a % n
             p == a \div n
  <2>2. a \in Int /\ b \in Int
    BY <1>1
  <2>3. /\ r \in 0..n - 1 /\ p \in Int /\ a = n * p + r /\ (a + n * b) % n = r
        /\ \A s \in 0..n - 1 : s % n = s
    BY <2>2, RemaindersAre
  <2>4. w[k] = r /\ q[k] = p
    BY <2>1
  <2> HIDE DEF w, q, r, p, a, b
  <2>5. r % n = r /\ r \in Int
    BY <1>1, <2>3
  <2> QED BY <2>3, <2>4, <2>5 DEF a, b
<1>3. w = [k \in 1..3 |-> w[k]] /\ q = [k \in 1..3 |-> q[k]]
  BY DEF Wrapped
<1>4. w \in Vectors /\ q \in Vectors
  <2> HIDE DEF w, q
  <2> QED BY <1>2, <1>3, VectorOf
<1>5. g \in Vectors /\ (\A k \in 1..3 : g[k] = f[k] + n * t[k])
      /\ Plus(Scale(n, q), w) \in Vectors /\ (\A k \in 1..3 : Plus(Scale(n, q), w)[k] = n * q[k] + w[k])
  <2> HIDE DEF w, q
  <2>1. Scale(n, t) \in Vectors /\ (\A k \in 1..3 : Scale(n, t)[k] = n * t[k])
        /\ Scale(n, q) \in Vectors /\ (\A k \in 1..3 : Scale(n, q)[k] = n * q[k])
    BY <1>1, <1>4, ScaleIs
  <2> QED BY <1>4, <2>1, SumIs
<1>6. f = Plus(Scale(n, q), w)
  <2> HIDE DEF w, q
  <2> QED BY <1>2, <1>5, SameCoordinates
<1>7. Wrapped(n, g) = w
  <2>1. \A k \in 1..3 : g[k] % n = w[k]
    <3> HIDE DEF w, g
    <3> QED BY <1>2, <1>5
  <2>2. Wrapped(n, g) = [k \in 1..3 |-> w[k]]
    <3> HIDE DEF w, g
    <3> QED BY <2>1 DEF Wrapped
  <2> QED BY <1>3, <2>2
<1>8. Wrapped(n, w) = w
  <2> HIDE DEF w, q
  <2> QED BY <1>2, <1>3 DEF Wrapped
<1> QED BY <1>4, <1>6, <1>7, <1>8

(* Multiples of vectors. *)
LEMMA ScaledVectors ==
  ASSUME NEW d \in Int, NEW e \in Int, NEW x \in Vectors, NEW y \in Vectors
  PROVE  /\ Scale(d, Scale(e, x)) = Scale(d * e, x)
         /\ Scale(d, Scale(e, x)) = Scale(e, Scale(d, x))
         /\ d # 0 /\ Scale(d, x) = Scale(d, y) => x = y
<1>1. \A k \in 1..3 : x[k] \in Int /\ y[k] \in Int
  BY VectorIs
<1>2. /\ Scale(e, x) \in Vectors /\ Scale(d, x) \in Vectors /\ Scale(d, y) \in Vectors /\ d * e \in Int
  BY ScaleIs
<1>3. /\ Scale(d, Scale(e, x)) \in Vectors /\ Scale(e, Scale(d, x)) \in Vectors /\ Scale(d * e, x) \in Vectors
  BY <1>2, ScaleIs
<1>4. ASSUME NEW k \in 1..3
      PROVE  /\ Scale(d, Scale(e, x))[k] = d * (e * x[k]) /\ Scale(e, Scale(d, x))[k] = e * (d * x[k])
             /\ Scale(d * e, x)[k] = (d * e) * x[k] /\ Scale(d, x)[k] = d * x[k] /\ Scale(d, y)[k] = d * y[k]
  <2>1. k = 1 \/ k = 2 \/ k = 3
    OBVIOUS
  <2> QED BY <1>2, <2>1, ScaleIs
<1>5. ASSUME NEW k \in 1..3
      PROVE  /\ d * (e * x[k]) = (d * e) * x[k] /\ e * (d * x[k]) = (d * e) * x[k]
             /\ d # 0 /\ d * x[k] = d * y[k] => x[k] = y[k]
  <2> DEFINE a == x[k]
             b == y[k]
  <2>1. a \in Int /\ b \in Int
    BY <1>1
  <2> HIDE DEF a, b
  <2>2. d * (e * a) = (d * e) * a /\ e * (d * a) = (d * e) * a
    BY <2>1
  <2>3. d # 0 /\ d * a = d * b => a = b
    <3> SUFFICES ASSUME d # 0, d * a = d * b PROVE a = b
      OBVIOUS
    <3>1. d * (a - b) = 0
      BY <2>1
    <3> QED BY <2>1, <3>1
  <2> QED BY <2>2, <2>3 DEF a, b
<1>6. Scale(d, Scale(e, x)) = Scale(d * e, x) /\ Scale(d, Scale(e, x)) = Scale(e, Scale(d, x))
  BY <1>3, <1>4, <1>5, SameCoordinates
<1>7. ASSUME d # 0, Scale(d, x) = Scale(d, y) PROVE x = y
  <2>1. \A k \in 1..3 : x[k] = y[k]
    BY <1>4, <1>5, <1>7
  <2> QED BY <2>1, SameCoordinates
<1> QED BY <1>6, <1>7

(* Positions are moved to the same place in the unit cell as their copies, *)
(* and stay at their places there.                                         *)
LEMMA MovedToCell ==
  ASSUME NEW l, NEW A \in Matrices, Lat!Determinant(A) > 0,
         l.base = A, l.recbase = Lat!RecBase(A), NEW x \in Vectors
  PROVE  LET inside == Lat!UcvCartesian(l, x)
         IN  /\ \A i \in 1..3 :
                  Lat!UcvCartesian(l, Plus(x, [k \in 1..3 |-> Grid * A[i][k]])) = inside
             /\ \A k \in 1..3 : inside[k] % l.recbase.det = 0
             /\ Lat!UcvCartesian(l, [k \in 1..3 |-> inside[k] \div l.recbase.det]) = inside
<1> DEFINE d == Lat!Determinant(A)
           B == Lat!Adjugate(A)
           n == Grid * d
           f == Cartesian(B, x)
           w == Wrapped(n, f)
           inside == Cartesian(A, w)
<1>1. /\ l.base = A /\ l.recbase.adj = B /\ l.recbase.det = d
      /\ d \in Nat \ {0} /\ B \in Matrices /\ Grid \in Nat \ {0}
  <2>1. d \in Int /\ d > 0
    BY RightInverse
  <2>2. l.recbase.adj = B /\ l.recbase.det = d
    BY DEF Lat!RecBase
  <2> HIDE DEF d
  <2> QED BY <2>1, <2>2, AdjugateIs, GridAssumption
<1>2. n \in Nat \ {0} /\ n \in Int /\ d \in Int /\ d # 0 /\ Grid \in Int
  <2> HIDE DEF d
  <2> QED BY <1>1
<1>3. f \in Vectors
  BY <1>1, RowTimes
<1>4. ASSUME NEW y
      PROVE  Lat!UcvCartesian(l, y) = Cartesian(A, Wrapped(n, Cartesian(B, y)))
  BY <1>1, OperatorsAgree DEF Lat!UcvCartesian, Lat!Fractional, Wrapped
<1>5. Product(A, B) = Times(d, Unit)
  BY RightInverse
<1>6. /\ \A y \in Vectors : Cartesian(B, Cartesian(A, y)) = Scale(d, y)
      /\ \A y \in Vectors : Cartesian(A, Cartesian(B, y)) = Scale(d, y)
  BY RowBack
<1> HIDE DEF d, B, n
<1>7. w \in Vectors /\ Wrapped(n, w) = w /\ \E q \in Vectors : f = Plus(Scale(n, q), w)
  BY <1>2, <1>3, WrappedIs
<1>8. ASSUME NEW t \in Vectors PROVE Wrapped(n, Plus(f, Scale(n, t))) = w
  BY <1>2, <1>3, WrappedIs
<1> HIDE DEF f, w
<1>9. inside \in Vectors
  BY <1>7, RowTimes
<1>a. Lat!UcvCartesian(l, x) = inside
  BY <1>4 DEF f, w
<1>10. ASSUME NEW i \in 1..3
       PROVE  Lat!UcvCartesian(l, Plus(x, [k \in 1..3 |-> Grid * A[i][k]])) = inside
  <2> DEFINE a == A[i]
             s == Scale(Grid, a)
             e == Unit[i]
             y == [k \in 1..3 |-> Grid * A[i][k]]
  <2>1. a \in Vectors /\ e \in Vectors
    <3>1. i = 1 \/ i = 2 \/ i = 3
      OBVIOUS
    <3> QED BY <3>1, UnitIs, MatrixIs
  <2>2. y = s
    <3>1. \A k \in 1..3 : Grid * a[k] \in Int
      BY <1>2, MatrixEntries
    <3>2. y = [k \in 1..3 |-> y[k]] /\ \A k \in 1..3 : y[k] = Grid * a[k]
      OBVIOUS
    <3>3. s \in Vectors /\ s[1] = Grid * a[1] /\ s[2] = Grid * a[2] /\ s[3] = Grid * a[3]
      BY <1>2, <2>1, ScaleIs
    <3> HIDE DEF y, s, a
    <3>4. y \in Vectors
      BY <3>1, <3>2, VectorOf
    <3>5. \A k \in 1..3 : y[k] = s[k]
      BY <3>2, <3>3
    <3> QED BY <3>3, <3>4, <3>5, SameCoordinates
  <2>3. Cartesian(B, a) = Scale(d, e)
    <3>1. Product(A, B)[i] = Cartesian(B, a)
      <4>1. i = 1 \/ i = 2 \/ i = 3
        OBVIOUS
      <4> QED BY <1>1, <4>1, ProductIs
    <3>2. Times(d, Unit)[i] = Scale(d, e)
      <4>1. i = 1 \/ i = 2 \/ i = 3
        OBVIOUS
      <4> QED BY <1>2, <4>1, UnitIs, TimesIs
    <3> QED BY <1>5, <3>1, <3>2
  <2>4. Cartesian(B, Plus(x, s)) = Plus(f, Cartesian(B, s)) /\ Cartesian(B, s) = Scale(Grid, Cartesian(B, a))
    <3>1. s \in Vectors
      BY <1>2, <2>1, ScaleIs
    <3> HIDE DEF s, a
    <3>2. Cartesian(B, Plus(x, s)) = Plus(Cartesian(B, x), Cartesian(B, s))
      BY <1>1, <1>2, <3>1, RowIsLinear
    <3>3. Cartesian(B, Scale(Grid, a)) = Scale(Grid, Cartesian(B, a))
      BY <1>1, <1>2, <2>1, RowIsLinear
    <3> QED BY <3>2, <3>3 DEF f, s
  <2> HIDE DEF a, s, e, y
  <2>5. Cartesian(B, s) = Scale(n, e)
    BY <1>2, <2>1, <2>3, <2>4, ScaledVectors DEF n
  <2>6. Wrapped(n, Cartesian(B, Plus(x, s))) = w
    BY <1>8, <2>1, <2>4, <2>5
  <2> QED BY <1>4, <2>2, <2>6 DEF y
<1>11. PICK q \in Vectors : f = Plus(Scale(n, q), w)
  BY <1>7
<1> DEFINE u == Cartesian(A, q)
           z == [k \in 1..3 |-> x[k] - Grid * u[k]]
<1>12. u \in Vectors
  BY RowTimes
<1>13. ASSUME NEW k \in 1..3
       PROVE  z[k] \in Int /\ inside[k] = d * z[k] /\ inside[k] \in Int
  <2>1. x[k] \in Int /\ u[k] \in Int /\ inside[k] \in Int /\ z[k] = x[k] - Grid * u[k]
    <3> HIDE DEF u, inside
    <3>1. k = 1 \/ k = 2 \/ k = 3
      OBVIOUS
    <3> QED BY <1>9, <1>12, <3>1, VectorIs
  <2>2. Scale(d, x) = Plus(Scale(n, u), inside)
    <3>1. Cartesian(A, f) = Scale(d, x)
      BY <1>6 DEF f
    <3>2. Scale(n, q) \in Vectors
      BY <1>2, ScaleIs
    <3>3. Cartesian(A, Plus(Scale(n, q), w)) = Plus(Cartesian(A, Scale(n, q)), inside)
      BY <1>2, <1>7, <3>2, RowIsLinear
    <3>4. Cartesian(A, Scale(n, q)) = Scale(n, u)
      BY <1>2, <1>11, RowIsLinear
    <3> QED BY <1>11, <3>1, <3>3, <3>4
  <2> HIDE DEF u, z, inside
  <2>3. Scale(d, x)[k] = d * x[k]
    <3>1. k = 1 \/ k = 2 \/ k = 3
      OBVIOUS
    <3> QED BY <1>2, <3>1, ScaleIs
  <2>4. Plus(Scale(n, u), inside)[k] = n * u[k] + inside[k]
    <3>1. Scale(n, u) \in Vectors
      BY <1>2, <1>12, ScaleIs
    <3>2. k = 1 \/ k = 2 \/ k = 3
      OBVIOUS
    <3> QED BY <1>2, <1>9, <1>12, <3>1, <3>2, ScaleIs, SumIs
  <2>5. d * x[k] = n * u[k] + inside[k]
    BY <2>2, <2>3, <2>4
  <2> DEFINE xk == x[k]
             uk == u[k]
             ik == inside[k]
  <2>6. /\ xk \in Int /\ uk \in Int /\ ik \in Int /\ d * xk = (Grid * d) * uk + ik
        /\ z[k] = xk - Grid * uk
    BY <2>1, <2>5 DEF n
  <2> HIDE DEF xk, uk, ik
  <2>7. ik = d * (xk - Grid * uk) /\ xk - Grid * uk \in Int
    BY <1>2, <2>6
  <2> QED BY <2>6, <2>7 DEF ik
<1> HIDE DEF z, u, inside
<1>14. ASSUME NEW k \in 1..3
       PROVE  inside[k] % d = 0 /\ inside[k] \div d = z[k]
  <2> DEFINE i == inside[k]
             j == z[k]
             r == i % d
             p == i \div d
  <2>a. PICK o \in Int : o = 0
    OBVIOUS
  <2>1. i \in Int /\ j \in Int /\ i = d * j /\ o \in 0..d - 1
    BY <1>1, <1>13, <2>a
  <2>2. i = o + d * j
    BY <1>2, <2>1, <2>a
  <2>3. (o + d * j) % d = o % d /\ o % d = o
    BY <1>1, <2>1, RemaindersAre
  <2>4. r = 0
    BY <2>2, <2>3, <2>a
  <2>5. p \in Int /\ i = d * p + r
    BY <1>1, <2>1, RemaindersAre
  <2> HIDE DEF i, j, r, p
  <2>6. d * (p - j) = 0
    BY <1>2, <2>1, <2>4, <2>5
  <2>7. p = j
    BY <1>2, <2>1, <2>5, <2>6
  <2> QED BY <2>4, <2>7 DEF r, p, i, j
<1>15. z \in Vectors
  <2>1. z = [k \in 1..3 |-> z[k]]
    BY DEF z
  <2> QED BY <1>13, <2>1, VectorOf
<1>16. [k \in 1..3 |-> inside[k] \div d] = z
  <2>1. z = [k \in 1..3 |-> z[k]]
    BY DEF z
  <2> QED BY <1>14, <2>1
<1>17. Lat!UcvCartesian(l, z) = inside
  <2> DEFINE g == Cartesian(B, z)
  <2>1. g \in Vectors
    BY <1>1, <1>15, RowTimes
  <2>2. inside = Scale(d, z)
    <3>1. \A k \in 1..3 : Scale(d, z)[k] = d * z[k]
      BY <1>2, <1>15, ScaleIs
    <3>2. Scale(d, z) \in Vectors
      BY <1>2, <1>15, ScaleIs
    <3> QED BY <1>9, <1>13, <3>1, <3>2, SameCoordinates
  <2>3. Cartesian(B, inside) = Scale(d, w)
    BY <1>6, <1>7 DEF inside
  <2>4. Cartesian(B, Scale(d, z)) = Scale(d, g)
    BY <1>1, <1>2, <1>15, RowIsLinear
  <2> HIDE DEF g
  <2>5. g = w
    <3>1. Scale(d, g) = Scale(d, w) /\ d \in Int /\ d # 0 /\ w \in Vectors
      BY <1>2, <1>7, <2>2, <2>3, <2>4
    <3>2. d # 0 /\ Scale(d, g) = Scale(d, w) => g = w
      BY <2>1, <3>1, ScaledVectors
    <3> QED BY <3>1, <3>2
  <2>6. Lat!UcvCartesian(l, z) = Cartesian(A, Wrapped(n, g))
    BY <1>4 DEF g
  <2> QED BY <1>7, <2>5, <2>6 DEF inside
<1> QED BY <1>1, <1>a, <1>10, <1>14, <1>16, <1>17


-----------------------------------------------------------------------------
(* The lattice.                                                            *)

(* Cells have standard bases, and so do their reciprocal cells. *)
LEMMA StandardBaseIs ==
  ASSUME Lat!CellsAssumption, NEW m \in Lat!CellMetrics
  PROVE  /\ \A n \in {m, Lat!Reciprocal(m)} :
              /\ Lat!StandardBase(n) \in StandardBases
              /\ Lat!Metrics(Lat!StandardBase(n)) = n
              /\ Triangular(Lat!StandardBase(n))
<1>1. \A S \in StandardBases : Triangular(S)
  BY DEF Lat!CellsAssumption, Triangular, Lat!Matrices, Lat!Vectors, Matrices, Vectors
<1>2. \E S, T \in StandardBases : Lat!Metrics(S) = m /\ Lat!Metrics(T) = Lat!Reciprocal(m)
  BY DEF Lat!CellsAssumption
<1>3. ASSUME NEW n \in {m, Lat!Reciprocal(m)}
      PROVE  Lat!StandardBase(n) \in StandardBases /\ Lat!Metrics(Lat!StandardBase(n)) = n
  <2>1. \E S \in StandardBases : Lat!Metrics(S) = n
    BY <1>2
  <2> QED BY <2>1 DEF Lat!StandardBase
<1> QED BY <1>1, <1>3

(***************************************************************************)
(* The inductive invariant: the inverse is always that of the standard     *)
(* base of the metrics, turned by a rotation, and so is the base, unless   *)
(* the last one was refused.                                               *)
(***************************************************************************)
CellIsTurned ==
  /\ DOMAIN lat = {"base", "metrics", "stdbase", "baserot", "recbase"}
  /\ lat.stdbase \in StandardBases /\ Triangular(lat.stdbase)
  /\ lat.metrics \in Lat!CellMetrics /\ Lat!Metrics(lat.stdbase) = lat.metrics
  /\ Rotation(lat.baserot)
  /\ lat.recbase = Lat!RecBase(Product(lat.stdbase, lat.baserot))
  /\ torn \in BOOLEAN
  /\ ~torn => lat.base = Product(lat.stdbase, lat.baserot)

(* Cell parameters keep the rotation. *)
LEMMA CellByParameters ==
  ASSUME Lat!CellsAssumption, NEW l, Rotation(l.baserot), NEW m \in Lat!CellMetrics,
         lat' = Lat!SetLatPar(l, m), torn' = FALSE
  PROVE  CellIsTurned'
<1> DEFINE S == Lat!StandardBase(m)
<1>1. S \in StandardBases /\ Triangular(S) /\ Lat!Metrics(S) = m
  BY StandardBaseIs
<1> HIDE DEF S
<1>2. lat' = [base |-> Product(S, l.baserot), metrics |-> m, stdbase |-> S,
              baserot |-> l.baserot, recbase |-> Lat!RecBase(Product(S, l.baserot))]
  BY OperatorsAgree DEF Lat!SetLatPar, S
<1>3. /\ lat.base' = Product(S, l.baserot) /\ lat.metrics' = m /\ lat.stdbase' = S
      /\ lat.baserot' = l.baserot /\ lat.recbase' = Lat!RecBase(Product(S, l.baserot))
      /\ DOMAIN lat' = {"base", "metrics", "stdbase", "baserot", "recbase"}
  BY <1>2
<1> QED BY <1>1, <1>3 DEF CellIsTurned

(* Base vectors bring a rotation of their own. *)
LEMMA CellByBase ==
  ASSUME Lat!CellsAssumption, NEW A \in Bases, Lat!Determinant(A) > 0,
         lat' = Lat!SetLatBase(A), torn' = FALSE
  PROVE  CellIsTurned'
<1> DEFINE m == Lat!Metrics(A)
           S == Lat!StandardBase(m)
           R == Lat!Divided(Product(Lat!Adjugate(S), A), Lat!Determinant(S))
<1>1. A \in Lat!GoodBases /\ m \in Lat!CellMetrics /\ A \in Matrices
  BY DEF Lat!GoodBases, Lat!CellMetrics, Lat!CellsAssumption, Lat!Matrices, Lat!Vectors, Matrices, Vectors
<1>2. S \in StandardBases /\ Triangular(S) /\ Lat!Metrics(S) = m
  BY <1>1, StandardBaseIs
<1>3. \A i, k \in 1..3 : Product(Lat!Adjugate(S), A)[i][k] % Lat!Determinant(S) = 0
  BY <1>1, OperatorsAgree DEF Lat!CellsAssumption
<1>4. Rotation(R) /\ Product(S, R) = A
  <2> HIDE DEF S
  <2> QED BY <1>1, <1>2, <1>3, BaseRotation
<1>5. lat' = [base |-> A, metrics |-> m, stdbase |-> S, baserot |-> R, recbase |-> Lat!RecBase(A)]
  BY OperatorsAgree DEF Lat!SetLatBase
<1> HIDE DEF m, S, R
<1>6. /\ lat.base' = A /\ lat.metrics' = m /\ lat.stdbase' = S
      /\ lat.baserot' = R /\ lat.recbase' = Lat!RecBase(A)
      /\ DOMAIN lat' = {"base", "metrics", "stdbase", "baserot", "recbase"}
  BY <1>5
<1> QED BY <1>1, <1>2, <1>4, <1>6 DEF CellIsTurned

LEMMA NextKeepsCell ==
  ASSUME Lat!CellsAssumption, CellIsTurned, [Lat!Next]_(Lat!vars)
  PROVE  CellIsTurned'
<1>1. CASE UNCHANGED Lat!vars
  BY <1>1 DEF CellIsTurned, Lat!vars
<1>2. ASSUME NEW S \in Shapes, Lat!ChangeLatPar(Lat!Metrics(S)) PROVE CellIsTurned'
  <2>1. Lat!Metrics(S) \in Lat!CellMetrics
    BY DEF Lat!CellMetrics
  <2>2. Rotation(lat.baserot)
    BY DEF CellIsTurned
  <2> QED BY <1>2, <2>1, <2>2, CellByParameters DEF Lat!ChangeLatPar
<1>3. ASSUME NEW A \in Bases, Lat!ChangeLatBase(A) PROVE CellIsTurned'
  BY <1>3, CellByBase DEF Lat!ChangeLatBase
<1>4. ASSUME NEW A \in Bases, Lat!RefuseLatBase(A) PROVE CellIsTurned'
  <2>1. lat' = [lat EXCEPT !.base = A] /\ torn' = TRUE
    BY <1>4 DEF Lat!RefuseLatBase
  <2>2. /\ DOMAIN lat' = DOMAIN lat /\ lat.metrics' = lat.metrics /\ lat.stdbase' = lat.stdbase
        /\ lat.baserot' = lat.baserot /\ lat.recbase' = lat.recbase
    BY <2>1 DEF CellIsTurned
  <2> QED BY <2>1, <2>2 DEF CellIsTurned
<1> QED BY <1>1, <1>2, <1>3, <1>4 DEF Lat!Next

LEMMA InitCell ==
  ASSUME Lat!CellsAssumption, Lat!Init
  PROVE  CellIsTurned
<1> DEFINE l == [baserot |-> Unit]
           S == Lat!StandardBase(Unit)
<1>1. Rotation(Unit)
  <2>1. Unit \in Matrices
    BY UnitIs
  <2> QED BY <2>1, UnitTransposed, UnitProducts, DeterminantOfUnit DEF Rotation
<1>2. Unit \in Lat!CellMetrics
  <2>1. Lat!Metrics(Unit) = Unit
    BY <1>1, UnitIs, MetricsAre DEF Rotation
  <2> QED BY <2>1 DEF Lat!CellMetrics, Unit
<1>3. S \in StandardBases /\ Triangular(S) /\ Lat!Metrics(S) = Unit
  BY <1>2, StandardBaseIs
<1> HIDE DEF S
<1>4. l.baserot = Unit
  OBVIOUS
<1>5. Lat!SetLatPar(l, Unit) = [base |-> Product(S, l.baserot), metrics |-> Unit, stdbase |-> S,
              baserot |-> l.baserot, recbase |-> Lat!RecBase(Product(S, l.baserot))]
  <2> HIDE DEF l
  <2> QED BY OperatorsAgree DEF Lat!SetLatPar, S
<1>6. lat = Lat!SetLatPar(l, Unit) /\ torn = FALSE
  BY DEF Lat!Init, Unit
<1>7. /\ lat.base = Product(S, Unit) /\ lat.metrics = Unit /\ lat.stdbase = S
      /\ lat.baserot = Unit /\ lat.recbase = Lat!RecBase(Product(S, Unit))
      /\ DOMAIN lat = {"base", "metrics", "stdbase", "baserot", "recbase"}
  BY <1>4, <1>5, <1>6
<1> QED BY <1>1, <1>2, <1>3, <1>6, <1>7 DEF CellIsTurned

(* The base that the inverse belongs to. *)
LEMMA TurnedCell ==
  ASSUME CellIsTurned, NEW A, A = Product(lat.stdbase, lat.baserot)
  PROVE  /\ A \in Matrices /\ Lat!Determinant(A) \in Int /\ Lat!Determinant(A) > 0
         /\ Lat!Metrics(A) = lat.metrics
<1>1. Triangular(lat.stdbase) /\ Rotation(lat.baserot) /\ Lat!Metrics(lat.stdbase) = lat.metrics
  BY DEF CellIsTurned
<1> QED BY <1>1, TriangularVolume, TurnedBase

(* Members have their types. *)
LEMMA CellHasTypes ==
  ASSUME CellIsTurned
  PROVE  Lat!TypeOK
<1> DEFINE A == Product(lat.stdbase, lat.baserot)
<1>1. Lat!Determinant(A) > 0 /\ lat.recbase = Lat!RecBase(A)
  BY TurnedCell DEF CellIsTurned
<1> HIDE DEF A
<1>2. lat.recbase.det > 0
  BY <1>1 DEF Lat!RecBase
<1> QED BY <1>2 DEF CellIsTurned, Lat!TypeOK

(* They belong to one base. *)
LEMMA CellIsWhole ==
  ASSUME Lat!CellsAssumption, CellIsTurned
  PROVE  Lat!LatticeIsWhole
<1> SUFFICES ASSUME ~torn PROVE Lat!LatticeIsWhole
  BY DEF Lat!LatticeIsWhole
<1> DEFINE A == lat.base
           d == Lat!Determinant(A)
           B == Lat!Adjugate(A)
<1>1. A = Product(lat.stdbase, lat.baserot) /\ Rotation(lat.baserot) /\ lat.recbase = Lat!RecBase(A)
  BY DEF CellIsTurned
<1>2. A \in Matrices /\ d \in Int /\ d > 0 /\ Lat!Metrics(A) = lat.metrics
  BY <1>1, TurnedCell
<1>3. lat.recbase.adj = B /\ lat.recbase.det = d
  BY <1>1 DEF Lat!RecBase
<1>4. Coordinates \subseteq Vectors
  BY DEF Lat!CellsAssumption, Lat!Vectors, Vectors
<1> HIDE DEF A, d, B
<1>5. ASSUME NEW x \in Vectors
      PROVE  /\ Lat!Fractional(lat, Cartesian(A, x)) = [k \in 1..3 |-> lat.recbase.det * x[k]]
             /\ Lat!Dot(lat, x, x) = Normsq(Cartesian(A, x))
  <2>1. Lat!Fractional(lat, Cartesian(A, x)) = Scale(d, x)
    BY <1>2, <1>3, RowBack, OperatorsAgree DEF Lat!Fractional, B, d
  <2>2. Scale(d, x) = [k \in 1..3 |-> d * x[k]]
    <3> DEFINE y == [k \in 1..3 |-> d * x[k]]
    <3>1. y = [k \in 1..3 |-> y[k]] /\ \A k \in 1..3 : y[k] = d * x[k] /\ x[k] \in Int
      BY VectorIs
    <3> HIDE DEF y
    <3>2. \A k \in 1..3 : y[k] \in Int
      BY <1>2, <3>1
    <3>3. y \in Vectors
      BY <3>1, <3>2, VectorOf
    <3>4. Scale(d, x) \in Vectors /\ \A k \in 1..3 : Scale(d, x)[k] = d * x[k]
      BY <1>2, ScaleIs
    <3>5. Scale(d, x) = y
      BY <3>1, <3>3, <3>4, SameCoordinates
    <3> QED BY <3>5 DEF y
  <2>3. Lat!Dot(lat, x, x) = Inner(Cartesian(Lat!Metrics(A), x), x)
    BY <1>2, OperatorsAgree DEF Lat!Dot, Inner
  <2> QED BY <1>2, <1>3, <2>1, <2>2, <2>3, LengthByMetrics
<1>6. ASSUME NEW x \in Vectors
      PROVE  LET inside == Lat!UcvCartesian(lat, x)
             IN  /\ \A i \in 1..3 :
                      Lat!UcvCartesian(lat, Plus(x, [k \in 1..3 |-> Grid * A[i][k]])) = inside
                 /\ \A k \in 1..3 : inside[k] % lat.recbase.det = 0
                 /\ Lat!UcvCartesian(lat, [k \in 1..3 |-> inside[k] \div lat.recbase.det]) = inside
  <2>1. lat.base = A /\ Lat!Determinant(A) > 0
    BY <1>2 DEF A, d
  <2> QED BY <1>1, <1>2, <2>1, MovedToCell
<1>7. Product(lat.baserot, Transpose(lat.baserot)) = Unit /\ Lat!Determinant(lat.baserot) = 1
  BY <1>1 DEF Rotation
<1>8. /\ Lat!Product(lat.baserot, Lat!Transpose(lat.baserot)) = Lat!Identity
      /\ lat.base = Lat!Product(lat.stdbase, lat.baserot)
      /\ lat.metrics = Lat!Metrics(lat.base)
  BY <1>1, <1>2, <1>7, OperatorsAgree DEF A, Unit
<1>9. \A x \in Coordinates :
        /\ Lat!Fractional(lat, Lat!Cartesian(lat.base, x)) = [k \in 1..3 |-> lat.recbase.det * x[k]]
        /\ Lat!Dot(lat, x, x) = Lat!Normsq(Lat!Cartesian(lat.base, x))
  BY <1>4, <1>5, OperatorsAgree DEF A
<1>10. \A x \in Coordinates :
         LET inside == Lat!UcvCartesian(lat, x)
         IN  /\ \A i \in 1..3 :
                  Lat!UcvCartesian(lat, Lat!Plus(x, [k \in 1..3 |-> Grid * lat.base[i][k]])) = inside
             /\ \A k \in 1..3 : inside[k] % lat.recbase.det = 0
             /\ Lat!UcvCartesian(lat, [k \in 1..3 |-> inside[k] \div lat.recbase.det]) = inside
  BY <1>4, <1>6, OperatorsAgree DEF A
<1> QED BY <1>7, <1>8, <1>9, <1>10 DEF Lat!LatticeIsWhole

(***************************************************************************)
(* Members keep their types, the volume stays positive, and whatever bases *)
(* and cell parameters are set, base, metrics, rotation and inverse belong *)
(* together, lengths are those of the base, and positions are moved to the *)
(* unit cell without leaving their places (setLatPar, setLatBase,          *)
(* ucvCartesian); for all cells and bases whose standard bases and         *)
(* rotations are of integers.                                              *)
(***************************************************************************)
THEOREM LatticesAreWhole ==
  ASSUME Lat!CellsAssumption
  PROVE  Lat!Spec => [](Lat!TypeOK /\ Lat!LatticeIsWhole)
<1>1. Lat!Init => CellIsTurned
  BY InitCell
<1>2. CellIsTurned /\ [Lat!Next]_(Lat!vars) => CellIsTurned'
  BY NextKeepsCell
<1>3. CellIsTurned => Lat!TypeOK /\ Lat!LatticeIsWhole
  BY CellHasTypes, CellIsWhole
<1> QED BY <1>1, <1>2, <1>3, PTL DEF Lat!Spec


-----------------------------------------------------------------------------
(* Reflections.                                                            *)

(* The lattice shares its spheres with the generators: their roots, *)
LEMMA RootsAgree ==
  /\ \A x : Lat!Square(x) = Square(x) /\ Lat!SignedSquare(x) = SignedSquare(x)
  /\ \A x : Lat!RootUp(x) = RootUp(x)
  /\ \A x : Lat!RootDown(x) = RootDown(x)
<1>1. \A x : Lat!Square(x) = Square(x)
  BY DEF Lat!Square, Square
<1>2. \A x : Lat!SignedSquare(x) = SignedSquare(x)
  BY <1>1 DEF Lat!SignedSquare, SignedSquare
<1>3. Lat!Roots = Roots
  BY DEF Lat!Roots, Roots, Lat!Square, Square
<1>4. \A x : Lat!RootUp(x) = RootUp(x)
  BY <1>3 DEF Lat!RootUp, RootUp
<1>5. \A x : Lat!RootDown(x) = RootDown(x)
  BY <1>1, <1>4 DEF Lat!RootDown, RootDown
<1> QED BY <1>1, <1>2, <1>4, <1>5

(* ranges, *)
LEMMA RangesAgree ==
  /\ \A c, d, x : Lat!CeilBelow(c, d, x) = CeilBelow(c, d, x)
  /\ \A c, d, x : Lat!CeilAbove(c, d, x) = CeilAbove(c, d, x)
  /\ \A c, d, x : Lat!Between(c, d, x) = Between(c, d, x)
  /\ \A c, d, x : Lat!HoleOf(c, d, x) = HoleOf(c, d, x)
<1>1. \A c, d, x : Lat!CeilBelow(c, d, x) = CeilBelow(c, d, x)
  BY RootsAgree DEF Lat!CeilBelow, CeilBelow
<1>2. \A c, d, x : Lat!FloorBelow(c, d, x) = FloorBelow(c, d, x)
  BY RootsAgree DEF Lat!FloorBelow, FloorBelow
<1>3. \A c, d, x : Lat!CeilAbove(c, d, x) = CeilAbove(c, d, x)
  BY <1>2 DEF Lat!CeilAbove, CeilAbove
<1>4. \A c, d, x : Lat!Between(c, d, x) = Between(c, d, x)
  BY <1>2, <1>3 DEF Lat!Between, Between
<1>5. \A c, d, x : Lat!HoleOf(c, d, x) = HoleOf(c, d, x)
  BY <1>1, <1>3, RootsAgree DEF Lat!HoleOf, HoleOf
<1> QED BY <1>1, <1>3, <1>4, <1>5

(* lines and points, *)
LEMMA PointsAgree ==
  /\ \A p : Lat!HiM(p) = HiM(p)
  /\ \A p, m : Lat!LinesIn(p, m) = LinesIn(p, m)
  /\ \A p, m, n : Lat!PointsOn(p, m, n) = PointsOn(p, m, n)
<1>1. \A p : Lat!HiM(p) = HiM(p)
  BY RootsAgree, RangesAgree DEF Lat!HiM, HiM
<1>2. \A p, m : Lat!OffLine(p, m) = OffLine(p, m)
  BY DEF Lat!OffLine, OffLine
<1>3. \A p, m, n : Lat!OffPoint(p, m, n) = OffPoint(p, m, n)
  BY DEF Lat!OffPoint, OffPoint
<1>4. \A p, m : Lat!PlaneSquare(p, m) = PlaneSquare(p, m)
  BY RootsAgree DEF Lat!PlaneSquare, PlaneSquare
<1>5. \A p, m, n : Lat!LineSquare(p, m, n) = LineSquare(p, m, n)
  BY <1>2, <1>4, RootsAgree DEF Lat!LineSquare, LineSquare
<1>6. \A p, m, n : Lat!ExclSquare(p, m, n) = ExclSquare(p, m, n)
  BY <1>5, RootsAgree DEF Lat!ExclSquare, ExclSquare
<1>7. \A p, m : Lat!LinesIn(p, m) = LinesIn(p, m)
  BY <1>2, <1>4, RangesAgree DEF Lat!LinesIn, LinesIn
<1>8. \A p, m, n : Lat!Hole(p, m, n) = Hole(p, m, n)
  BY <1>3, <1>6, RangesAgree DEF Lat!Hole, Hole
<1>9. \A p, m, n : Lat!PointsOn(p, m, n) = PointsOn(p, m, n)
  BY <1>3, <1>5, <1>8, RangesAgree DEF Lat!PointsOn, PointsOn
<1> QED BY <1>1, <1>7, <1>9

(* and the order of them. *)
LEMMA SpheresAgree ==
  \A M, r, q : Lat!PointsInSphere(M, r, q) = PointsInSphere(M, r, q)
<1>1. \A T : Lat!Min(T) = Min(T)
  BY DEF Lat!Min, Min
<1>2. \A p, m, n, o : Lat!At(p, m, n, o) = At(p, m, n, o)
  BY DEF Lat!At, At
<1>3. \A p, m : Lat!LinesWithPoints(p, m) = LinesWithPoints(p, m)
  BY PointsAgree DEF Lat!LinesWithPoints, LinesWithPoints
<1>4. \A p, m, n : Lat!FirstOn(p, m, n) = FirstOn(p, m, n)
  BY <1>1, <1>2, PointsAgree DEF Lat!FirstOn, FirstOn
<1>5. ASSUME NEW p PROVE Lat!NextM(p) = NextM(p)
  <2> DEFINE planes == {m \in p.m + 1..HiM(p) - 1 : LinesWithPoints(p, m) # {}}
  <2>1. {m \in p.m + 1..Lat!HiM(p) - 1 : Lat!LinesWithPoints(p, m) # {}} = planes
    BY <1>3, PointsAgree
  <2>2. NextM(p) = IF planes = {} THEN At(p, HiM(p), 0, 0)
                   ELSE FirstOn(p, Min(planes), Min(LinesWithPoints(p, Min(planes))))
    BY DEF NextM
  <2>3. Lat!NextM(p) = IF planes = {} THEN Lat!At(p, Lat!HiM(p), 0, 0)
                       ELSE Lat!FirstOn(p, Lat!Min(planes), Lat!Min(Lat!LinesWithPoints(p, Lat!Min(planes))))
    BY <2>1 DEF Lat!NextM
  <2> HIDE DEF planes
  <2> QED BY <1>1, <1>2, <1>3, <1>4, <2>2, <2>3, PointsAgree
<1>6. ASSUME NEW p PROVE Lat!NextN(p) = NextN(p)
  BY <1>1, <1>3, <1>4, <1>5 DEF Lat!NextN, NextN
<1>7. ASSUME NEW p PROVE Lat!NextO(p) = NextO(p)
  BY <1>1, <1>2, <1>6, PointsAgree DEF Lat!NextO, NextO
<1>8. ASSUME NEW p PROVE Lat!Rewound(p) = Rewound(p)
  BY <1>2, <1>7, PointsAgree DEF Lat!Rewound, Rewound
<1> QED BY <1>8 DEF Lat!PointsInSphere, PointsInSphere

(* A point in the hole is inside, and not on its edge. *)
LEMMA HoleIsStrict ==
  ASSUME MaxRadius \in Nat, NEW c \in Int, NEW d \in Nat \ {0}, NEW X, Bounded(X),
         NEW k \in HoleOf(c, d, X)
  PROVE  (k * d - c) * (k * d - c) < X
<1> DEFINE b == CeilBelow(c, d, X)
           r == RootDown(X)
           u == RootUp(X)
           t == k * d - c
           e == b * d - c
<1>1. X > 0 /\ k \in b..CeilAbove(c, d, X) - 1 /\ e * e < X
  BY DEF HoleOf, Square
<1>2. k \in Int /\ t * t =< X /\ t \in Int /\ X \in Int
  <2>1. k \in Int
    BY HoleIsInside
  <2> QED BY <2>1, HoleIsInside DEF Bounded
<1>3. b \in Int /\ CeilAbove(c, d, X) \in Int
  BY <1>1, <1>2, CeilBelowIs, BetweenRange
<1>4. b =< k /\ k < CeilAbove(c, d, X)
  BY <1>1, <1>2, <1>3
<1>5. t < u /\ u \in Nat
  BY <1>2, <1>4, BetweenIs, RootUpIs
<1>6. r \in Nat /\ r * r =< X /\ r =< u
  BY <1>1, RootDownIs
<1>7. -r =< e /\ e \in Int /\ e =< t
  <2>1. b =< b <=> -r =< e
    BY <1>1, <1>3, CeilBelowIs
  <2>2. b * d =< k * d /\ b * d \in Int /\ k * d \in Int
    BY <1>2, <1>3, <1>4
  <2> HIDE DEF b, r
  <2> QED BY <1>3, <2>1, <2>2
<1>8. -u < t => t * t < X
  BY <1>2, <1>5, RootUpIs
<1>9. CASE -u < t
  BY <1>8, <1>9
<1>10. CASE ~(-u < t)
  <2> HIDE DEF t, e, r, u
  <2>1. t = -r /\ e = -r
    BY <1>2, <1>5, <1>6, <1>7, <1>10
  <2>2. t * t = e * e
    BY <2>1
  <2>3. t * t < X
    BY <1>1, <2>2
  <2> QED BY <2>3 DEF t
<1> QED BY <1>9, <1>10

(* Distances of reflections from the origin, by the sphere and by the base. *)
LEMMA FarIs ==
  ASSUME NEW p, IsSphere(p), NEW h \in Vectors
  PROVE  Far(p, h[1], h[2], h[3]) = Normsq(Cartesian(p.L, h)) /\ Normsq(Cartesian(p.L, h)) \in Nat
<1> DEFINE S == p.L
           m == h[1]
           n == h[2]
           o == h[3]
<1>1. S \in Matrices /\ S[2][1] = 0 /\ S[3][1] = 0 /\ S[3][2] = 0
  BY DEF IsSphere, Triangular
<1>2. /\ m \in Int /\ n \in Int /\ o \in Int
      /\ \A i, k \in 1..3 : S[i][k] \in Int
  BY <1>1, VectorIs, MatrixEntries
<1>3. /\ Cartesian(S, h) \in Vectors
      /\ Cartesian(S, h)[1] = m * S[1][1] + n * S[2][1] + o * S[3][1]
      /\ Cartesian(S, h)[2] = m * S[1][2] + n * S[2][2] + o * S[3][2]
      /\ Cartesian(S, h)[3] = m * S[1][3] + n * S[2][3] + o * S[3][3]
  BY <1>1, RowTimes
<1>4. /\ Cartesian(S, h)[1] = Plane(p, m)
      /\ Cartesian(S, h)[2] = Line(p, m, n)
      /\ Cartesian(S, h)[3] = Spot(p, m, n, o)
  <2> DEFINE ma == m * S[1][1]
             mb == m * S[1][2]
             mc == m * S[1][3]
             nb == n * S[2][2]
             nc == n * S[2][3]
             oc == o * S[3][3]
  <2>1. /\ ma \in Int /\ mb \in Int /\ mc \in Int /\ nb \in Int /\ nc \in Int /\ oc \in Int
    BY <1>2
  <2>2. n * 0 = 0 /\ o * 0 = 0
    BY <1>2
  <2>3. /\ Cartesian(S, h)[1] = ma + 0 + 0
        /\ Cartesian(S, h)[2] = mb + nb + 0
        /\ Cartesian(S, h)[3] = mc + nc + oc
    BY <1>1, <1>3, <2>2
  <2>4. Plane(p, m) = ma /\ Line(p, m, n) = nb + mb /\ Spot(p, m, n, o) = oc + (mc + nc)
    BY DEF Plane, Line, Spot
  <2> HIDE DEF ma, mb, mc, nb, nc, oc
  <2> QED BY <2>1, <2>3, <2>4
<1>5. Normsq(Cartesian(S, h)) \in Nat
  BY <1>3, Cauchy
<1> HIDE DEF S, m, n, o
<1>6. Far(p, m, n, o) = Normsq(Cartesian(S, h))
  BY <1>4 DEF Far, Normsq, Inner
<1> QED BY <1>5, <1>6 DEF S, m, n, o

(* Lines and points have integers for indices. *)
LEMMA RangeOfLines ==
  ASSUME MaxRadius \in Nat, NEW p, IsSphere(p), NEW m \in Int
  PROVE  LinesIn(p, m) \subseteq Int /\ \A n \in Int : PointsOn(p, m, n) \subseteq Int
<1>1. ASSUME NEW n \in Int
      PROVE  /\ OffLine(p, m) \in Int /\ p.L[2][2] \in Nat \ {0} /\ Bounded(PlaneSquare(p, m))
             /\ OffPoint(p, m, n) \in Int /\ p.L[3][3] \in Nat \ {0} /\ Bounded(LineSquare(p, m, n))
  <2>1. /\ OffLine(p, m) \in Int /\ p.L[2][2] \in Nat \ {0}
        /\ OffPoint(p, m, n) \in Int /\ p.L[3][3] \in Nat \ {0} /\ Spot(p, m, n, n) \in Int
    BY AlongAxes
  <2>2. Bounded(PlaneSquare(p, m)) /\ Bounded(LineSquare(p, m, n))
    BY RangesAreBounded
  <2> QED BY <2>1, <2>2
<1>2. PICK z \in Int : z = 0
  OBVIOUS
<1>3. LinesIn(p, m) \subseteq Int
  BY <1>1, <1>2, BetweenRange DEF LinesIn
<1>4. ASSUME NEW n \in Int PROVE PointsOn(p, m, n) \subseteq Int
  <2>1. Between(OffPoint(p, m, n), p.L[3][3], LineSquare(p, m, n)) \subseteq Int
    BY <1>1, BetweenRange
  <2> QED BY <2>1 DEF PointsOn
<1> QED BY <1>3, <1>4

(* What the spheres of reflections list. *)
LEMMA ListedIs ==
  ASSUME MaxRadius \in Nat, NEW p, IsSphere(p), NEW h
  PROVE  h \in AllPoints(p) <=> h \in Vectors /\ h[3] \in PointsOn(p, h[1], h[2])
<1>1. ASSUME h \in AllPoints(p)
      PROVE  h \in Vectors /\ h[3] \in PointsOn(p, h[1], h[2])
  <2>1. PICK m \in 1 - HiM(p)..HiM(p) - 1 : \E n \in LinesIn(p, m) : \E o \in PointsOn(p, m, n) : h = <<m, n, o>>
    BY <1>1 DEF AllPoints
  <2>2. m \in Int
    BY <2>1, RangesAreBounded
  <2>3. PICK n \in LinesIn(p, m) : \E o \in PointsOn(p, m, n) : h = <<m, n, o>>
    BY <2>1
  <2>4. PICK o \in PointsOn(p, m, n) : h = <<m, n, o>>
    BY <2>3
  <2>5. n \in Int
    BY <2>2, <2>3, RangeOfLines
  <2>6. o \in Int
    BY <2>2, <2>4, <2>5, RangeOfLines
  <2> QED BY <2>2, <2>4, <2>5, <2>6, IsVector
<1>2. ASSUME h \in Vectors, h[3] \in PointsOn(p, h[1], h[2])
      PROVE  h \in AllPoints(p)
  <2>1. h[1] \in Int /\ h[2] \in Int /\ h[3] \in Int /\ h = <<h[1], h[2], h[3]>>
    BY <1>2, VectorIs
  <2>2. h[2] \in LinesIn(p, h[1]) /\ h[1] \in 1 - HiM(p)..HiM(p) - 1
    BY <1>2, <2>1, PointsAre
  <2> QED BY <1>2, <2>1, <2>2 DEF AllPoints
<1> QED BY <1>1, <1>2

(* A sphere over the standard base of the reciprocal cell. *)
LEMMA ReflectionSphere ==
  ASSUME Lat!CellsAssumption, NEW S, Triangular(S), NEW q \in Qranges
  PROVE  LET p == PointsInSphere(S, q[1], q[2])
         IN  /\ IsSphere(p) /\ p.L = S
             /\ SignedSquare(p.Rmin) = q[1] * q[1] /\ SignedSquare(p.Rmax) = q[2] * q[2]
             /\ MaxRadius \in Nat /\ q[1] \in Nat /\ q[2] \in Nat
<1> DEFINE r == [L |-> S, Rmin |-> q[1], Rmax |-> q[2], m |-> 0, n |-> 0, o |-> 0]
           p == PointsInSphere(S, q[1], q[2])
<1>1. MaxRadius \in Nat /\ q[1] \in Nat /\ q[2] \in Nat /\ q[1] =< MaxRadius /\ q[2] =< MaxRadius
  BY DEF Lat!CellsAssumption
<1>2. ASSUME NEW x \in Nat, x =< MaxRadius
      PROVE  Bounded(SignedSquare(x)) /\ SignedSquare(x) = x * x
  <2>1. SignedSquare(x) = x * x /\ x * x \in Int
    BY SignedSquareIs
  <2>2. x * x =< x * MaxRadius /\ x * MaxRadius =< MaxRadius * MaxRadius
    BY <1>1, <1>2
  <2>3. x * MaxRadius \in Int /\ MaxRadius * MaxRadius \in Int
    BY <1>1
  <2> QED BY <2>1, <2>2, <2>3 DEF Bounded
<1>3. /\ r.L = S /\ r.Rmin = q[1] /\ r.Rmax = q[2]
      /\ r \in [L : Matrices, Rmin : Int, Rmax : Int, m : Int, n : Int, o : Int]
  BY <1>1 DEF Triangular
<1> HIDE DEF r
<1>4. IsSphere(r)
  BY <1>1, <1>2, <1>3 DEF IsSphere
<1>5. p = Rewound(r)
  BY DEF PointsInSphere, r
<1> HIDE DEF p
<1>6. p \in Turns(r)
  BY <1>1, <1>4, <1>5, SphereRewound
<1>7. IsSphere(p) /\ p.L = S /\ p.Rmin = q[1] /\ p.Rmax = q[2]
  BY <1>3, <1>4, <1>6, TurnsAre DEF Turns
<1> QED BY <1>1, <1>2, <1>7 DEF p

(* Lengths of reflections, by the inverse of the base and by its standard base. *)
LEMMA ReflectionLength ==
  ASSUME Lat!CellsAssumption, CellIsTurned, NEW h \in Vectors
  PROVE  LET S == Lat!StandardBase(Lat!Reciprocal(lat.metrics))
         IN  /\ Triangular(S)
             /\ Lat!RSquare(h) = Normsq(Cartesian(S, h))
<1> DEFINE A == Product(lat.stdbase, lat.baserot)
           B == Lat!Adjugate(A)
           S == Lat!StandardBase(Lat!Reciprocal(lat.metrics))
           T == Transpose(B)
<1>1. A \in Matrices /\ Lat!Metrics(A) = lat.metrics /\ lat.metrics \in Lat!CellMetrics
      /\ lat.recbase = Lat!RecBase(A)
  BY TurnedCell DEF CellIsTurned
<1>2. Triangular(S) /\ Lat!Metrics(S) = Lat!Reciprocal(lat.metrics)
  BY <1>1, StandardBaseIs
<1> HIDE DEF A, S
<1>3. B \in Matrices /\ T \in Matrices /\ Transpose(T) = B
  BY <1>1, AdjugateIs, TransposeIs, TransposedTwice
<1>4. Lat!Metrics(T) = Lat!Metrics(S)
  <2>1. Lat!Metrics(T) = Product(T, B)
    BY <1>3, MetricsAre
  <2>2. Lat!Adjugate(lat.metrics) = Product(T, B)
    BY <1>1, MetricsAre
  <2> QED BY <1>2, <2>1, <2>2 DEF Lat!Reciprocal
<1>5. lat.recbase.adj = B
  BY <1>1 DEF Lat!RecBase
<1>6. Lat!RSquare(h) = Normsq(Cartesian(T, h))
  BY <1>5, OperatorsAgree DEF Lat!RSquare
<1>7. S \in Matrices
  BY <1>2 DEF Triangular
<1> HIDE DEF T, B
<1>8. Normsq(Cartesian(T, h)) = Normsq(Cartesian(S, h))
  BY <1>3, <1>4, <1>7, LengthByMetrics
<1> QED BY <1>2, <1>6, <1>8 DEF S

(* A reflection on the inner sphere has its third index within the bound. *)
LEMMA IndexOnSphere ==
  ASSUME Lat!CellsAssumption, CellIsTurned, NEW q \in Qranges, NEW h \in Vectors,
         Lat!RSquare(h) = q[1] * q[1]
  PROVE  h[3] \in -MaxIndex..MaxIndex
<1> DEFINE A == Product(lat.stdbase, lat.baserot)
           B == Lat!Adjugate(A)
           T == Transpose(B)
           d == Lat!Determinant(A)
           m == lat.metrics
           r == Cartesian(T, h)
           a == A[3]
           l == h[3]
           Q == q[1] * q[1]
           M == MaxIndex
<1>1. /\ A \in Matrices /\ d \in Int /\ d > 0 /\ Lat!Metrics(A) = m /\ m \in Lat!CellMetrics
      /\ lat.recbase = Lat!RecBase(A)
  BY TurnedCell DEF CellIsTurned
<1>2. /\ Q \in Int /\ M \in Nat
      /\ Lat!Square(q[1]) * m[3][3] =< Lat!Square(MaxIndex) * Lat!Determinant(m)
  <2>1. q[1] \in Nat /\ M \in Nat
    BY DEF Lat!CellsAssumption
  <2>2. Q \in Int
    BY <2>1
  <2> QED BY <1>1, <2>1, <2>2 DEF Lat!CellsAssumption
<1> HIDE DEF A
<1>3. B \in Matrices /\ T \in Matrices /\ r \in Vectors /\ a \in Vectors /\ l \in Int
  <2>1. B \in Matrices /\ T \in Matrices
    BY <1>1, AdjugateIs, TransposeIs
  <2>2. a \in Vectors /\ l \in Int
    BY <1>1, MatrixIs, VectorIs
  <2> HIDE DEF T
  <2> QED BY <2>1, <2>2, RowTimes
<1>4. Normsq(r) = Q
  <2>1. lat.recbase.adj = B
    BY <1>1 DEF Lat!RecBase
  <2> QED BY <2>1, OperatorsAgree DEF Lat!RSquare
<1>5. Normsq(a) = m[3][3]
  <2>1. m = Product(A, Transpose(A)) /\ Transpose(A) \in Matrices
    BY <1>1, MetricsAre, TransposeIs
  <2>2. m[3][3] = A[3][1] * Transpose(A)[1][3] + A[3][2] * Transpose(A)[2][3] + A[3][3] * Transpose(A)[3][3]
    BY <1>1, <2>1, Entries
  <2>3. Transpose(A)[1][3] = A[3][1] /\ Transpose(A)[2][3] = A[3][2] /\ Transpose(A)[3][3] = A[3][3]
    BY <1>1, Transposed
  <2> QED BY <2>2, <2>3 DEF Normsq, Inner
<1>6. Lat!Determinant(m) = d * d
  BY <1>1, MetricsAre
<1>7. Inner(r, a) = d * l
  <2>1. Inner(r, a) = Inner(h, Cartesian(Transpose(T), a)) /\ Transpose(T) = B
    BY <1>1, <1>3, OtherSide, TransposedTwice
  <2>2. Cartesian(B, a) = Product(A, B)[3]
    BY <1>1, <1>3, ProductIs
  <2>3. Product(A, B) = Times(d, Unit) /\ Unit \in Matrices
    BY <1>1, RightInverse, UnitIs
  <2> HIDE DEF d
  <2>4. Times(d, Unit)[3] = Scale(d, Unit[3])
    BY <1>1, <2>3, TimesIs
  <2>5. Unit[3] = <<0, 0, 1>> /\ Unit[3] \in Vectors
    BY UnitIs, MatrixIs
  <2> DEFINE v == Scale(d, Unit[3])
  <2>6. v[1] = d * 0 /\ v[2] = d * 0 /\ v[3] = d * 1
    BY <1>1, <2>5, ScaleIs
  <2>7. Inner(r, a) = Inner(h, v)
    BY <2>1, <2>2, <2>3, <2>4
  <2>8. Inner(h, v) = h[1] * v[1] + h[2] * v[2] + h[3] * v[3]
    BY DEF Inner
  <2>9. h[1] \in Int /\ h[2] \in Int /\ h[3] \in Int
    BY VectorIs
  <2> HIDE DEF v
  <2> QED BY <1>1, <2>6, <2>7, <2>8, <2>9
<1>8. (d * l) * (d * l) =< Q * m[3][3]
  BY <1>3, <1>4, <1>5, <1>7, Cauchy
<1>9. Q * m[3][3] =< (M * M) * (d * d)
  BY <1>2, <1>6 DEF Lat!Square
<1>10. m[3][3] \in Int
  BY <1>3, <1>5, Cauchy
<1> DEFINE n == m[3][3]
<1> HIDE DEF B, T, d, m, r, a, l, Q, M, n
<1>11. (l * l) * (d * d) =< (M * M) * (d * d)
  <2>1. (d * l) * (d * l) = (l * l) * (d * d)
    BY <1>1, <1>3
  <2>2. Q * n \in Int /\ (M * M) * (d * d) \in Int /\ (l * l) * (d * d) \in Int
    BY <1>1, <1>2, <1>3, <1>10 DEF n
  <2> QED BY <1>8, <1>9, <2>1, <2>2 DEF n
<1>12. l * l =< M * M
  <2> DEFINE x == l * l
             y == M * M
             e == d * d
  <2>1. x \in Int /\ y \in Int /\ e \in Int /\ e > 0
    BY <1>1, <1>2, <1>3
  <2>2. x * e =< y * e
    BY <1>11
  <2> HIDE DEF x, y, e
  <2>3. ASSUME y < x PROVE FALSE
    <3>1. (x - y) * e > 0
      BY <2>1, <2>3
    <3>2. (x - y) * e = x * e - y * e /\ x * e \in Int /\ y * e \in Int
      BY <2>1
    <3> QED BY <2>2, <3>1, <3>2
  <2>4. x =< y
    BY <2>1, <2>3
  <2> QED BY <2>4 DEF x, y
<1>13. -M =< l /\ l =< M
  <2> DEFINE s == IF l < 0 THEN -l ELSE l
  <2>1. s \in Nat /\ s * s = l * l /\ (s =< M => -M =< l /\ l =< M)
    BY <1>2, <1>3
  <2> HIDE DEF s
  <2>2. ~(M * M < s * s)
    <3>1. M * M \in Int /\ l * l \in Int
      BY <1>2, <1>3
    <3> QED BY <1>12, <2>1, <3>1
  <2>3. ~(M < s)
    BY <1>2, <2>1, <2>2, SquaresOrder
  <2> QED BY <1>2, <2>1, <2>3
<1>14. l \in -M..M
  BY <1>2, <1>3, <1>13
<1> QED BY <1>14 DEF l, M

(* All reflections between the limits are listed, and hardly any other. *)
LEMMA ReflectionsAre ==
  ASSUME Lat!CellsAssumption, CellIsTurned
  PROVE  Lat!ReflectionsAreComplete
<1> SUFFICES ASSUME NEW q \in Qranges
             PROVE  /\ \A h \in Lat!Indices :
                         Lat!RSquare(h) >= q[1] * q[1] /\ Lat!RSquare(h) < q[2] * q[2]
                           => h \in Lat!ReflectionsInQminQmax(lat, q)
                    /\ \A h \in Lat!ReflectionsInQminQmax(lat, q) :
                         /\ Lat!RSquare(h) < q[2] * q[2]
                         /\ Lat!RSquare(h) < q[1] * q[1] => Lat!LeavesAtPoint(h, q[1])
  BY DEF Lat!ReflectionsAreComplete
<1> DEFINE S == Lat!StandardBase(Lat!Reciprocal(lat.metrics))
           p == PointsInSphere(S, q[1], q[2])
           R(h) == Lat!RSquare(h)
<1>1. Triangular(S) /\ \A h \in Vectors : R(h) = Normsq(Cartesian(S, h))
  <2>1. <<0, 0, 0>> \in Vectors
    BY IsVector
  <2> QED BY <2>1, ReflectionLength
<1>2. Lat!ReflectionsInQminQmax(lat, q) = AllPoints(p)
  <2>1. Lat!ReflectionsInQminQmax(lat, q) = Lat!AllPoints(p)
    BY SpheresAgree DEF Lat!ReflectionsInQminQmax
  <2> HIDE DEF p
  <2> QED BY <2>1, PointsAgree DEF Lat!AllPoints, AllPoints
<1> HIDE DEF S
<1>3. /\ IsSphere(p) /\ p.L = S
      /\ SignedSquare(p.Rmin) = q[1] * q[1] /\ SignedSquare(p.Rmax) = q[2] * q[2]
      /\ MaxRadius \in Nat /\ q[1] \in Nat /\ q[2] \in Nat
  BY <1>1, ReflectionSphere
<1> HIDE DEF p, R
<1>4. ASSUME NEW h \in Vectors
      PROVE  /\ R(h) = Far(p, h[1], h[2], h[3]) /\ R(h) \in Nat
             /\ h[1] \in Int /\ h[2] \in Int /\ h[3] \in Int
  BY <1>1, <1>3, FarIs, VectorIs
<1>5. /\ q[1] * q[1] \in Int /\ q[2] * q[2] \in Int
  BY <1>3
<1>6. ASSUME NEW h \in Vectors, R(h) >= q[1] * q[1], R(h) < q[2] * q[2]
      PROVE  h \in AllPoints(p)
  <2>1. h[3] \notin Hole(p, h[1], h[2])
    <3> SUFFICES ASSUME h[3] \in Hole(p, h[1], h[2]) PROVE FALSE
      OBVIOUS
    <3> DEFINE m == h[1]
               n == h[2]
               o == h[3]
               X == ExclSquare(p, m, n)
    <3>1. m \in Int /\ n \in Int /\ o \in Int
      BY <1>4
    <3> HIDE DEF m, n, o
    <3>2. OffPoint(p, m, n) \in Int /\ p.L[3][3] \in Nat \ {0} /\ Bounded(X)
          /\ o * p.L[3][3] - OffPoint(p, m, n) = Spot(p, m, n, o)
      <4>1. OffPoint(p, m, n) \in Int /\ p.L[3][3] \in Nat \ {0}
            /\ o * p.L[3][3] - OffPoint(p, m, n) = Spot(p, m, n, o)
        BY <1>3, <3>1, AlongAxes
      <4>2. Bounded(X)
        BY <1>3, <3>1, RangesAreBounded
      <4> QED BY <4>1, <4>2
    <3>3. o \in HoleOf(OffPoint(p, m, n), p.L[3][3], X)
      BY HoleIs DEF m, n, o
    <3>4. Spot(p, m, n, o) * Spot(p, m, n, o) < X
      BY <1>3, <3>2, <3>3, HoleIsStrict
    <3>5. Far(p, m, n, o) < SignedSquare(p.Rmin)
      <4>1. /\ SignedSquare(p.Rmin) \in Int /\ SignedSquare(p.Rmax) \in Int
            /\ Plane(p, m) * Plane(p, m) \in Nat /\ Line(p, m, n) * Line(p, m, n) \in Nat
            /\ Spot(p, m, n, o) * Spot(p, m, n, o) \in Nat
            /\ PlaneSquare(p, m) = SignedSquare(p.Rmax) - Plane(p, m) * Plane(p, m)
            /\ LineSquare(p, m, n) = PlaneSquare(p, m) - Line(p, m, n) * Line(p, m, n)
            /\ X = LineSquare(p, m, n) - SignedSquare(p.Rmax) + SignedSquare(p.Rmin)
        BY <1>3, <3>1, SquaresAre
      <4> HIDE DEF X
      <4> QED BY <3>4, <4>1 DEF Far
    <3>6. R(h) < q[1] * q[1]
      BY <1>3, <1>4, <3>5 DEF m, n, o
    <3> QED BY <1>4, <1>5, <1>6, <3>6
  <2>2. Far(p, h[1], h[2], h[3]) < SignedSquare(p.Rmax)
    BY <1>3, <1>4, <1>6
  <2>3. h[3] \in PointsOn(p, h[1], h[2])
    BY <1>3, <1>4, <2>1, <2>2, PointsAre
  <2> QED BY <1>3, <2>3, ListedIs
<1>7. ASSUME NEW h \in AllPoints(p)
      PROVE  h \in Vectors /\ R(h) < q[2] * q[2] /\ h[3] \notin Hole(p, h[1], h[2])
  <2>1. h \in Vectors /\ h[3] \in PointsOn(p, h[1], h[2])
    BY <1>3, ListedIs
  <2> QED BY <1>3, <1>4, <2>1, PointsAre
<1>8. ASSUME NEW h \in AllPoints(p), R(h) < q[1] * q[1]
      PROVE  Lat!LeavesAtPoint(h, q[1])
  <2> DEFINE m == h[1]
             n == h[2]
             o == h[3]
             X == ExclSquare(p, m, n)
             c == OffPoint(p, m, n)
             d == p.L[3][3]
  <2>1. h \in Vectors /\ m \in Int /\ n \in Int /\ o \in Int /\ o \notin Hole(p, m, n)
        /\ R(h) = Far(p, m, n, o)
    BY <1>4, <1>7
  <2> HIDE DEF m, n, o
  <2>2. ASSUME NEW k \in Int
        PROVE  /\ c \in Int /\ d \in Nat \ {0} /\ Bounded(X)
               /\ k * d - c = Spot(p, m, n, k)
               /\ SignedSquare(p.Rmin) \in Int /\ SignedSquare(p.Rmax) \in Int
               /\ Plane(p, m) * Plane(p, m) \in Nat /\ Line(p, m, n) * Line(p, m, n) \in Nat
               /\ Spot(p, m, n, k) * Spot(p, m, n, k) \in Nat
               /\ X = SignedSquare(p.Rmin) - Plane(p, m) * Plane(p, m) - Line(p, m, n) * Line(p, m, n)
    <3>1. c \in Int /\ d \in Nat \ {0} /\ k * d - c = Spot(p, m, n, k)
      BY <1>3, <2>1, AlongAxes
    <3>2. Bounded(X)
      BY <1>3, <2>1, RangesAreBounded
    <3>3. /\ SignedSquare(p.Rmin) \in Int /\ SignedSquare(p.Rmax) \in Int
          /\ Plane(p, m) * Plane(p, m) \in Nat /\ Line(p, m, n) * Line(p, m, n) \in Nat
          /\ Spot(p, m, n, k) * Spot(p, m, n, k) \in Nat
          /\ PlaneSquare(p, m) = SignedSquare(p.Rmax) - Plane(p, m) * Plane(p, m)
          /\ LineSquare(p, m, n) = PlaneSquare(p, m) - Line(p, m, n) * Line(p, m, n)
          /\ X = LineSquare(p, m, n) - SignedSquare(p.Rmax) + SignedSquare(p.Rmin)
      BY <1>3, <2>1, SquaresAre
    <3> HIDE DEF X, c, d
    <3> QED BY <3>1, <3>2, <3>3
  <2>3. o \notin HoleOf(c, d, X)
    BY <2>1, HoleIs
  <2>4. (o * d - c) * (o * d - c) < X
    <3>1. Far(p, m, n, o) < SignedSquare(p.Rmin)
      BY <1>3, <1>8, <2>1
    <3> HIDE DEF X, c, d
    <3> QED BY <2>1, <2>2, <3>1 DEF Far
  <2>5. c \in Int /\ d \in Nat \ {0} /\ Bounded(X)
    BY <2>1, <2>2
  <2> HIDE DEF c, d, X
  <2>6. PICK l \in Int : l =< o /\ (l * d - c) * (l * d - c) = X
    <3>1. MaxRadius \in Nat /\ o \in Int /\ c \in Int /\ d \in Nat \ {0} /\ Bounded(X)
      BY <1>3, <2>1, <2>5
    <3> QED BY <2>3, <2>4, <3>1, InsideIsHole, ZenonT(30)
  <2>7. Far(p, m, n, l) = q[1] * q[1]
    <3>1. Spot(p, m, n, l) * Spot(p, m, n, l) = X
      BY <2>2, <2>6
    <3> QED BY <1>3, <2>2, <3>1 DEF Far
  <2> DEFINE g == [h EXCEPT ![3] = l]
  <2>8. g \in Vectors /\ g[1] = m /\ g[2] = n /\ g[3] = l
    <3>1. h = <<m, n, o>>
      BY <2>1, VectorIs DEF m, n, o
    <3>2. g = <<m, n, l>>
      BY <3>1
    <3> HIDE DEF g
    <3> QED BY <2>1, <3>2, IsVector
  <2> HIDE DEF g
  <2>9. R(g) = q[1] * q[1]
    BY <1>4, <2>7, <2>8
  <2>10. l \in -MaxIndex..MaxIndex
    BY <2>8, <2>9, IndexOnSphere DEF R
  <2> QED BY <2>9, <2>10 DEF g, R, Lat!LeavesAtPoint
<1>9. Lat!Indices \subseteq Vectors
  <2>1. ASSUME NEW h \in Lat!Indices PROVE h \in Vectors
    <3>1. MaxIndex \in Nat
      BY DEF Lat!CellsAssumption
    <3>2. h = [k \in 1..3 |-> h[k]] /\ \A k \in 1..3 : h[k] \in Int
      BY <3>1 DEF Lat!Indices
    <3> QED BY <3>2, VectorOf
  <2> QED BY <2>1
<1> QED BY <1>2, <1>6, <1>7, <1>8, <1>9 DEF R

(***************************************************************************)
(* Whatever cells were set before, all reflections between the limits of Q *)
(* are listed, none beyond the upper one, and one below the lower limit    *)
(* only on a line that goes into the inner sphere at a lattice point       *)
(* (ReflectionsInQminQmax, LatticeParameters::reciprocal).                 *)
(***************************************************************************)
THEOREM ReflectionsStayComplete ==
  ASSUME Lat!CellsAssumption
  PROVE  Lat!Spec => []Lat!ReflectionsAreComplete
<1>1. Lat!Init => CellIsTurned
  BY InitCell
<1>2. CellIsTurned /\ [Lat!Next]_(Lat!vars) => CellIsTurned'
  BY NextKeepsCell
<1>3. CellIsTurned => Lat!ReflectionsAreComplete
  BY ReflectionsAre
<1> QED BY <1>1, <1>2, <1>3, PTL DEF Lat!Spec
=============================================================================
