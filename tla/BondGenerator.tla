--------------------------- MODULE BondGenerator ----------------------------
(***************************************************************************)
(* A structure that is edited and the generators of its bonds.             *)
(*                                                                         *)
(* An atomic structure has bonds between its atoms, a periodic one has     *)
(* each atom in all cells, a crystal has all images of an atom under its   *)
(* symmetry operations in all cells.  A crystal caches these images; the   *)
(* cache is refreshed whenever a generator is created.                     *)
(*                                                                         *)
(* A generator loops over the selected sites, and for each of them over    *)
(* images and lattice points (crystal), or over lattice points and for     *)
(* each of them over sites (periodic).  It skips bonds that are out of     *)
(* range and those of zero length.                                         *)
(***************************************************************************)
EXTENDS SymmetryPositions, PointsInSphere, FiniteSets

CONSTANTS
  Kinds,       \* "atomic", "periodic", "crystal"
  L,           \* the lattice, an upper triangular matrix
  MaxDiagonal, \* length of the longest diagonal of its cell
  Positions,   \* fractional coordinates of atoms
  MaxAtoms,    \* bound on the number of atoms
  SymOps,      \* symmetry operations
  Precisions,  \* values of msymmetry_precision; 0 is finer than the grid
  Radii,       \* pairs of rmin and rmax
  MaxIndex,    \* bound on lattice indices at which bonds are told from geometry
  MaxSkips     \* bound on the number of bonds skipped in a row

Diagonals == {<<1, 1, 1>>, <<-1, 1, 1>>, <<1, -1, 1>>, <<1, 1, -1>>}

ASSUME LatticeAssumption ==
  /\ L \in Matrices
  /\ L[1][1] > 0 /\ L[2][2] > 0 /\ L[3][3] > 0
  /\ L[2][1] = 0 /\ L[3][1] = 0 /\ L[3][2] = 0
  /\ MaxDiagonal \in Nat
  /\ \E d \in Diagonals : Normsq(Cartesian(L, d)) = MaxDiagonal * MaxDiagonal
  /\ \A d \in Diagonals : Normsq(Cartesian(L, d)) =< MaxDiagonal * MaxDiagonal

ASSUME StructureAssumption ==
  /\ Kinds \subseteq {"atomic", "periodic", "crystal"}
  /\ Positions \subseteq Vectors
  /\ SymOps \subseteq [R : Matrices, t : Vectors] /\ IsFiniteSet(SymOps)
  /\ Precisions \subseteq Nat /\ 0 \in Precisions
  /\ MaxAtoms \in Nat

(* Multiples of the vectors of the reciprocal lattice; indices are L's products with them. *)
Duals ==
  LET volume == L[1][1] * L[2][2] * L[3][3]
  IN  {<<<<1, 0, 0>>, L[1][1]>>,
       <<<<-L[1][2], L[1][1], 0>>, L[1][1] * L[2][2]>>,
       <<<<L[1][2] * L[2][3] - L[1][3] * L[2][2], -(L[1][1] * L[2][3]), L[1][1] * L[2][2]>>, volume>>}

(* Bounds are beyond all points of the spheres, and all bonds can be skipped. *)
ASSUME BoundsAssumption ==
  /\ MaxRadius \in Nat /\ MaxIndex \in Nat /\ MaxSkips \in Nat \ {0}
  /\ Radii \subseteq Nat \X Nat
  /\ \A r \in Radii :
       /\ r[1] =< MaxRadius /\ r[2] + MaxDiagonal =< MaxRadius
       /\ \A d \in Duals :
            Square(r[2] + MaxDiagonal) * Normsq(d[1]) =< Square((MaxIndex + 1) * d[2])
  /\ MaxAtoms * (Cardinality(SymOps) + 1) * ((2 * MaxIndex + 1) * (2 * MaxIndex + 1) * (2 * MaxIndex + 1))
       =< MaxSkips

VARIABLES
  kind,      \* class of the structure
  atoms,     \* positions of its atoms
  symops,    \* msymops
  precision, \* msymmetry_precision
  symatoms,  \* msymatoms
  cached,    \* msymmetry_cached
  gen,       \* the generator, or NoGenerator
  selected,  \* history: bonds that this loop is over
  seen       \* history: bonds that this loop has come to

structure == <<kind, atoms, symops, precision>>
cache == <<symatoms, cached>>
loop == <<gen, selected, seen>>
vars == <<structure, cache, loop>>

-----------------------------------------------------------------------------
(* The images of atoms.                                                    *)

Sites == DOMAIN atoms

Expanded(x) == ExpandLatticeAtom(L, symops, precision, x)

ExpandedAll == [i \in Sites |-> Expanded(atoms[i])]

IsSymmetryCached == cached /\ Len(symatoms) = Len(atoms)

(* Slip: all operations give different positions. *)
CountSymOps(i) == IF kind # "crystal" THEN 1 ELSE Len(symops)

(* What siteMultiplicity returns: of the cache, even if that is stale. *)
SiteMultiplicity(i) ==
  IF kind # "crystal" THEN 1
  ELSE Len(IF IsSymmetryCached THEN symatoms[i] ELSE Expanded(atoms[i]))

(* Positions of a site, in fractional coordinates. *)
Places(i) ==
  CASE kind = "atomic"   -> <<atoms[i]>>
    [] kind = "periodic" -> <<UcvFractional(atoms[i])>>
    [] kind = "crystal"  -> symatoms[i]

R0(i) == Cartesian(L, Places(i)[1])

-----------------------------------------------------------------------------
(* The generator g.                                                        *)

NoGenerator == [anchor |-> -1]

NoSphere == [m |-> 0]

Spheres == [L : {L}, Rmin : Int, Rmax : Int, m : Int, n : Int, o : Int]

Generators ==
  [anchor : Nat, r0 : Vectors, sites : Seq(Nat), current : Nat, rmin : Nat, rmax : Nat,
   msphere : Spheres \cup {NoSphere}, symidx : Nat]

GeneratorFinished(g) == g.current > Len(g.sites)

SetFinishedFlag(g) == [g EXCEPT !.current = Len(g.sites) + 1]

Site1(g) == g.sites[g.current]

Point(p) == IF Finished(p) THEN <<0, 0, 0>> ELSE <<Grid * p.m, Grid * p.n, Grid * p.o>>

R1(g) ==
  LET place == Places(Site1(g))[g.symidx]
  IN  Cartesian(L, IF kind = "atomic" THEN place ELSE Plus(place, Point(g.msphere)))

DistanceSq(g) == Normsq(Minus(R1(g), g.r0))

Scaled(r) == SignedSquare(Grid * r)

BondOutOfRange(g, dd) == dd < Scaled(g.rmin) \/ dd > Scaled(g.rmax)

AtSelfPair(dd) == dd = 0

RewindSymmetry(g) ==
  [g EXCEPT !.symidx = 1, !.msphere = IF kind = "atomic" THEN @ ELSE Rewound(@)]

(* Whether the site has another position, and the generator there. *)
IterateSymmetry(g) ==
  LET h == [g EXCEPT !.msphere = NextO(@)]
      i == [h EXCEPT !.symidx = @ + 1, !.msphere = Rewound(@)]
  IN  IF kind = "atomic" THEN [more |-> FALSE, gen |-> g]
      ELSE IF ~Finished(h.msphere) THEN [more |-> TRUE, gen |-> h]
      ELSE IF kind = "crystal" /\ g.symidx < Len(Places(Site1(g)))
        THEN [more |-> TRUE, gen |-> i]
      ELSE [more |-> FALSE, gen |-> h]

(* Sites in the outer loop: the next one if this has no other position. *)
OrNextSite(it) ==
  LET h == [it.gen EXCEPT !.current = @ + 1]
  IN  IF it.more THEN it.gen ELSE IF GeneratorFinished(h) THEN h ELSE RewindSymmetry(h)

NextPositionOfSite(g) == OrNextSite(IterateSymmetry(g))

(* Slip: if the last of several sites is left, the points are gone through again. *)
AtFirstSiteAgain(it) ==
  LET h == [it.gen EXCEPT !.current = 1]
  IN  IF it.more THEN h ELSE IF Len(it.gen.sites) > 1 THEN RewindSymmetry(h) ELSE it.gen

(* Sites in the inner loop: the first one again at another point. *)
AtFirstSite(it) == IF it.more THEN [it.gen EXCEPT !.current = 1] ELSE it.gen

NextSiteAtPoint(g) ==
  LET h == [g EXCEPT !.current = @ + 1]
  IN  IF GeneratorFinished(h) THEN AtFirstSite(IterateSymmetry(h)) ELSE h

GetNextBond(g) == IF kind = "periodic" THEN NextSiteAtPoint(g) ELSE NextPositionOfSite(g)

Valid(g) ==
  \/ GeneratorFinished(g)
  \/ LET dd == DistanceSq(g) IN ~BondOutOfRange(g, dd) /\ ~AtSelfPair(dd)

(* From an invalid g, up to n steps of the loop of advanceWhileInvalid. *)
Advance[n \in 1..MaxSkips] ==
  [g \in Generators |->
     LET h == Advance[n \div 2][g]
     IN  IF n = 1 THEN GetNextBond(g) ELSE IF Valid(h) THEN h ELSE Advance[n - n \div 2][h]]

AdvanceWhileInvalid(g) == IF Valid(g) THEN g ELSE Advance[MaxSkips][g]

(* The sphere allows for two positions anywhere in their cells. *)
WithSphere(g) ==
  IF kind = "atomic" \/ g.msphere # NoSphere THEN g
  ELSE [g EXCEPT !.msphere = PointsInSphere(L, g.rmin - MaxDiagonal, g.rmax + MaxDiagonal)]

Rewind(g) ==
  LET h == [WithSphere(g) EXCEPT !.current = 1]
  IN  IF GeneratorFinished(h) THEN h ELSE AdvanceWhileInvalid(RewindSymmetry(h))

(* Slip: the sphere survives. *)
SetRadiiKeepingSphere(g, rmin, rmax) ==
  IF rmin = g.rmin /\ rmax = g.rmax THEN g
  ELSE SetFinishedFlag([g EXCEPT !.rmin = rmin, !.rmax = rmax])

(* setRmin and setRmax; a change destroys the sphere. *)
SetRadii(g, rmin, rmax) ==
  IF rmin = g.rmin /\ rmax = g.rmax THEN g
  ELSE SetFinishedFlag([g EXCEPT !.rmin = rmin, !.rmax = rmax, !.msphere = NoSphere])

Bond(g) == <<Site1(g), R1(g)>>

BondsAt(g) == IF GeneratorFinished(g) THEN {} ELSE {Bond(g)}

-----------------------------------------------------------------------------
(* What the bonds are, for a lattice of which only a part can matter.      *)

Reach == -MaxIndex..MaxIndex

(* Lattice points at which a copy can be within a distance r of any cell. *)
PointsNear ==
  [r \in {x[2] : x \in Radii} |->
     {p \in {Cartesian(L, <<Grid * m, Grid * n, Grid * o>>) : m, n, o \in Reach} :
        Normsq(p) =< Scaled(r + 2 * MaxDiagonal)}]

(* The copies of a site within a distance r of r0, but not at r0. *)
Copies(i, r0, r) ==
  LET points == IF kind = "atomic" THEN {<<0, 0, 0>>} ELSE PointsNear[r]
      places == {Cartesian(L, Places(i)[k]) : k \in DOMAIN Places(i)}
  IN  {c \in {Plus(x, p) : x \in places, p \in points} :
         Normsq(Minus(c, r0)) \in 1..Scaled(r)}

BondsInRange(g) ==
  UNION {{<<i, c>> : c \in {c \in Copies(i, g.r0, g.rmax) : Normsq(Minus(c, g.r0)) >= Scaled(g.rmin)}} :
           i \in {g.sites[k] : k \in DOMAIN g.sites}}

-----------------------------------------------------------------------------
(* Edits of the structure; no generator is in use.                         *)

Idle == gen = NoGenerator

(* Positions that are not marked as cached are never read. *)
DropCache == cached' = FALSE /\ symatoms' = <<>>

SetAtom(i, x) ==
  /\ Idle
  /\ atoms' = [atoms EXCEPT ![i] = x]
  /\ UNCHANGED <<kind, symops, precision, cache, loop>>

AppendAtom(x) ==
  /\ Idle
  /\ Len(atoms) < MaxAtoms
  /\ atoms' = Append(atoms, x)
  /\ UNCHANGED <<kind, symops, precision, cache, loop>>

EraseLast ==
  /\ Idle
  /\ atoms # <<>>
  /\ atoms' = SubSeq(atoms, 1, Len(atoms) - 1)
  /\ UNCHANGED <<kind, symops, precision, cache, loop>>

AddSymOp(op) ==
  /\ Idle
  /\ kind = "crystal"
  /\ \A k \in DOMAIN symops : symops[k] # op
  /\ symops' = Append(symops, op)
  /\ DropCache
  /\ UNCHANGED <<kind, atoms, precision, loop>>

ClearSymOps ==
  /\ Idle
  /\ kind = "crystal"
  /\ symops' = <<>>
  /\ DropCache
  /\ UNCHANGED <<kind, atoms, precision, loop>>

SetSymmetryPrecision(e) ==
  /\ Idle
  /\ kind = "crystal"
  /\ precision' = e
  /\ e # precision
  /\ DropCache
  /\ UNCHANGED <<kind, atoms, symops, loop>>

RefreshCache ==
  IF kind = "crystal"
    THEN symatoms' = ExpandedAll /\ cached' = TRUE
    ELSE UNCHANGED cache

UpdateSymmetryPositions ==
  /\ Idle
  /\ kind = "crystal"
  /\ RefreshCache
  /\ UNCHANGED <<structure, loop>>

(***************************************************************************)
(* An evaluator resets the value of its calculator, which reads all        *)
(* multiplicities as they are before this step, and then creates the       *)
(* generator and sets its limits.                                          *)
(***************************************************************************)
StartSum(r) ==
  /\ Idle
  /\ RefreshCache
  /\ gen' = SetFinishedFlag([anchor |-> 0, r0 |-> <<0, 0, 0>>, sites |-> [i \in Sites |-> i],
                             current |-> 1, rmin |-> r[1], rmax |-> r[2],
                             msphere |-> NoSphere, symidx |-> 1])
  /\ selected' = {} /\ seen' = {}
  /\ UNCHANGED structure

-----------------------------------------------------------------------------
(* Calls on the generator.  Its users do not change it within a loop.      *)

Reconfigure(g) ==
  /\ ~Idle
  /\ GeneratorFinished(gen)
  /\ gen' = g
  /\ selected' = {} /\ seen' = {}
  /\ UNCHANGED <<structure, cache>>

(* selectAnchorSite and selectSites; users make both calls before a loop. *)
SelectBonds(i, selection) ==
  Reconfigure(SetFinishedFlag([gen EXCEPT !.anchor = i, !.r0 = R0(i),
                                          !.sites = selection]))

ChangeRadii(r) ==
  ~Idle /\ r # <<gen.rmin, gen.rmax>> /\ Reconfigure(SetRadii(gen, r[1], r[2]))

RewindLoop ==
  /\ gen.anchor > 0
  /\ GeneratorFinished(gen)
  /\ gen' = Rewind(gen)
  /\ selected' = BondsInRange(gen')
  /\ seen' = BondsAt(gen')
  /\ UNCHANGED <<structure, cache>>

NextBond ==
  /\ ~Idle
  /\ ~GeneratorFinished(gen)
  /\ gen' = AdvanceWhileInvalid(GetNextBond(gen))
  /\ seen' = seen \cup BondsAt(gen')
  /\ UNCHANGED <<structure, cache, selected>>

EndSum ==
  /\ ~Idle
  /\ gen' = NoGenerator
  /\ selected' = {} /\ seen' = {}
  /\ UNCHANGED <<structure, cache>>

-----------------------------------------------------------------------------
Init ==
  /\ kind \in Kinds
  /\ atoms = <<>> /\ symops = <<>>
  /\ precision = 0
  /\ symatoms = <<>> /\ cached = FALSE
  /\ gen = NoGenerator /\ selected = {} /\ seen = {}

(* The sites of a full sum, or only one of them. *)
Selections == {[k \in Sites |-> k]} \cup {<<i>> : i \in Sites}

Next ==
  \/ \E i \in Sites, x \in Positions : SetAtom(i, x)
  \/ \E x \in Positions : AppendAtom(x)
  \/ EraseLast
  \/ \E op \in SymOps : AddSymOp(op)
  \/ ClearSymOps
  \/ \E e \in Precisions : SetSymmetryPrecision(e)
  \/ UpdateSymmetryPositions
  \/ \E r \in Radii : StartSum(r)
  \/ \E i \in Sites, selection \in Selections : SelectBonds(i, selection)
  \/ \E r \in Radii : ChangeRadii(r)
  \/ RewindLoop
  \/ NextBond
  \/ EndSum

Spec == Init /\ [][Next]_vars

(***************************************************************************)
(* An evaluator that is in a loop calls next until the loop is finished:   *)
(* weak fairness of NextBond, with the condition under which it can happen *)
(* written out, as it is costly to evaluate ENABLED NextBond.              *)
(***************************************************************************)
Fairness == []<>(Idle \/ GeneratorFinished(gen)) \/ []<><<NextBond>>_vars

FairSpec == Spec /\ Fairness

-----------------------------------------------------------------------------
(* What exceptions are about.                                              *)

InCell(x) == \A k \in 1..3 : x[k] \in 0..Grid - 1

(* Images of a site that are equal although they wrap to different sides. *)
OnBorder(x) ==
  \E p, q \in {symops[k] : k \in DOMAIN symops} :
    LET y == Image(p, x)
        z == Image(q, x)
    IN  /\ EqualPosition(L, precision, y, z)
        /\ Normsq(Cartesian(L, Minus(UcvFractional(y), UcvFractional(z)))) > precision * precision

(* The symmetry operations are a group, up to lattice translations. *)
IsGroup ==
  LET Ops == {symops[k] : k \in DOMAIN symops}
      base == {<<0, 0, 0>>, <<1, 0, 0>>, <<0, 1, 0>>, <<0, 0, 1>>}
      Acts(x) == {UcvFractional(Image(p, x)) : p \in Ops}
  IN  Ops # {} /\ \A x \in base \cup Positions :
        /\ UcvFractional(x) \in Acts(x)
        /\ \A y \in Acts(x) : Acts(y) = Acts(x)

-----------------------------------------------------------------------------
(* Properties.                                                             *)

TypeOK ==
  /\ kind \in Kinds /\ precision \in Precisions
  /\ Len(atoms) =< MaxAtoms /\ \A i \in Sites : atoms[i] \in Positions
  /\ cached \in BOOLEAN
  /\ cached => \A i \in DOMAIN symatoms : symatoms[i] # <<>>
  /\ gen # NoGenerator =>
       /\ gen \in Generators
       /\ gen.current \in 1..Len(gen.sites) + 1
       /\ ~GeneratorFinished(gen) => gen.symidx \in DOMAIN Places(Site1(gen))

(***************************************************************************)
(* The generators of all three kinds of structures implement the loop that *)
(* evaluators rely on: from rewind to its end it comes to every bond       *)
(* between the anchor and the selected sites within the limits, and to     *)
(* none twice, whatever was selected or changed before.  No lattice point  *)
(* that matters lies beyond the sphere, and images that are equal up to a  *)
(* lattice vector are one position.  Bonds may be missed only where atoms  *)
(* of a crystal without symmetry operations lie outside of the cell, which *)
(* nothing wraps (PQEvaluator.cpp:118, BaseBondGenerator.cpp:55-75,        *)
(* PeriodicStructureAdapter.cpp:154-169, CrystalStructureAdapter.cpp:167). *)
(***************************************************************************)
Loop == INSTANCE BondLoop WITH
  bonds <- selected,
  at <- IF Idle THEN {} ELSE BondsAt(gen),
  visited <- seen,
  complete <- ~(kind = "crystal" /\ symops = <<>> /\ \E i \in Sites : ~InCell(atoms[i]))

ImplementsLoop == Loop!Spec

(***************************************************************************)
(* A loop comes to an end: the order in which sites, images and points are *)
(* gone through never returns to where it was (BaseBondGenerator::next and *)
(* getNextBond of the generators).                                         *)
(***************************************************************************)
LoopEnds == ~Idle /\ ~GeneratorFinished(gen) ~> Idle \/ GeneratorFinished(gen)

(***************************************************************************)
(* In a crystal the bonds from i to j, times the multiplicity of i, are as *)
(* many as those from j to i, times that of j: a half sum may count each   *)
(* bond of one direction twice.  That takes a group of operations, and no  *)
(* site whose images are averaged over the border of the cell              *)
(* (PQEvaluator.cpp:123, PDFCalculator.cpp:517).                           *)
(***************************************************************************)
HalfSumIsFair ==
  gen.anchor = 0 /\ kind = "crystal" /\ IsGroup /\ ~(\E i \in Sites : OnBorder(atoms[i])) =>
    \A i, j \in Sites : i < j =>
      SiteMultiplicity(i) * Cardinality(Copies(j, R0(i), gen.rmax))
        = SiteMultiplicity(j) * Cardinality(Copies(i, R0(j), gen.rmax))

(***************************************************************************)
(* Each image of a site is, up to the precision, among the positions that  *)
(* stand for it, unless it is averaged over the border of the cell; and    *)
(* no two positions of a site are averaged to one, whose bonds a loop      *)
(* would come to twice (CrystalStructureAdapter.cpp:184-206).              *)
(***************************************************************************)
Represented(x) ==
  LET places == Expanded(x)
  IN  \A k \in DOMAIN symops : \E l \in DOMAIN places :
        EqualPosition(L, 2 * precision, Image(symops[k], x), places[l])

(* No two of the positions of a site are one. *)
ImagesDiffer ==
  kind = "crystal" =>
    \A i \in DOMAIN symatoms : \A k, l \in DOMAIN symatoms[i] :
      symatoms[i][k] = symatoms[i][l] => k = l

ImagesAreRepresented ==
  /\ kind = "crystal" /\ Idle =>
       \A i \in Sites : OnBorder(atoms[i]) \/ Represented(atoms[i])
  /\ ImagesDiffer

(***************************************************************************)
(* CrystalStructureAdapter.hpp:90: the equivalent atoms include the ones   *)
(* on the border of the cell, whose mean values are only meant to adjust   *)
(* roundoffs (CrystalStructureAdapter.cpp:197).                            *)
(***************************************************************************)
BorderIsRepresented ==
  kind = "crystal" /\ Idle => \A i \in Sites : Represented(atoms[i])
=============================================================================
