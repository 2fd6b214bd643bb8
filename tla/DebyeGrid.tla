------------------------------ MODULE DebyeGrid ------------------------------
(***************************************************************************)
(* DebyePDFCalculator and its BaseDebyeSum: pairs of atoms within an       *)
(* extended r-range are summed on a Q-grid, whose step follows from that   *)
(* range unless the user gives a finer one.  The r-range is cached, shrinks *)
(* reluctantly, and changes without a click; scattering factors are cached *)
(* by atom type.                                                           *)
(*                                                                         *)
(* Distances are integers and atoms lie on a line.  A Q-value q is given   *)
(* by the distance pi / q, so that a smaller step is a larger number; zero *)
(* as qmax stands for Qmax = 0.  A pair adds to every point of the Q-grid, *)
(* so that a value is its number of points and a ledger of what has been   *)
(* added: how many times pairs of some distance and weight.                *)
(***************************************************************************)
EXTENDS Integers, SequencesExt, FiniteSetsExt

CONSTANTS
  Structures,   \* [sites: sequences of [pos, type, occupancy], widest: Nat]
  NoStructure,  \* the empty one
  NoLast,       \* the evaluator remembers no structure
  Rmins, Rmaxes, Rsteps, Qmaxes, Qsteps, Extensions, Widths,   \* values for the setters
  Defaults,     \* the configuration that the constructor makes
  MinReduction, \* minreductionsteps, 50
  Nripples,     \* twice nripples, 12
  MaxSetters,   \* bound on calls of setters in a behaviour
  MaxDrift      \* bound on what updates may pile up for one kind of pairs

DebyeAssumption ==
  /\ Rmins \cup Rmaxes \cup Qmaxes \cup Extensions \subseteq Nat
  /\ Rsteps \cup Qsteps \cup Widths \subseteq Nat \ {0}
  /\ \A s \in Structures :
       /\ s.widest \in Nat /\ Len(s.sites) \in Nat /\ DOMAIN s.sites = 1..Len(s.sites)
       /\ \A i \in DOMAIN s.sites : s.sites[i].pos \in Int /\ s.sites[i].occupancy \in Nat
  /\ NoStructure \in Structures /\ NoStructure = [sites |-> <<>>, widest |-> 0]
  /\ NoLast \notin Structures
  /\ MinReduction \in Nat /\ Nripples \in Nat \ {0} /\ MaxDrift \in Nat \ {0}
  /\ MaxSetters \in Nat
  /\ Defaults \in [rmin : Rmins, rmax : Rmaxes, rstep : Rsteps, qmax : Qmaxes \ {0},
                  maxextension : Extensions, width : Widths]

VARIABLES
  config,           \* [rmin, rmax, rstep, qmax, maxextension, width]
  mqstep, moptimumqstep,
  mrcalclosteps, mrcalchisteps, mrlimits_are_cached,
  mstructure,
  mstructure_cache, \* type -> factor of its atoms
  mvalue,           \* [size, ledger]
  clicked,          \* a ticker is newer than the value
  mlast_structure,
  setters,          \* calls of setters
  settled,          \* history: no setter since the evaluation, but setRstep
  shifted,          \* history: an update since the last complete sum changed the limits
  rescaled          \* history: setRstep since the last complete sum

limits == <<mrcalclosteps, mrcalchisteps, mrlimits_are_cached>>
qgrid == <<mqstep, moptimumqstep>>
sum == <<mstructure, mstructure_cache, mvalue, mlast_structure, shifted>>
vars == <<config, limits, qgrid, sum, clicked, setters, settled, rescaled>>

-----------------------------------------------------------------------------
(* Ranges under configuration c.                                           *)

CeilDiv(a, b) == -((-a) \div b)
Abs(x) == IF x < 0 THEN -x ELSE x

(* Extension of the r-range for the atoms of s. *)
ExtTotal(c, s) == Min({c.maxextension, Nripples * c.qmax + s.widest * c.width})

(* cacheRlimitsData: the upper limit is kept until it shrinks by MinReduction. *)
CacheRlimitsData(c, s, hi) ==
  LET nhi == CeilDiv(c.rmax + ExtTotal(c, s), c.rstep)
  IN  [lo |-> Max({0, CeilDiv(c.rmin - ExtTotal(c, s), c.rstep)}),
       hi |-> IF nhi =< hi - MinReduction \/ nhi > hi THEN nhi ELSE hi]

(* Limits as rcalclo and rcalchi see them, if those cached are kept. *)
Rcalc(c, kept) ==
  IF kept THEN [lo |-> mrcalclosteps, hi |-> mrcalchisteps]
  ELSE CacheRlimitsData(c, mstructure, mrcalchisteps)

Cached(l) ==
  /\ mrcalclosteps' = l.lo
  /\ mrcalchisteps' = l.hi
  /\ mrlimits_are_cached' = TRUE

(* At least four steps to Qmax. *)
OptimumQstep(c, hi) == Max({hi * c.rstep, 4 * c.qmax})

(* updateQstep with upper limit hi: with Qmax = 0 setQstep throws. *)
UpdateQstep(c, hi, step, optimum) ==
  LET best == OptimumQstep(c, hi)
      forced == optimum \/ c.qmax = 0 \/ step =< best
  IN  [step |-> IF forced /\ c.qmax # 0 THEN best ELSE step, optimum |-> forced]

QmaxSteps(c, step) == IF c.qmax = 0 THEN 0 ELSE CeilDiv(step, c.qmax)

-----------------------------------------------------------------------------
(* The sum.                                                                *)

(* sfSiteAtQ of one site, the factor of its type being left out. *)
Factor(site) == site.occupancy

SiteTypes == UNION {{s.sites[i].type : i \in DOMAIN s.sites} : s \in Structures}

(* cacheStructureData: a type has the factor of its first site. *)
CacheStructureData(s) ==
  [t \in SiteTypes |->
     LET sites == {i \in DOMAIN s.sites : s.sites[i].type = t}
     IN  IF sites = {} THEN 0 ELSE Factor(s.sites[Min(sites)])]

SitePairs(s) == {p \in (DOMAIN s.sites) \X (DOMAIN s.sites) : p[1] < p[2]}

Distance(s, p) == Abs(s.sites[p[1]].pos - s.sites[p[2]].pos)

WithinRange(s, pairs, l) ==
  {p \in pairs : l.lo * config.rstep =< Distance(s, p) /\ Distance(s, p) =< l.hi * config.rstep}

Weight(s, p, factor) == factor[s.sites[p[1]].type] * factor[s.sites[p[2]].type]

OwnWeight(s, p) == Factor(s.sites[p[1]]) * Factor(s.sites[p[2]])

AllPairs == UNION {{s} \X SitePairs(s) : s \in Structures}
Distances == {Distance(x[1], x[2]) : x \in AllPairs}
Occupancies == {x[1].sites[x[2][1]].occupancy : x \in AllPairs}
                 \cup {x[1].sites[x[2][2]].occupancy : x \in AllPairs}
Weights == {a * b : a, b \in Occupancies}

NoLedger == [e \in Distances \X Weights |-> 0]

(* The ledger after pairs of s have been added sign times. *)
WithPairs(ledger, s, pairs, factor, sign) ==
  [e \in DOMAIN ledger |->
     ledger[e] + sign * Cardinality({p \in pairs : e = <<Distance(s, p), Weight(s, p, factor)>>})]

(* Pairs of s with a site that differs from that of other. *)
Changed(s, other) ==
  {p \in SitePairs(s) :
     \E k \in 1..2 : p[k] \notin DOMAIN other.sites \/ other.sites[p[k]] # s.sites[p[k]]}

-----------------------------------------------------------------------------
(* Evaluation.                                                             *)

(* Limits and Q-step after resetValue for structure s. *)
NewLimits(s) == CacheRlimitsData(config, s, mrcalchisteps)
NewQstep(s) == UpdateQstep(config, NewLimits(s).hi, mqstep, moptimumqstep)

(* Slip: the value is resized before the Q-step is updated. *)
ResizedEarly(s) == QmaxSteps(config, mqstep)

(* Points of the value after resetValue. *)
Resized(s) == QmaxSteps(config, NewQstep(s).step)

(* setStructure, up to where it may throw. *)
ResetValue(s) ==
  /\ mstructure' = s
  /\ Cached(NewLimits(s))
  /\ mqstep' = NewQstep(s).step
  /\ moptimumqstep' = NewQstep(s).optimum
  /\ UNCHANGED config

FastPath(s) ==
  /\ ~clicked /\ mlast_structure # NoLast
  /\ NewQstep(s).step = mqstep

(* An update whose setStructure clicks is dropped for a complete sum. *)
EvalCompletely(s) ==
  LET factor == CacheStructureData(s)
      pairs == WithinRange(s, SitePairs(s), NewLimits(s))
  IN  /\ config.qmax # 0
      /\ ResetValue(s)
      /\ mstructure_cache' = factor
      /\ mvalue' = [size |-> Resized(s), ledger |-> WithPairs(NoLedger, s, pairs, factor, 1)]
      /\ mlast_structure' = s
      /\ shifted' = FALSE
      /\ clicked' = FALSE
      /\ settled' = TRUE
      /\ rescaled' = FALSE
      /\ UNCHANGED setters

(* Whether the difference is small enough for an update is left open. *)
EvalUpdated(s) ==
  LET last == mlast_structure
      before == Rcalc(config, mrlimits_are_cached)
      popped == WithPairs(mvalue.ledger, last, WithinRange(last, Changed(last, s), before),
                          mstructure_cache, -1)
      factor == CacheStructureData(s)
      ledger == WithPairs(popped, s, WithinRange(s, Changed(s, last), NewLimits(s)), factor, 1)
  IN  /\ config.qmax # 0
      /\ FastPath(s)
      /\ ResetValue(s)
      /\ mstructure_cache' = factor
      /\ mvalue' = [size |-> Resized(s), ledger |-> ledger]
      /\ \A e \in DOMAIN ledger : ledger[e] \in -MaxDrift..(1 + MaxDrift)
      /\ mlast_structure' = s
      /\ shifted' = (shifted \/ NewLimits(s) # before)
      /\ settled' = TRUE
      /\ UNCHANGED <<clicked, setters, rescaled>>

(* With Qmax = 0 resetValue throws. *)
EvalThrows(s) ==
  /\ config.qmax = 0
  /\ ResetValue(s)
  /\ settled' = FALSE
  /\ UNCHANGED <<mstructure_cache, mvalue, mlast_structure, shifted, clicked, setters, rescaled>>

-----------------------------------------------------------------------------
(* Setters.                                                                *)

SetterCalled == setters < MaxSetters /\ setters' = setters + 1

(* updateQstep at the end of a setter that leaves configuration c. *)
QstepFollows(c, kept, step, optimum, click) ==
  LET new == UpdateQstep(c, Rcalc(c, kept).hi, step, optimum)
  IN  /\ config' = c
      /\ Cached(Rcalc(c, kept))
      /\ mqstep' = new.step
      /\ moptimumqstep' = new.optimum
      /\ clicked' = (clicked \/ click \/ new.step # mqstep)
      /\ SetterCalled
      /\ settled' = FALSE
      /\ UNCHANGED <<sum, rescaled>>

SetRmin(r) ==
  /\ r # config.rmin
  /\ config' = [config EXCEPT !.rmin = r]
  /\ mrlimits_are_cached' = FALSE
  /\ clicked' = TRUE
  /\ SetterCalled
  /\ settled' = FALSE
  /\ UNCHANGED <<mrcalclosteps, mrcalchisteps, qgrid, sum, rescaled>>

(* Slip: only the Q-step tells that the range has changed. *)
SetRmaxSilently(r) ==
  /\ r # config.rmax
  /\ QstepFollows([config EXCEPT !.rmax = r], FALSE, mqstep, moptimumqstep, FALSE)

SetRmax(r) ==
  /\ r # config.rmax
  /\ QstepFollows([config EXCEPT !.rmax = r], FALSE, mqstep, moptimumqstep, TRUE)

SetMaxExtension(x) ==
  /\ x # config.maxextension
  /\ QstepFollows([config EXCEPT !.maxextension = x], FALSE, mqstep, moptimumqstep, TRUE)

(* The extension for termination ripples is not cached anew. *)
SetQmax(q) ==
  /\ q # config.qmax
  /\ QstepFollows([config EXCEPT !.qmax = q], mrlimits_are_cached, mqstep, moptimumqstep, TRUE)

SetQstep(q) == QstepFollows(config, mrlimits_are_cached, q, FALSE, q # mqstep)

SetOptimumQstep == QstepFollows(config, mrlimits_are_cached, mqstep, TRUE, FALSE)

(* No click: "rstep is only used in the FFT". *)
SetRstep(r) ==
  /\ r # config.rstep
  /\ config' = [config EXCEPT !.rstep = r]
  /\ mrlimits_are_cached' = FALSE
  /\ SetterCalled
  /\ rescaled' = TRUE
  /\ UNCHANGED <<mrcalclosteps, mrcalchisteps, qgrid, sum, clicked, settled>>

(* The ticker of the peak width model clicks. *)
SetPeakWidth(w) ==
  /\ w # config.width
  /\ config' = [config EXCEPT !.width = w]
  /\ clicked' = TRUE
  /\ SetterCalled
  /\ settled' = FALSE
  /\ UNCHANGED <<limits, qgrid, sum, rescaled>>

(* The constructor ends with setOptimumQstep and the empty structure. *)
Init ==
  /\ config = Defaults
  /\ mrcalclosteps = CacheRlimitsData(config, NoStructure, 0).lo
  /\ mrcalchisteps = CacheRlimitsData(config, NoStructure, 0).hi
  /\ mrlimits_are_cached = TRUE
  /\ mqstep = OptimumQstep(config, mrcalchisteps)
  /\ moptimumqstep = TRUE
  /\ mstructure = NoStructure
  /\ mstructure_cache = CacheStructureData(NoStructure)
  /\ mvalue = [size |-> QmaxSteps(config, mqstep), ledger |-> NoLedger]
  /\ clicked = TRUE
  /\ mlast_structure = NoLast
  /\ setters = 0
  /\ settled = TRUE
  /\ shifted = FALSE
  /\ rescaled = FALSE

Next ==
  \/ \E s \in Structures : EvalCompletely(s) \/ EvalUpdated(s) \/ EvalThrows(s)
  \/ \E r \in Rmins : SetRmin(r)
  \/ \E r \in Rmaxes : SetRmax(r)
  \/ \E r \in Rsteps : SetRstep(r)
  \/ \E q \in Qmaxes : SetQmax(q)
  \/ \E q \in Qsteps : SetQstep(q)
  \/ SetOptimumQstep
  \/ \E x \in Extensions : SetMaxExtension(x)
  \/ \E w \in Widths : SetPeakWidth(w)

Spec == Init /\ [][Next]_vars

-----------------------------------------------------------------------------
(* Results.                                                                *)

(* Steps from the origin to the points of getRgrid. *)
Rgrid == CeilDiv(config.rmin, config.rstep)..(CeilDiv(config.rmax, config.rstep) - 1)

(* Points of the array that fftftog makes, the next power of two. *)
TransformSize ==
  LET padded == Max({mvalue.size, CeilDiv(mqstep, config.rstep)})
  IN  2 ^ (CHOOSE k \in 0..padded : 2 ^ k >= padded /\ \A j \in 0..(k - 1) : 2 ^ j < padded)

(* iphi of getPDFAtQmin for a point of the r-grid. *)
UpperNeighbor(k) == (k * config.rstep * TransformSize) \div mqstep + 1

-----------------------------------------------------------------------------
(* Properties.                                                             *)

TypeOK ==
  /\ mstructure \in Structures /\ mlast_structure \in Structures \cup {NoLast}
  /\ mrcalclosteps \in Nat /\ mrcalchisteps \in Nat
  /\ mqstep \in Nat \ {0}
  /\ mstructure_cache \in [SiteTypes -> Nat]
  /\ mvalue.size \in Nat /\ mvalue.ledger \in [DOMAIN NoLedger -> Int]
  /\ mlast_structure # NoLast /\ ~clicked => mlast_structure = mstructure

(* Pairs of s, counted by distance and by the weight they should have. *)
DebyeSum(s, pairs) ==
  [e \in DOMAIN NoLedger |->
     Cardinality({p \in pairs : e = <<Distance(s, p), OwnWeight(s, p)>>})]

(* No structure has sites of one type with different occupancies. *)
Uniform ==
  \A s \in Structures : \A i, j \in DOMAIN s.sites :
     s.sites[i].type = s.sites[j].type => s.sites[i].occupancy = s.sites[j].occupancy

Fresh == settled /\ ~clicked /\ ~rescaled /\ mlast_structure # NoLast

(* What the ledger should be. *)
WholeSum ==
  LET s == mlast_structure
  IN  DebyeSum(s, WithinRange(s, SitePairs(s), Rcalc(config, mrlimits_are_cached)))

(***************************************************************************)
(* A value that is not stale is the sum over the pairs of the structure,   *)
(* each once, with the factors of its sites (DebyePDFCalculator.cpp:377).  *)
(* In the margins of the extended range this holds only until an update    *)
(* changes the limits, which does not click: pairs there may be missing,   *)
(* or removed without having been added.  The factor of a type is that of  *)
(* one of its sites, hence the structures whose occupancies differ within  *)
(* a type are left out (BaseDebyeSum.cpp:251).                             *)
(***************************************************************************)
FreshSumIsSum ==
  Uniform /\ Fresh =>
    LET asked == (CeilDiv(config.rmin, config.rstep) * config.rstep)..config.rmax
    IN  \A e \in DOMAIN NoLedger :
          mvalue.ledger[e] = WholeSum[e] \/ (shifted /\ e[1] \notin asked)

(***************************************************************************)
(* As long as no other setter than setRstep follows the evaluation, getF   *)
(* finds a value for every point of its Q-grid, and the Q-step is fine     *)
(* enough for the whole r-range that has been summed                       *)
(* (DebyePDFCalculator.cpp:266, BaseDebyeSum.cpp:77).  The interpolation   *)
(* of getPDFAtQmin stays within the transformed array, provided that the   *)
(* range is extended by at least one step (DebyePDFCalculator.cpp:313).    *)
(***************************************************************************)
ReadsInside ==
  settled =>
    /\ mvalue.size = QmaxSteps(config, mqstep)
    /\ ~rescaled => mrcalchisteps * config.rstep =< mqstep
    /\ ExtTotal(config, mstructure) >= config.rstep =>
         \A k \in Rgrid : UpperNeighbor(k) < TransformSize
=============================================================================
