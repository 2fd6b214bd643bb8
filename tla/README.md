# libdiffpy: specifications

This directory holds TLA+ specifications of libdiffpy, the C++ library that
sums up quantities over pairs of atoms: pair distribution functions, Debye
sums, bond lists, bond valences, overlaps. They are about the part of the
library where a wrong result comes out of steps that are each right: values
that are updated rather than recomputed, caches, masks, tickers that tell what
is stale, grids and lists carried over, and sums shared among processes. The
numbers themselves (peak profiles, Fourier transforms, rounding) are left out;
lattices are modelled over integers.

Paths below are relative to `src/src/diffpy/srreal/` unless they say otherwise.

## Parts of the system

| Part | State | Operations | What makes it correct |
|---|---|---|---|
| Pair quantity (`PairQuantity.cpp`) | structure, rmin, rmax, value array, masks, ticker, count of merged values | `eval`, `setStructure`, setters, masks, `mergeParallelData` | `eval` returns the sum over all pairs that are not masked |
| Evaluators (`PQEvaluator.cpp`) | last structure, ticker of the last value, CPU share, flags | `updateValue` of BASIC, OPTIMIZED, CHECK | an update ends with the sum that a complete evaluation computes |
| Structure difference (`StructureDifference.cpp`, `diff` of the adapters) | none | `diff`, `allowsfastupdate` | what is popped and added accounts for every changed bond |
| Masks (`PairQuantity.cpp:183-338, 422-489`) | default, inverted pairs, masks of all pairs of a site, type masks | `setPairMask`, `setTypeMask`, `maskAllPairs`, `invertMask`, spreading to a new structure | the last word on a pair is kept; a change of the mask is a change of the configuration |
| Event tickers (`src/src/diffpy/EventTicker.cpp`) | a global count, a copy per object | `click`, `updateFrom`, compare, save, load | of two events the later one has the later tick, also after a restart |
| Parallel evaluation | CPU index and number in each evaluator | `setupParallelRun`, `getParallelData`, `mergeParallelData` | shares are disjoint and complete |
| PDFCalculator | site factors, r-limits, value array, stash | overrides of `resetValue`, `stashPartialValue`, ..., setters, results | each point holds the peaks that reach it; results have the points of their grids |
| Debye calculators | r-limits with hysteresis, Q-step, factors by type, sums | the same overrides, setters, `getF`, `getPDF` | sums are over the pairs in range; reads stay in the arrays |
| BondCalculator | bonds, bonds to add and to pop | the same overrides, filters | the list holds each bond once, in order |
| OverlapCalculator | list of overlaps, radii, index of neighbors | the same overrides, `neighborhoods`, `flipDiffTotal`, `gradients`, ... | answers agree with the geometry |
| BVSCalculator, PairCounter | half sums, bond parameters, precision | the same overrides, table setters | a half sum equals the full sum |
| Bond generators | anchor, selection, current site, lattice sphere, symmetry position | `rewind`, `next`, selections | each bond of the anchor to a selected site once |
| Structure adapters | atoms, lattice, symmetry operations and their cache | editing, `diff`, `customPQConfig` | cached positions are those of the current atoms |
| Lattice | base, metrics, standard base, rotation, inverse | `setLatPar`, `setLatBase`, moving to the cell, reflections | the members belong to one lattice |
| ObjCryst adapters | atoms, operations, equivalent atoms | `createStructureAdapter` | operations are a group, images an orbit |
| Models, tables, attributes | parameters, custom entries, owners, tickers | setters, attributes, replacement by type | a change reaches the ticker of every calculator that uses the part |
| Class registry (`src/src/diffpy/HasClassRegistry.ipp`) | prototypes by name | register, alias, deregister, create | a name leads to a prototype that is registered under its own type |
| Scattering factor data, runtime path | static tables, cached directory | first lookup, search | a symbol is the same element in each table |

The calculator owns an evaluator and calls it from `eval`; the evaluator calls
back `setStructure`, `addPairContribution`, `stashPartialValue` and
`restorePartialValue` of the calculator and reads its ticker. `setStructure`
calls `customPQConfig` of the structure, which calls setters of the calculator
again, in the middle of an update. Bonds come from a generator that the
structure creates. Processes share nothing but the strings they exchange.

The library is sequential. What is hard in it is order and history: which calls
come between two evaluations, what an update starts from, what a callback or an
exception in its middle leaves behind, whose cache is read, in which order
objects are loaded or shares merged, how hash maps iterate. `PROJECT.json` lists these
hazards line by line with the properties that guard them.

## Modules

    StructureDiff          structures and their difference (operators)
      PairSum              ledgers, pair loops, masks as sets (operators)
        PairQuantity       serial calculator with any evaluator    -> MCEvaluators
        Shares             how pairs are dealt to CPUs (operators)
          ParallelRun      workers and a master            "sum"   -> MCShares
          BondCalculator   lists of bonds                  "bonds" -> MCShares
    PairMask               the mask setters and spreading          -> MCPairMask
    EventTicker            tickers across processes       "ticker" -> MCCalculators
    PDFGrid                the array of PDFCalculator        "pdf" -> MCCalculators
    DebyeGrid              Debye sums and their grids      "debye" -> MCCalculators
    SymmetryPositions      positions and images in a lattice (operators)
    PointsInSphere         iteration over lattice points (operators)
      BondGenerator        edits and bond loops            "bonds" -> MCStructures
        BondLoop           what users of a generator rely on (abstract)
      Lattice              both of these                 "lattice" -> MCStructures
      CrystalCell          the cache of images              "cell" -> MCStructures
      ObjCrystAdapter      crystals and molecules       "objcryst" -> MCStructures
    BondValence            valence sums and pair counts  "valence" -> MCStructures
    Overlap                lists of overlaps             "overlap" -> MCStructures
    ClassRegistry          prototypes by name
      PDFParts             parts shared by calculators   "parts" -> MCCalculators
    ScatteringData         tables read from files         "data" -> MCCalculators
    *_proofs               theorems about the module of that name and those it extends;
                           Services_proofs about EventTicker, PairMask, ClassRegistry,
                           PDFParts, CrystalCell and ScatteringData,
                           Structures_proofs about BondGenerator and Lattice

Components that do not share state are checked side by side: a module such as
`MCStructures` has a variable `part`, chosen in the initial state, and a behaviour is
of the component that it names (in the column with quotes). Properties of an MC module that read
`part = "cell" => Cell!ImagesAreCurrent` are those of the component. `MCEvaluators` has an
initial choice too, of the number of sites: structures of seven sites under a half sum
(`OfSeven`), or the small ones of `MCSmall`, which two of the counterexamples use.

**StructureDiff** translates `diff` of `AtomicStructureAdapter`,
`PeriodicStructureAdapter`, `CrystalStructureAdapter`, of the proxies
`NoMetaStructureAdapter` and `NoSymmetryStructureAdapter` and of the base class,
with the casts each of them makes, and the bound of `allowsfastupdate` (squared,
so that it is exact in integers). An atom is a position and a type; that stands
for occupancy and displacement as well.

**PairSum** represents a value array by a *ledger*: how many times each
contribution has been added, less the times it has been removed. A contribution
is identified by everything its number is computed from, among it the site
factor found in the cache, so that removing a pair with another factor than it
was added with does not cancel. The visits of the four loops of
`PQEvaluator.cpp` (complete sum; removal and addition of an update; half or full
sum) are sets of pairs of sites. `FullValue` is the abstract value that every
evaluation promises: `EvalYieldsSum` says that a step which evaluates ends with it.

**PairQuantity** has one action per public call that changes state. `Eval` is
split by outcome: `EvalCompletely`, `EvalUpdated`, `EvalChecked`, `EvalReverted`
(`customPQConfig` changed the configuration in the middle of the update) and
`EvalThrows` (a type was not found in the scattering factor table). Its
structures are values: the evaluator clones what it remembers, and a structure
that is edited and evaluated again is another value. `mstructure` is the
structure as of the last `setStructure`. The history
variable `spoiled` records what may untie the value from the remembered
structure: `setStructure` by hand, an exception, an update between frames.
Site factors are cached as PDFCalculator does it. A `setEvaluatorType` that fails
validation changes nothing and is left out.

**PairMask** models the mask setters in detail, with site indices and type symbols, and
`used`, the set of pairs that the last evaluation skipped, for as long as the
ticker has not clicked. Iteration order of the two hash maps is a permutation
that an insertion may change and a removal keeps. Spreading a mask of all pairs of a site
sets the pairs of the structure and leaves those of a larger one before as they are.

**EventTicker** has the global ticker of the current process, the tickers of a
calculator and its parts, and an archive. `Restart` starts a process with a
global ticker at zero; `StartLoad` and `Load` read the tickers one by one,
with clicks of other objects between them, the evaluator first, as
`PairQuantity::serialize` does. Left out: the global count running over while a
load is in progress.

**ParallelRun** has workers whose evaluators sum up the pairs that the loop counter deals
to their CPU, and a master that merges. The driver is that of
`src/src/tests/TestPairCounter.hpp:131-153`: `setupParallelRun` once for a
worker, then evaluations, and a master that collects from workers which have
evaluated the structure it has been given. A share may be merged late, twice or
not at all. Arrays of the same length are assumed in the merge.

**BondCalculator** replaces the ledger by what that calculator keeps: bonds,
bonds to add and bonds to pop, each a sorted sequence. `finishValue`, the merge
from the end and the set difference are translated as they stand; `Less` is
`BondOp::compare`. Atoms lie on a line, so a bond has one of two directions
and a cone filter is a set of directions. `ncpu` is chosen in `Init`: one
calculator, with filters, ranges, evaluators and structures that change the
configuration; or workers and a master. `stash` stays filled when an update reverts, as in
the code.

**PDFGrid** keeps the array of PDFCalculator: limits extended for termination ripples and
for the tails of peaks, scaled to their maximum, cached by an evaluation and
computed anew by some setters. A point of the array counts the bonds added to it,
so that `Restored`, the shift of an array onto other limits, can lose or misplace
something. Results are cut from the array as the code does it, and transforms are
reduced to their numbers of points.

**DebyeGrid** has the r-range of DebyePDFCalculator, which grows at once and shrinks
only by `MinReduction` steps, the Q-step that follows from it or is set by the
user, the sizes of arrays, and sums of pairs weighted by factors by atom type.

**Overlap** is OverlapCalculator for atoms on a line, in molecules and in a crystal
with orbits of sites: the list, its chunks and their merge, custom and default
radii, the index of neighbors with its offsets, a reload that drops the index, and
every question asked of them. `neighborhoods` is the code's union of sets
by pointer, step by step.

**BondValence** has the sums of BVSCalculator and PairCounter over orbits of sites,
the search of bond parameters by atom types and valences (either order, the
wildcard 9), custom parameters and valences, and `rmaxFromPrecision`. A bond one unit
longer has half of the valence, so that sums are exact.

**SymmetryPositions** and **PointsInSphere** are the arithmetic below the bond
generators, over integers: fractional coordinates are multiples of `1 / Grid`, and
square roots, of which only rounded quotients matter, are taken from a table of
integers. A step of the loops over planes, lines and points leads to the next point
of the line, the next line that has a point or the next plane that has one,
where the code tries lines and planes one by one; which points a line has, with the
hole of the inner sphere, is computed as in the code. So is the expansion of a site (images,
comparison modulo the lattice, wrapping, averaging).

**BondGenerator** has the edits of a structure against the cache of images, and
one generator at a time. Its `kind` selects the overrides: `getNextBond` loops over
sites for each lattice point (periodic) or over lattice points and images for
each site (atomic, crystal). The sphere is made by `rewind` and destroyed by a change of
radii. The loop of `advanceWhileInvalid` is a recursive function of the number of
steps, which it halves, so that thousands of skipped bonds are no deep recursion. `StartSum` is the beginning of an
evaluation, `SelectBonds` what its loops select. Users do not edit a structure
while its generator is in use nor change a generator within a loop, and the
model does not either.

**BondLoop** is the abstract specification of `for (rewind(); !finished(); next())`:
a loop stands at bonds it is over, at each once, in any order. `BondGenerator` is checked and proved
to implement it (`ImplementsLoop`, an instance in which `bonds` is the set
of all bonds of the anchor within the radii, computed from geometry and not
from the iteration, and `visited` is the history of bonds come to).

**CrystalCell** has the edits of atoms, operations, precision and of the lattice
(`setLatPar`, under atoms in Cartesian coordinates) against `msymatoms` and its flag.
The history variable `unseen` records edits by their kind (position, number of atoms, lattice)
while the flag is up, which the fuzzy check of `CrystalStructureAdapter.hpp:108-110` may not see.

**Lattice** has `setLatPar` and `setLatBase` with their early returns and the
rotation that the former keeps, refused bases, `ucvCartesian`,
and the reflections between two limits of Q in the reciprocal cell.

**ObjCrystAdapter** has the operations made of a space group (translations, then
the inversion, in place in one array), the atoms of crystals and molecules without
dummies, and equivalent atoms with tensors turned in normalized axes. ObjCryst
itself is external: its space groups are constants.

**ClassRegistry** and **PDFParts** have prototypes with names and aliases, and
the models, envelopes and tables of two calculators: made by type, shared by
pointer, changed through attributes of any calculator or by the user, and visited for
attributes and tickers. A ticker is the set of calculators whose value is older. An evaluation
of PDFCalculator sets the slope of a linear baseline, which no ticker tells, to what the density
of the structure asks for: one of `Slopes`.

**ScatteringData** reads three files line by line into static tables, with
malformed lines that throw, and searches them; `diffpyruntime` caches its directory
by the string in the environment.

Operators whose comment begins with "Slip" are not part of the model: each is
a plausible mistake in the definition that follows it, and shows that the
properties can tell the difference.

### Fairness

The library has no background activity: every action is a call somebody
may or may not make, and no fairness is assumed of calls in general. One loop
is the exception. An evaluator that has rewound a generator calls `next` until
`finished` and nothing else (`PQEvaluator.cpp:118-125`); the thread is its own. Hence weak
fairness of `NextBond` in `BondGenerator!Fairness`, which is written out with the
condition under which `next` is called, as `ENABLED NextBond` is costly to
evaluate. `LoopEnds` then says that no order of sites, images and points returns to
where it was.

## Runs

| Run | Question | Bounds |
|---|---|---|
| `evaluators` | Are updates exact, and what keeps them so, with all adapter classes side by side, failing lookups, `setStructure` by hand? | For a half sum seven sites, the least that let two be replaced in one update, so that the pair of the two is removed and added; seven structures, index mask and type mask, four clicks. Of the other kind thirteen structures of three or four sites, three clicks |
| `masks` | Is the mask in force the one the value was computed with, and does no evaluation change it? | Two types, two site indices for the setters, structures of one and three sites, so that masks of all pairs leave pairs behind which the next structure may not have, and indices may be past its end; no bound on calls |
| `shares` | Do shares of sums and of lists add up, and are lists complete, also after reverted updates? | Two CPUs; for sums structures of four and five sites (bonds are dealt out for one, anchors for the other), two evaluations in a row; for lists five structures, two ranges, one cone, at most two bonds to pop per worker |
| `structures` | Does each bond loop come to each bond once and end? Do images, lattices, operations, valence sums and overlaps agree with what defines them? | Two atoms, two operations, two precisions, skew cell, radii (0, 2), and (8, 8), the hole of which contains lattice points; two cells; eight bases, two of them refused; six crystals with screws, centerings and inversions away from the origin; four structures for valences; for overlaps a chain of five atoms and a crystal, two CPUs |
| `calculators` | Are values carried over from one grid or process to another what a complete sum gives? Does every change of a shared part reach the tickers? Do names and symbols resolve? | Four structures of narrow and wide peaks, two values of most setters, three of Qmax; Debye sums with four calls of setters from the constructor's configuration; a ticker that runs over, two processes; for parts two calculators, two types of width, envelope and table and one of profile and baseline, two prototypes of each type, three calls besides evaluations; three directories of data, one torn and one without a file |

The bounds on counters and lengths are `MaxTick`, `MaxFirst`, `MaxRestarts`,
`Largest`, `MaxPath`, `MaxPopped`, `MaxAtoms`, `MaxComponents`, `MaxEdits` (calls
between evaluations or lists, in PDFParts all calls besides evaluations), `MaxSetters`, `MaxDrift` (what updates may pile up
in the margins of a grid, where nothing is promised), `Generations`, and for the
generators `MaxRadius`, `MaxIndex` and `MaxSkips`. The last three are beyond what the
radii can reach, as `BoundsAssumption` of BondGenerator says and TLC verifies: `MaxRadius` is
the end of the table of square roots, `MaxIndex` bounds the lattice points that the properties
enumerate, and no loop skips `MaxSkips` bonds, since it has no more positions. A change of the configuration
is needed for every complete evaluation, the value depends on the last of these
and the updates since, and every structure can be reached from every other by
one update, so longer sequences repeat what shorter ones do; the proofs confirm
this for the evaluators and for CrystalCell. In `calculators`, `MaxSetters = 4` is for a
whole behaviour, for which `DebyeGrid` starts from one configuration: two setters
that follow each other between evaluations, and the way back. `MaxDrift` limits what is in the
margins; neither limits how often one may evaluate.

Seven more runs end in a counterexample. They state what the documentation or
a comment says without the exceptions that the properties above make:

* `after_set_structure`: `setStructure` by hand, then an OPTIMIZED evaluation:
  the update starts from the zeroed value (`PairQuantity.cpp:69`).
* `across_frames`: an atomic adapter, then a periodic one with the same atoms:
  the difference is empty (`AtomicStructureAdapter.cpp:174`).
* `mask_click`: a repeated type mask with `all` erases an agreeing mask of two
  types that another mask with `all` disputes; the mask changes, the ticker does
  not (`PairQuantity.cpp:305`).
* `inner_sphere`: where a line of the lattice enters the inner sphere at a lattice
  point, the points inside of it are not skipped (`PointsInSphere.cpp:226`). Bond
  generators check distances again; reflections between two limits of Q do not.
* `valence_sums`: of two sites of different multiplicities, the earlier one gets
  the bonds of the later one in a half sum (`BVSCalculator.cpp:179`).
* `parallel_pops`: a parallel worker returns from `finishValue` before its bonds are moved
  to the list, so that the assertion of `BondCalculator.cpp:237` fails in its next update.
* `equivalent_atoms`: `setLatPar` leaves the cached images, which are Cartesian, where they were in
  the old cell (`PeriodicStructureAdapter.cpp:78`), and equivalent atoms are answered from them.
  This is the shortest of three ways to violate the property. The others are an atom that
  is erased and another inserted under the cache, whose number of images is right
  (`CrystalStructureAdapter.cpp:254`), and images within a coarse precision of each other, on
  both sides of the border of the cell, that are averaged to a position in its middle
  (`CrystalStructureAdapter.cpp:184`).

### Known exceptions

The properties name the conditions under which they hold. What is behind them:

* `FreshValueIsSum` and `EvalYieldsSum` exempt an update after an exception in the middle
  of another (`PQEvaluator.cpp:253`): the value lacks the popped sites, some
  cached factors are those of the structure that failed, and nothing marks the value as stale.
* The checking evaluator compares lists of bonds before `finishValue` has made them and
  accuses updates that are right (`PQEvaluator.cpp:421`). BondCalculator models this;
  the list it leaves is empty, and `ListsAllBonds` exempts it. `PopsWhatItHas` does not,
  since the evaluator that accuses does not update; it exempts
  parallel workers, which have bonds to pop and no bonds: see `parallel_pops`.
* `ImplementsLoop` promises nothing of crystals without operations whose atoms
  lie outside of the cell: nothing wraps them, and the sphere is too small.
* `ImagesAreRepresented` exempts sites with images on both sides of a border of the
  cell: see `equivalent_atoms`. Two pairs of them may be averaged to one position, and a
  loop comes to its bonds twice; the structures of the run have no such site. `ImagesDiffer`, a
  conjunct of `ImagesAreRepresented`, excludes them, and the proof of
  `ImplementsLoop` depends on it. `HalfSumIsFair` exempts them too and assumes that
  operations are a group up to translations.
* `ImagesAreCurrent` exempts all edits under cached images until these are made anew: see
  `equivalent_atoms`. Atoms that are moved in place are documented as not
  detected (`CrystalStructureAdapter.hpp:110`).
* `GridIsSum` leaves two things open to bonds outside of the r-range by as much as
  limits make room for (`Marginal`). Peaks whose tails the maximum extension cuts may be
  missing altogether (`PDFCalculator.cpp:728`). Of others the last step of a tail may be
  missing, since the lower limit is rounded up, or be left over after updates from wide
  peaks to narrow ones and to none: the bond was added to the wide array and is not
  removed from the narrow one. It asks of an array that was cached under a smaller Qmax only
  the points that are asked for at present.
* `FreshSumIsSum` exempts the margins of the r-range, which an update may change
  without a click (`DebyePDFCalculator.cpp:377`), and structures in which one
  type has two occupancies: factors are cached by type, from the first site of it
  (`BaseDebyeSum.cpp:252`).
* `ReadsInside` is about reads after an evaluation, with or without `setRstep`. After another setter
  that changes the Q-step and before the next evaluation, `getF` reads as many points as the
  new Q-grid has, whatever the value has (`BaseDebyeSum.cpp:77`); nothing says what it should do. The
  interpolation is for ranges extended by at least one step: with none, and a number of points that is a power of two, the last point is
  taken from one beyond the array, with weight zero, against the assertion of
  `DebyePDFCalculator.cpp:313`.
* `OverlapsAreListed` exempts an index that was made before a merge or a reload:
  bonds are then missed (`OverlapCalculator.cpp:547`) or counted twice, against the assertion in
  that line, as the index is saved and the flag that tells of it is not (`OverlapCalculator.hpp:127`).
* `HalfSumsAreFull` leaves out later sites of another multiplicity, and two atoms of one
  valence, whose parameters depend on the order in which they are looked up. A
  first read of the bond parameters that fails leaves an empty table for good
  (`BVParametersTable.cpp:170`).
* `ImagesAreOrbits` requires of a tensor that operations mix only axes of equal
  reciprocal lengths: tensors are referred to normalized axes, which other
  operations do not keep (`CrystalStructureAdapter.cpp:169-178`).
* `LatticeIsWhole` exempts the time after a refused base, whose rows have been stored
  (`Lattice.cpp:109`), until another one is accepted.

## Proofs

TLAPS checks the following for every value of the constants, under the
assumptions stated in the modules.

* `PairSum_proofs`: `UpdateIsSum`, the arithmetic of updates. The complete sum
  of one structure, less the visits of the popped sites, plus the visits of the
  added ones, is the complete sum of the other, for half and full sums, index
  and type masks and structures of any size. A visit of the first structure that
  is kept corresponds to one of the second by way of the sites they lie between; both have
  the same contribution and scale. Atoms may be equal: kept sites are matched in
  the order of their occurrences (`OccurrencesCount`, `DiffMatches`), and
  contributions are counted with their scales (`Weight`), so equal ones add up.
* `PairQuantity_proofs`: `TypeOK` is not inductive for the ledger (a subtraction
  could leave anything), so the invariant adds that the value is a ledger.
  `FreshValueIsSum` needs more: that a BASIC evaluator remembers no structure, and
  that a value fit for an update is tied to the remembered structure, caches
  and mask included (`Tied`). With `UpdateIsSum` each action keeps it;
  `EvalYieldsSum` and `CheckAccusesTheGuilty` follow from the invariant before the step.
* `ParallelRun_proofs`: the shares of a complete sum and of both loops of an
  update are disjoint and cover everything, for any number of CPUs. From that
  `MergedIsSum` follows with `SumInv`. The value of a worker is not the share of
  any structure: an update removes and adds pairs that the counter deals to this worker,
  which another one may have added or will remove. What it is depends on the
  path the worker came along: on the structure of its last complete sum and those of
  the updates since, one after the other (`IsChain`). The values of all CPUs that came
  along one path add up to the complete sum of its last structure, by induction
  over the path (`ChainTotals`); the
  invariant says that each worker has the share of its path (`Follows`) and that the
  master holds the sum of the shares merged. It assumes `FramesAgree`: structures between which a value is updated make the same
  copies of an atom. The run `across_frames` shows why.
* `BondCalculator_proofs`: `TypeOK`, `ListsAllBonds` and `PopsWhatItHas`, for lists of any
  length, any number of workers and any structures of atoms on a line. The merge and the
  set difference are loops over lists, written as recursive functions. What such a
  function does takes no induction theorem: `Trace` makes it exist as a function on
  an interval, and what every step keeps the function keeps, since there
  would be a first step that fails (`FirstFailure`). That bonds are sorted and
  each of them is there once (`SortedIs`, `MergeIs`, `SetDifferenceIs`) tells a list
  (`StrictIsUnique`), so lists are compared by their sets of bonds. An update takes out those that touch
  a popped site and puts in those that touch an added one; the rest are the same
  of both structures, site indices included (`KeptBonds`), because sites are compared side
  by side. The invariant says that the list of a calculator on its own is that of its
  remembered structure unless it is stale or a check has failed (`ListsAll`), that
  a worker that has summed completely has the sorted list of its share and nothing to
  pop (`ListsShare`), and that the master has the union of the shares merged
  (`MasterInv`), as long as they are complete, of one configuration and of
  different CPUs. Those are disjoint by the lemma that serves `ParallelRun_proofs`.
  The proof found the exemption of a failed check in `PopsWhatItHas` to be
  unnecessary; it has been dropped.
* `PDFGrid_proofs`: `TypeOK`, `GridIsSum` and `ResultsFitGrids`. An
  update removes peaks within the old limits and adds them within new ones, so the array
  in the middle of a series of updates is not that of any structure. The invariant `GridInv`
  says what it is: some room for tails has been made (at least that of the remembered
  structure, at most the maximum extension), and each point that arrays of all structures
  share (`Core`) holds of each bond what `Holds` says. Two facts carry it over an
  update: a bond whose tails are cut has the same room in each structure that has it,
  and any other that is not marginal is in the array of each such structure
  (`PointUpdated`). A larger Qmax makes ripples narrower without a click
  (`CarriedOver`). `ArrayInv` adds that limits are ordered and, from an evaluation to
  the next setter, those of the structure. Transforms are padded to the least power of two; that there is
  one, and that it is large enough, takes no induction: `n` points have `2^n` sets, of
  which `n` are singletons (`PowerExceeds`). The proof found `GridIsSum` in need of its
  exemption of cut tails; the structures of the run have been chosen since so that it bites.
* `DebyeGrid_proofs`: `TypeOK`, `FreshSumIsSum` and `ReadsInside`. The r-range and
  the Q-step a sum was made with change apart from the configuration, so
  `FreshSumIsSum` is not inductive. `SumInv` adds that, as long as a sum may be carried
  over, the limits of its pairs are the cached ones and span what is asked
  for, and the factors of each type are those of its first site. Then an update
  counts a kept pair as often in one structure as in the other (`UpdateBalances`), and what
  it removes and adds balances. `ReadInv` says how far the sine transform reaches
  after an evaluation; `ReadsInside` follows for every length of the array that covers
  the Q-range (`SettledReads`), as the least power of two does (`StepsAreFine`).
* `Services_proofs` has the modules that others rely on. `NeverAhead` of EventTicker, with
  types, is inductive together with the
  same of the archive and the order of loaded tickers; from it follow
  `ClickIsNoticed` and `StaleStaysStale`. `ImagesAreCurrent` of CrystalCell is not
  inductive, since images of another number of atoms are not answered from, but
  would be after one more edit. `FlagTellsTruth` is: as long as the flag is up and
  no edit has escaped it, the images are those of now. `PathIsCurrent` of ScatteringData is inductive once a directory that was found is
  known to be remembered together with the value of the variable it was found by.
  Of ClassRegistry and PDFParts: `TypesKnowThemselves` with the type of the registry is
  inductive. A prototype enters under its own, new name; an alias repeats a prototype that
  is there; deregistration removes all names of one prototype, so that no name
  is left which leads to it. So a part made from a prototype is of the kind that
  its owner asked for, and with `UsesInv`, that each role of a calculator leads to
  a part of its kind and each envelope to one of its type, no two parts that a calculator visits
  have an attribute in common: `AttributesResolve`. `FreshConfig` is
  inductive with it: the ticker of a part that a calculator uses is newer than the value if
  the part has been set to anything else, through whichever calculator.
  The masks are those of any structures. Their maps are iterated in an
  order that nobody chose; all that is used of it is that the mask which decides
  about a pair is one of those that cover the pair (`OneSiteMaskDecides`,
  `OneTypeMaskDecides`), for which orders of finite sets must be onto. Then
  `TypeMaskIsSpread` follows from types alone, and `LastWordIsKept` from the
  setters. `FreshMaskIsUsed` is inductive with types: a setter that found nothing
  modified has left what each covered pair is told. `EvaluationKeepsMasks` rests on one more
  fact: a pair that is beyond the structure keeps its mask, and one that is covered is
  told the same by whichever structure, as the masks in force do not depend on it
  (`SpreadTwice`).
* `Structures_proofs` has generators and the lattice. The generators implement `BondLoop` (`LoopIsImplemented`), for every lattice
  in the standard setting, any atoms, operations, precisions and radii. The argument
  has five parts. (1) Quotients by rounded roots bound exactly the integers they should
  (`BetweenIs` and what it rests on), so the planes, lines and points of
  the iteration are all lattice points inside the outer sphere but some of those
  inside the hole, and no point between the spheres is left out. The iteration goes
  through them in lexicographic order: `NextO` leads to the least later one.
  (2) A generator goes through positions, that is sites, images and points, or points and
  sites, in a total order too: a step leads to the first of the later positions,
  and the walk is finished if there is none. (3) `advanceWhileInvalid` leads to the first
  valid one, if it may skip as many as there are. `MaxSkips` bounds the number of positions
  (`BoundsAssumption`), as every point in the sphere has indices up to `MaxIndex`:
  an index is an inner product with a vector of the reciprocal lattice, and
  Cauchy-Schwarz bounds it. (4) Every bond within the limits is at
  some position: the distance of two copies differs from that of
  their cells' origins by at most the longest diagonal, by which the sphere is
  larger and the hole smaller. For that the positions must lie in the cell, as images do
  because they are means of wrapped ones; only a crystal
  without operations has others. Two valid positions are two bonds if no two places of a
  site are one (`ImagesDiffer`), as places in one cell do not differ by
  a lattice vector. (5) So the inductive invariant `IInv` says that the cache of a crystal that is looped
  over is that of its atoms, that a generator that is not finished stands at a valid position
  of a sphere that belongs to its radii, that `selected` are the bonds in range, and that
  `seen` are the bonds at valid positions up to there. With it each
  step maps to a step of BondLoop or a stutter.
  What depends on `ImagesDiffer` is only that no bond comes twice: `FinishedLoopsAreFull`, that a
  finished loop has come to all bonds and to no others, holds without it. The condition is
  discharged for atomic and periodic structures (`PlainLoopIsImplemented`), and for crystals
  whose precision is finer than the grid (`ExactLoopIsImplemented`): images that are
  one modulo the lattice then have one wrapped position, which is their mean. The same fact
  yields `ImagesAreRepresented` (`ExactImagesAreRepresented`). For coarse precisions
  the condition is not provable, since it is false of some structures (see the known exceptions); the
  run checks it of its own.
* Of Lattice, also in `Structures_proofs`: `TypeOK` with `LatticeIsWhole` (`LatticesAreWhole`) and
  `ReflectionsAreComplete` (`ReflectionsStayComplete`). Neither is inductive, since
  they do not say where the rotation and the inverse come from. `CellIsTurned` is: the standard base is the
  one of the metrics, the rotation is proper, and the inverse is that of the standard
  base turned, even after a refused base, when only `base` is another. The step
  that has to be argued for is `setLatBase`, which computes the
  rotation as the inverse of the standard base times the new base. That this is a
  proper rotation (`BaseRotation`) rests on the algebra of matrices of
  integers, proved for all of them: products associate (`Associates`), the adjugate of a product is the
  product of the adjugates (`AdjugateProduct`, which is the identity of Binet and
  Cauchy for each entry), so determinants multiply (`DeterminantProduct`), and the adjugate
  over the determinant is an inverse from both sides (`RightInverse`, `LeftInverse`). The provers
  know no matrices; each identity is brought down to one of polynomials in
  which the other products have been given names. Lengths by metrics are those by the base
  (`LengthByMetrics`), and positions that differ by a lattice vector wrap to one
  place (`MovedToCell`). Reflections are points in a sphere of the reciprocal
  lattice, so the lemmas about generators' spheres serve them too (`SpheresAgree`): all that are
  between the limits are there, since the hole cut out of a line is inside of the
  inner sphere (`HoleIsStrict`); and all of the line that is inside is cut out, except beside an
  end of the hole that is a lattice point (`InsideIsHole`). The hypothesis
  is `CellsAssumption`: the standard bases and rotations of the given cells are of integers, as
  they must be for a model over integers, and indices are bounded by the radii. TLC evaluates it with
  `structures`. Of the other assumptions only `GridAssumption`, a grid of at least one step,
  is used.

Theorems are stated of the module that has the property. A run of `MCStructures`,
`MCCalculators` or `MCShares` checks the same formula for the part that is
running, so `ImagesStayCurrent`, `LatticesAreWhole`, `ReflectionsStayComplete`,
`GridIsAlwaysSum`, `ResultsAlwaysFitGrids`, `FreshSumIsAlwaysSum`,
`SettledReadsStayInside`, `BondsAreListed`, `AssertionHolds` and `PathStaysCurrent` are about the runs' properties of
like names.

Only model-checked:

* of BondGenerator, `HalfSumIsFair`, which counts orbits of bonds under a group of isometries,
  and `ImagesAreRepresented` for coarse precisions, which is about how far a mean is from what
  it is the mean of, and depends on the grid being fine enough;
* Overlap, BondValence and ObjCrystAdapter: they are built from recursive
  operators and folds over bonds, sites and operations, which the provers cannot
  expand, and they would have to be written as the recursive functions of
  BondCalculator and SymmetryPositions are;
* of ScatteringData, its tables (`TornTablesAreRight`, `TablesResolveAlike`), which are
  folds over the lines of files;
* liveness (`LoopEnds`).

## Not modelled

* Floating point: lattices of real numbers, peak profiles, baselines and envelopes as
  functions, Fourier and sine transforms, dependence of factors on Q, rounding.
  What depends on them in control (limits, sizes, comparisons within a precision)
  is modelled over integers.
* Serialization formats, versions, and the layout of files. What a load does to
  tickers is in EventTicker and what it does to the index of neighbors in Overlap.
* `getPeakWidthModel` and `Lattice` results that are references to members or
  statics, which the caller may change or see changed (`PeakWidthModel.cpp:51`,
  `Lattice.cpp:189`); `maxUii` reads the diagonal of tensors only
  (`StructureAdapter.cpp:111`); `asind` answers with `acos` unless
  its argument is a multiple of 0.5 (`src/src/diffpy/mathutils.ipp:109`). These are single functions, and a unit test reaches them.
* ObjCryst, Boost and GSL, which are external.

What could follow: proofs of the index of neighbors in Overlap and of the half sums of
BondValence, by first failures in place of induction, as of the lists of BondCalculator, and
of `HalfSumIsFair` from the walk of positions that Structures_proofs has.
