------------------------------- MODULE PDFGrid -------------------------------
(***************************************************************************)
(* The r-grid of PDFCalculator.  Peaks are added to an array that covers   *)
(* the r-range asked for, extended for termination ripples and again for   *)
(* the tails of peaks out of range.  Both extensions depend on the         *)
(* structure or are scaled to fit a maximum, so that an update carries     *)
(* values from an array of one extent to another; results are cut from the *)
(* array later, with limits that are cached or computed anew.              *)
(*                                                                         *)
(* Distances are integers.  A structure is its bonds, each with a distance *)
(* and the width of its peak, and the largest width of its sites.  A point *)
(* of the array tells how many times each bond has been added to it.  Qmax *)
(* is given as the extent of its termination ripples, 12 pi / Qmax, zero   *)
(* for no limit; the Fourier transforms themselves are left out.           *)
(***************************************************************************)
EXTENDS Integers, SequencesExt, FiniteSetsExt

CONSTANTS
  Bonds,        \* of all structures: [d, fwhm]
  Structures,   \* [bonds: SUBSET Bonds, widest: Nat]
  NoStructure,  \* the empty one
  NoLast,       \* the evaluator remembers no structure
  Rmins, Rmaxes, Rsteps, Ripples, Extensions, Bounds,   \* values for the setters
  Nyquist,      \* extent of the ripples of the largest Qmax, in steps
  MaxDrift      \* bound on what updates may pile up at one point of the margins

GridAssumption ==
  /\ Rmins \cup Rmaxes \cup Ripples \cup Extensions \cup Bounds \subseteq Nat
  /\ Rsteps \subseteq Nat \ {0}
  /\ Nyquist \in Nat /\ MaxDrift \in Nat \ {0}
  /\ \A b \in Bonds : b.d \in Nat /\ b.fwhm \in Nat
  /\ \A s \in Structures :
       s.bonds \subseteq Bonds /\ s.widest \in Nat /\ \A b \in s.bonds : b.fwhm =< s.widest
  /\ NoStructure \in Structures /\ NoStructure = [bonds |-> {}, widest |-> 0]
  /\ NoLast \notin Structures

VARIABLES
  mrmin, mrmax, mrstep, mqmax, mmaxextension,
  mhalfboundrel,    \* half of the extent of a peak in units of its width
  mstructure,
  mrlimits_cache,
  mvalue,
  clicked,          \* a ticker is newer than the value
  mlast_structure,
  settled           \* history: no setter since the limits were cached

config == <<mrmin, mrmax, mrstep, mqmax, mmaxextension, mhalfboundrel>>
vars == <<config, mstructure, mrlimits_cache, mvalue, clicked, mlast_structure, settled>>

-----------------------------------------------------------------------------
(* Limits.                                                                 *)

(* Steps up to a / b, as rminSteps and rmaxSteps round them. *)
CeilDiv(a, b) == -((-a) \div b)

ExtFromTerminationRipples == IF mqmax > Nyquist * mrstep THEN mqmax ELSE 0

ExtFromPeakTails(s) == s.widest * mhalfboundrel

(***************************************************************************)
(* cacheRlimitsData, in steps.  Extensions that exceed their maximum are   *)
(* scaled by num / den.                                                    *)
(***************************************************************************)
Limits(s) ==
  LET ripples == ExtFromTerminationRipples
      wanted == ripples + ExtFromPeakTails(s)
      total == Min({wanted, mmaxextension})
      num == IF wanted > mmaxextension THEN mmaxextension ELSE 1
      den == IF wanted > mmaxextension THEN wanted ELSE 1
  IN  IF CeilDiv(mrmin, mrstep) >= CeilDiv(mrmax, mrstep)
      THEN [extendedrmin |-> 0, extendedrmax |-> 0, rcalclo |-> 0, rcalchi |-> 0]
      ELSE [extendedrmin |-> Max({0, CeilDiv(mrmin * den - ripples * num, mrstep * den)}),
            extendedrmax |-> CeilDiv(mrmax * den + ripples * num, mrstep * den),
            rcalclo |-> Max({0, CeilDiv(mrmin - total, mrstep)}),
            rcalchi |-> CeilDiv(mrmax + total, mrstep)]

CountCalcPoints(limits) == limits.rcalchi - limits.rcalclo

-----------------------------------------------------------------------------
(* The array.  Its first point lies rcalclo steps from the origin.         *)

Nothing == [b \in Bonds |-> 0]

Zeros(limits) == [k \in 1..CountCalcPoints(limits) |-> Nothing]

(* Steps from the origin to entry k. *)
StepsAt(limits, k) == limits.rcalclo + k - 1

InRange(limits, b) ==
  limits.rcalclo * mrstep =< b.d /\ b.d =< limits.rcalchi * mrstep

(* Points that addPairContribution visits for a peak. *)
Covers(b, steps) ==
  LET half == b.fwhm * mhalfboundrel
  IN  (b.d - half) \div mrstep =< steps /\ steps =< (b.d + half) \div mrstep

(* What is left of value after the bonds have been added sign times. *)
WithContributions(value, limits, bonds, sign) ==
  [k \in DOMAIN value |->
     [b \in Bonds |->
        value[k][b] + (IF b \in bonds /\ InRange(limits, b) /\ Covers(b, StepsAt(limits, k))
                       THEN sign ELSE 0)]]

(* Slip: values are shifted in the wrong direction. *)
RestoredLeftwards(stash, before, after) ==
  [k \in 1..CountCalcPoints(after) |->
     LET i == k - (after.rcalclo - before.rcalclo)
     IN  IF i \in DOMAIN stash THEN stash[i] ELSE Nothing]

(* restorePartialValue onto an array with other limits. *)
Restored(stash, before, after) ==
  [k \in 1..CountCalcPoints(after) |->
     LET i == k + (after.rcalclo - before.rcalclo)
     IN  IF i \in DOMAIN stash THEN stash[i] ELSE Nothing]

-----------------------------------------------------------------------------
(* Results.                                                                *)

ExtendedRDF ==
  LET first == mrlimits_cache.extendedrmin - mrlimits_cache.rcalclo
      last == mrlimits_cache.extendedrmax - mrlimits_cache.rcalclo
  IN  SubSeq(mvalue, first + 1, last)

(* How much cutRipplePoints erases from both ends of an extended result. *)
Cuts ==
  [low |-> CeilDiv(mrmin, mrstep) - mrlimits_cache.extendedrmin,
   high |-> mrlimits_cache.extendedrmax - CeilDiv(mrmax, mrstep)]

(* Slip: the upper end is cut as if it began at zero. *)
RDFCutAtLength ==
  SubSeq(ExtendedRDF, Cuts.low + 1, CeilDiv(mrmax, mrstep) - CeilDiv(mrmin, mrstep))

RDF == SubSeq(ExtendedRDF, Cuts.low + 1, Len(ExtendedRDF) - Cuts.high)

(* Steps from the origin to the points of getRgrid. *)
Rgrid ==
  [k \in 1..(CeilDiv(mrmax, mrstep) - CeilDiv(mrmin, mrstep)) |->
     CeilDiv(mrmin, mrstep) + k - 1]

-----------------------------------------------------------------------------
(* The transforms, of which only the numbers of points are kept.           *)

(* The power of 2 that a transform of n points takes. *)
Padded(n) == IF n = 0 THEN 0 ELSE Min({2 ^ k : k \in {m \in 0..n : 2 ^ m >= n}})

(* Points of fftgtof for a signal of n points that starts at first. *)
Fftgtof(first, n) == IF n = 0 THEN 0 ELSE Padded(first + n)

(* The number of steps of Q that getQstep divides pi / rstep into. *)
QstepsToNyquist == Padded(mrlimits_cache.extendedrmax)

CountExtendedPoints == mrlimits_cache.extendedrmax - mrlimits_cache.extendedrmin

ExtendedF == Fftgtof(mrlimits_cache.extendedrmin, Len(ExtendedRDF))

(* Qmax is no more than pi / rstep. *)
QmaxSteps ==
  IF mqmax = 0 \/ QstepsToNyquist = 0 THEN QstepsToNyquist
  ELSE Min({QstepsToNyquist, CeilDiv(Nyquist * mrstep * QstepsToNyquist, mqmax)})

(* Points of the extended PDF that comes back from F. *)
TransformedPDF ==
  Min({Fftgtof(0, ExtendedF), mrlimits_cache.extendedrmax}) - mrlimits_cache.extendedrmin

-----------------------------------------------------------------------------
(* Actions.                                                                *)

(* resetValue for structure s. *)
ResetValue(s) ==
  /\ mrlimits_cache' = Limits(s)
  /\ mvalue' = Zeros(Limits(s))
  /\ settled' = TRUE

EvalCompletely(s) ==
  /\ mrlimits_cache' = Limits(s)
  /\ mvalue' = WithContributions(Zeros(Limits(s)), Limits(s), s.bonds, 1)
  /\ mstructure' = s
  /\ mlast_structure' = s
  /\ clicked' = FALSE
  /\ settled' = TRUE
  /\ UNCHANGED config

(***************************************************************************)
(* The removal is bounded by the limits cached before, the addition by     *)
(* those of the new structure.  Whether the difference is small enough for *)
(* an update is left open.                                                 *)
(***************************************************************************)
EvalUpdated(s) ==
  /\ ~clicked /\ mlast_structure # NoLast
  /\ LET last == mlast_structure
         popped == WithContributions(mvalue, mrlimits_cache, last.bonds \ s.bonds, -1)
         kept == Restored(popped, mrlimits_cache, Limits(s))
         new == WithContributions(kept, Limits(s), s.bonds \ last.bonds, 1)
     IN  /\ mrlimits_cache' = Limits(s)
         /\ mvalue' = new
         /\ \A k \in DOMAIN new, b \in Bonds : new[k][b] \in -MaxDrift..MaxDrift
  /\ mstructure' = s
  /\ mlast_structure' = s
  /\ settled' = TRUE
  /\ UNCHANGED <<config, clicked>>

(* _initialQstepUpdate: with the empty structure of the beginning, three setters reset. *)
Refreshed ==
  IF mstructure = NoStructure
  THEN mrlimits_cache' = Limits(NoStructure)' /\ mvalue' = Zeros(Limits(NoStructure))' /\ settled' = TRUE
  ELSE settled' = FALSE /\ UNCHANGED <<mrlimits_cache, mvalue>>

SetRmin(r) ==
  /\ r # mrmin
  /\ mrmin' = r
  /\ clicked' = TRUE
  /\ settled' = FALSE
  /\ UNCHANGED <<mrmax, mrstep, mqmax, mmaxextension, mhalfboundrel,
                 mstructure, mrlimits_cache, mvalue, mlast_structure>>

SetRmax(r) ==
  /\ r # mrmax
  /\ mrmax' = r
  /\ clicked' = TRUE
  /\ UNCHANGED <<mrmin, mrstep, mqmax, mmaxextension, mhalfboundrel, mstructure, mlast_structure>>
  /\ Refreshed

SetRstep(r) ==
  /\ r # mrstep
  /\ mrstep' = r
  /\ clicked' = TRUE
  /\ UNCHANGED <<mrmin, mrmax, mqmax, mmaxextension, mhalfboundrel, mstructure, mlast_structure>>
  /\ Refreshed

(* Only a smaller Qmax, with wider ripples, clicks. *)
SetQmax(q) ==
  /\ q # mqmax
  /\ mqmax' = q
  /\ clicked' = (clicked \/ q > mqmax)
  /\ UNCHANGED <<mrmin, mrmax, mrstep, mmaxextension, mhalfboundrel, mstructure, mlast_structure>>
  /\ Refreshed

SetMaxExtension(x) ==
  /\ x # mmaxextension
  /\ mmaxextension' = x
  /\ clicked' = TRUE
  /\ settled' = FALSE
  /\ UNCHANGED <<mrmin, mrmax, mrstep, mqmax, mhalfboundrel,
                 mstructure, mrlimits_cache, mvalue, mlast_structure>>

(* A change of the peak profile or of its precision. *)
SetPeakProfile(x) ==
  /\ x # mhalfboundrel
  /\ mhalfboundrel' = x
  /\ clicked' = TRUE
  /\ settled' = FALSE
  /\ UNCHANGED <<mrmin, mrmax, mrstep, mqmax, mmaxextension,
                 mstructure, mrlimits_cache, mvalue, mlast_structure>>

Init ==
  /\ mrmin \in Rmins /\ mrmax \in Rmaxes /\ mrstep \in Rsteps
  /\ mqmax = 0
  /\ mmaxextension \in Extensions
  /\ mhalfboundrel \in Bounds
  /\ mstructure = NoStructure
  /\ mrlimits_cache = Limits(NoStructure)
  /\ mvalue = Zeros(Limits(NoStructure))
  /\ clicked = TRUE
  /\ mlast_structure = NoLast
  /\ settled = TRUE

Next ==
  \/ \E s \in Structures : EvalCompletely(s) \/ EvalUpdated(s)
  \/ \E r \in Rmins : SetRmin(r)
  \/ \E r \in Rmaxes : SetRmax(r)
  \/ \E r \in Rsteps : SetRstep(r)
  \/ \E q \in Ripples : SetQmax(q)
  \/ \E x \in Extensions : SetMaxExtension(x)
  \/ \E x \in Bounds : SetPeakProfile(x)

Spec == Init /\ [][Next]_vars

-----------------------------------------------------------------------------
(* Properties.                                                             *)

TypeOK ==
  LET limits == mrlimits_cache
  IN  /\ mstructure \in Structures /\ mlast_structure \in Structures \cup {NoLast}
      /\ 0 =< limits.rcalclo /\ limits.rcalclo =< limits.extendedrmin
      /\ limits.extendedrmin =< limits.extendedrmax
      /\ limits.extendedrmax =< limits.rcalchi
      /\ Len(mvalue) = CountCalcPoints(limits)
      /\ \A k \in DOMAIN mvalue : mvalue[k] \in [Bonds -> Int]

Abs(x) == IF x < 0 THEN -x ELSE x

(* How far outside of the r-range the bonds are that limits leave room for. *)
Reach(b) == Min({ExtFromTerminationRipples + b.fwhm * mhalfboundrel, mmaxextension})

(* The maximum extension leaves no room for the tails of a bond.           *)
Cut(b) == ExtFromTerminationRipples + b.fwhm * mhalfboundrel > mmaxextension

(* Bonds that limits may leave out; the lower one is rounded up.           *)
Marginal(b) ==
  \/ mrmin > Reach(b) /\ b.d < mrmin - Reach(b) + mrstep
  \/ b.d > mrmax + Reach(b)

(***************************************************************************)
(* The point at steps from the origin holds the peaks of s that cover it.  *)
(* A marginal bond may be missing where its tails are cut.  Of others the  *)
(* last step of the tail may be missing, or left over from another         *)
(* structure.                                                              *)
(***************************************************************************)
PointIsSum(point, steps, s) ==
  \A b \in Bonds :
    /\ point[b] # 0 => Covers(b, steps)
    /\ point[b] # (IF b \in s.bonds /\ Covers(b, steps) THEN 1 ELSE 0) =>
         /\ Marginal(b)
         /\ IF Cut(b) THEN point[b] = 0
            ELSE Abs(steps * mrstep - b.d) > b.fwhm * mhalfboundrel - mrstep

(***************************************************************************)
(* A value that is not stale holds, at each point of the extended grid     *)
(* that is asked for, every peak of the structure that reaches it, once,   *)
(* and nothing else, whatever the extents of the arrays it has been        *)
(* carried over (PDFCalculator.cpp:547, 728).                              *)
(***************************************************************************)
GridIsSum ==
  ~clicked /\ mlast_structure # NoLast =>
    \A k \in DOMAIN ExtendedRDF :
      LET steps == mrlimits_cache.extendedrmin + k - 1
          asked == Limits(mlast_structure)
      IN  steps \in asked.extendedrmin..(asked.extendedrmax - 1) =>
            PointIsSum(ExtendedRDF[k], steps, mlast_structure)

(* What is left of the value when both ends are cut. *)
RDFIsSum ==
  /\ Cuts.low >= 0 /\ Cuts.high >= 0
  /\ Len(RDF) = Len(Rgrid)
  /\ ~clicked /\ mlast_structure # NoLast =>
       \A k \in DOMAIN Rgrid : PointIsSum(RDF[k], Rgrid[k], mlast_structure)

(***************************************************************************)
(* After an evaluation, and as long as no setter is called, results are    *)
(* the values at the points of getRgrid (PDFCalculator.cpp:654).  Whatever *)
(* setters are called, the padding that getQstep replicates is the one of  *)
(* fftgtof: F has the points of the Q-grid up to Qmax, and the PDF that is *)
(* transformed to F and back has those of the extended r-grid              *)
(* (PDFCalculator.cpp:145, 179, 233).                                      *)
(***************************************************************************)
ResultsFitGrids ==
  /\ settled /\ Rgrid # <<>> => RDFIsSum
  /\ ExtendedF = QstepsToNyquist
  /\ QmaxSteps =< ExtendedF
  /\ mrlimits_cache.extendedrmax =< Fftgtof(0, ExtendedF)
  /\ TransformedPDF = CountExtendedPoints
=============================================================================
