---------------------------- MODULE MCCalculators ----------------------------
(***************************************************************************)
(* What calculators keep between evaluations, the parts they are made of   *)
(* and the data their tables read.  A behaviour is of one part: "ticker"   *)
(* of EventTicker, "pdf" of PDFGrid, "debye" of DebyeGrid, "parts" of      *)
(* PDFParts, "data" of ScatteringData; variables that a part has no use    *)
(* for are None or keep their value.                                       *)
(***************************************************************************)
EXTENDS EventTicker, PDFParts

CONSTANTS Components, None, NoLast, NoDigit

VARIABLES
  part,
  mstructure, mvalue, mlast_structure, reset, settled, mstructure_cache, mrmax,
  mrmin, mrstep, mqmax, mmaxextension, mhalfboundrel, mrlimits_cache,
  config, mqstep, moptimumqstep, mrcalclosteps, mrcalchisteps, mrlimits_are_cached,
  setters, shifted, rescaled,
  env, envrt, tables

structurevars == <<mstructure, mvalue>>
lastvars == <<mlast_structure, reset, settled>>
pdfvars == <<mrmin, mrstep, mqmax, mmaxextension, mhalfboundrel, mrlimits_cache>>
debyevars == <<config, mqstep, moptimumqstep, mrcalclosteps, mrcalchisteps, mrlimits_are_cached,
               setters, shifted, rescaled>>
datavars == <<env, envrt, tables>>

calculatorvars == <<structurevars, lastvars, mstructure_cache, mrmax, pdfvars, debyevars>>

allvars == <<part, tickervars, calculatorvars, vars, datavars>>

-----------------------------------------------------------------------------
(***************************************************************************)
(* Structures of narrow, wide and mixed peaks, some of them out of range,  *)
(* so that updates widen, narrow and shift the array.                      *)
(***************************************************************************)
Peak(d, fwhm) == [d |-> d, fwhm |-> fwhm]

NoPeaks == [bonds |-> {}, widest |-> 0]
NarrowPeaks == [bonds |-> {Peak(5, 1), Peak(6, 1), Peak(13, 1), Peak(19, 1)}, widest |-> 1]
WidePeaks == [bonds |-> {Peak(5, 1), Peak(6, 1), Peak(13, 1), Peak(15, 4)}, widest |-> 4]
ShiftedPeaks == [bonds |-> {Peak(5, 2), Peak(6, 1), Peak(19, 1)}, widest |-> 2]

PeakStructures == {NoPeaks, NarrowPeaks, WidePeaks, ShiftedPeaks}

PDF == INSTANCE PDFGrid WITH
  Bonds <- UNION {s.bonds : s \in PeakStructures}, Structures <- PeakStructures,
  NoStructure <- NoPeaks, Rmins <- {0, 6}, Rmaxes <- {9, 12}, Rsteps <- {2, 3},
  Ripples <- {0, 5, 8}, Extensions <- {5, 20}, Bounds <- {1, 2}, Nyquist <- 2, MaxDrift <- 2,
  clicked <- reset

ASSUME GridAssumption == PDF!GridAssumption

(***************************************************************************)
(* Each point of the extended r-grid holds the peaks that reach it, once,  *)
(* but for bonds next to the bounds, whose tails may be missing or left.   *)
(***************************************************************************)
GridIsSum == part = "pdf" => PDF!GridIsSum

(* Results and transforms of PDFCalculator have the points of their grids. *)
ResultsFitGrids == part = "pdf" => PDF!ResultsFitGrids

-----------------------------------------------------------------------------
(* Structures that differ in an atom or in the width of their peaks.       *)

Placed(type, pos, occupancy) == [type |-> type, pos |-> pos, occupancy |-> occupancy]

NoAtoms == [sites |-> <<>>, widest |-> 0]
NarrowAtoms == [sites |-> <<Placed("A", 0, 1), Placed("A", 3, 1), Placed("B", 12, 2)>>, widest |-> 0]
WideAtoms == [sites |-> <<Placed("A", 0, 1), Placed("A", 3, 1), Placed("B", 9, 2)>>, widest |-> 3]

Debye == INSTANCE DebyeGrid WITH
  Structures <- {NoAtoms, NarrowAtoms, WideAtoms}, NoStructure <- NoAtoms,
  Rmins <- {0, 5}, Rmaxes <- {7, 10}, Rsteps <- {1, 2}, Qmaxes <- {0, 2}, Qsteps <- {30},
  Extensions <- {0, 4}, Widths <- {1, 2}, MinReduction <- 4, Nripples <- 1, clicked <- reset,
  MaxDrift <- 1, MaxSetters <- 4,
  Defaults <- [rmin |-> 0, rmax |-> 10, rstep |-> 1, qmax |-> 2, maxextension |-> 4, width |-> 1]

ASSUME DebyeAssumption == Debye!DebyeAssumption

(* A Debye sum that is not stale is the sum over the remembered structure. *)
FreshSumIsSum == part = "debye" => Debye!FreshSumIsSum

(* All reads of sums and transforms are within the arrays that were made.  *)
ReadsInside == part = "debye" => Debye!ReadsInside

-----------------------------------------------------------------------------
(***************************************************************************)
(* One PDFCalculator and one DebyePDFCalculator; two types of width,       *)
(* envelope and table, and one of profile and baseline, of which there are *)
(* two objects; and one symbol that the tables know beside the atom.       *)
(***************************************************************************)
MCKindOf ==
  [jeong |-> "width", constant |-> "width", gaussian |-> "profile", linear |-> "baseline",
   scale |-> "envelope", qresolution |-> "envelope", xray |-> "table", neutron |-> "table",
   pdf |-> "calculator", debye |-> "calculator"]

MCTypes == DOMAIN MCKindOf

MCRadiationType == [xray |-> "X", neutron |-> "N"]

MCStandard == [xray |-> [C |-> 4, O |-> 8], neutron |-> [C |-> 8, O |-> 4]]

-----------------------------------------------------------------------------
(***************************************************************************)
(* Files with an element without ions, with a listed ion and with one that *)
(* only the ion list has, with isotopes and elements that have only these. *)
(* Those in "torn" end in a malformed line, and one of them is missing.    *)
(***************************************************************************)
Sym(mass, el, digit, sign) == [mass |-> mass, el |-> el, digit |-> digit, sign |-> sign]
Plain(el) == Sym(0, el, NoDigit, 0)
Malformed == [mark |-> "?"]
Comment == [mark |-> "#"]

Formula(s, x) == <<[mark |-> "#S", symbol |-> s], Comment, [mark |-> "#L", value |-> x]>>
Ions(el, z, ions) == [mark |-> "", el |-> el, value |-> z, ions |-> ions]
Length(s, chlf, x) == [mark |-> "", symbol |-> s, chlf |-> chlf, value |-> x]

WaasKirf ==
  <<Comment>> \o Formula(Plain("H"), 1) \o Formula(Plain("Na"), 11)
    \o Formula(Sym(0, "Na", 1, 1), 10) \o Formula(Plain("Fe"), 26) \o Formula(Sym(0, "Fe", 2, 1), 24)

IonList ==
  <<Comment, Ions("H", 1, <<-1, 1>>), Ions("He", 2, <<>>), Ions("Na", 11, <<1>>),
    Ions("Fe", 26, <<-2, 2, 3>>)>>

Lengths ==
  <<Length(Sym(1, "n", NoDigit, 0), "S", -37), Length(Plain("H"), "", -4),
    Length(Sym(2, "H", NoDigit, 0), "", 7), Length(Sym(3, "H", NoDigit, 0), "Y", 5), Comment,
    Length(Sym(23, "Na", NoDigit, 0), "100", 4), Length(Plain("Fe"), "", 9),
    Length(Sym(239, "Pu", NoDigit, 0), "Y", 8), Length(Sym(240, "Pu", NoDigit, 0), "Y", 3)>>

MCDirectories ==
  [share |-> [f0_WaasKirf |-> WaasKirf, ionlist |-> IonList, nsftable |-> Lengths],
   torn |-> [f0_WaasKirf |-> SubSeq(WaasKirf, 1, 8) \o <<Malformed>> \o SubSeq(WaasKirf, 11, 16),
             ionlist |-> SubSeq(IonList, 1, 4) \o <<Malformed>> \o SubSeq(IonList, 5, 5),
             nsftable |-> SubSeq(Lengths, 1, 8) \o <<Malformed>> \o SubSeq(Lengths, 9, 9)],
   short |-> [ionlist |-> SubSeq(IonList, 1, 4)]]

MCSymbols ==
  {Plain(el) : el \in {"H", "D", "n", "Na", "Pu", "Fe", "Zz"}}
    \cup {Sym(0, "Na", d, sgn) : d \in {NoDigit, 0, 1, 2, 9}, sgn \in {-1, 1}}
    \cup {Sym(0, "Fe", d, 1) : d \in {2, 3}}
    \cup {Sym(m, "H", NoDigit, sgn) : m \in {2, 3}, sgn \in {0, 1}}

Data == INSTANCE ScatteringData WITH
  Directories <- MCDirectories, Installed <- "share", Unset <- "",
  RealPath <- [x \in {"share", "torn", "torn/", "short", "gone"} |-> IF x = "torn/" THEN "torn" ELSE x],
  Symbols <- MCSymbols, MinTableSize <- 10

ASSUME DataAssumption == Data!ScatteringDataAssumption

(* diffpyruntime answers for the environment as it is (runtimepath.cpp:70). *)
PathIsCurrent == part = "data" => Data!PathIsCurrent

(* Lines before a broken one are read right (scatteringfactordata.cpp:136, 230, 278). *)
TornTablesAreRight == part = "data" => Data!TornTablesAreRight

(* The three searches agree (scatteringfactordata.cpp:189, 382, 408). *)
TablesResolveAlike == part = "data" => Data!TablesResolveAlike

-----------------------------------------------------------------------------
(* Tickers, grids, sums, lists, parts, the registry and tables keep their types. *)
TypesOK ==
  /\ TickerTypeOK
  /\ TypeOK
  /\ part = "data" => Data!TypeOK
  /\ part = "pdf" => PDF!TypeOK
  /\ part = "debye" => Debye!TypeOK

-----------------------------------------------------------------------------
(* Variables without a use.                                               *)

NoEvaluator ==
  /\ mlast_structure = None /\ reset = None /\ settled = None

NoPdf ==
  /\ mrmin = None /\ mrstep = None /\ mqmax = None /\ mmaxextension = None
  /\ mhalfboundrel = None /\ mrlimits_cache = None

NoDebye ==
  /\ config = None /\ mqstep = None /\ moptimumqstep = None /\ mrcalclosteps = None
  /\ mrcalchisteps = None /\ mrlimits_are_cached = None /\ setters = None
  /\ shifted = None /\ rescaled = None

MCInit ==
  /\ part \in Components
  /\ TickerInit /\ Init /\ Data!Init
  /\ CASE part = "pdf" -> PDF!Init /\ mstructure_cache = None /\ NoDebye
       [] part = "debye" -> Debye!Init /\ mrmax = None /\ NoPdf
       [] OTHER -> /\ mstructure = None /\ mvalue = None /\ mstructure_cache = None
                   /\ mrmax = None /\ NoEvaluator /\ NoPdf /\ NoDebye

MCNext ==
  /\ UNCHANGED part
  /\ \/ /\ part = "ticker" /\ TickerNext
        /\ UNCHANGED <<calculatorvars, vars, datavars>>
     \/ /\ part = "pdf" /\ PDF!Next
        /\ UNCHANGED <<tickervars, mstructure_cache, debyevars, vars, datavars>>
     \/ /\ part = "debye" /\ Debye!Next
        /\ UNCHANGED <<tickervars, mrmax, pdfvars, vars, datavars>>
     \/ /\ part = "parts" /\ Next
        /\ UNCHANGED <<tickervars, calculatorvars, datavars>>
     \/ /\ part = "data" /\ Data!Next
        /\ UNCHANGED <<tickervars, calculatorvars, vars>>

MCSpec == MCInit /\ [][MCNext]_allvars
=============================================================================
