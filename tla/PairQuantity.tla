---------------------------- MODULE PairQuantity ----------------------------
(***************************************************************************)
(* A serial pair calculator and its evaluator: PairQuantity with           *)
(* PQEvaluatorBasic, PQEvaluatorOptimized or PQEvaluatorCheck.             *)
(*                                                                         *)
(* The evaluator keeps a copy of the structure it evaluated last           *)
(* (mlast_structure) and the time of that evaluation (mvalue_ticker).  As  *)
(* long as the configuration of the calculator is older than that          *)
(* (mticker), evaluating another structure removes the contributions of    *)
(* the sites that went and adds those of the sites that came.              *)
(***************************************************************************)
EXTENDS PairSum

CONSTANTS
  Structures,   \* the structures users evaluate
  Presets,      \* those they also pass to setStructure themselves
  NoStructure,  \* the empty structure a calculator starts with
  NoLast,       \* the null mlast_structure
  Configs,      \* values of all attributes but the mask
  Masks,        \* values of the mask
  Unknown,      \* atom types that the scattering factor table does not have
  MaxTick       \* bound on clicks of the global ticker

Evaluators == {"BASIC", "OPTIMIZED", "CHECK"}

ASSUME CalculatorAssumption ==
  /\ NoLast \notin Structures
  /\ NoStructure \in Structures /\ CountSites(NoStructure) = 0
  /\ Presets \subseteq Structures
  /\ MaxTick \in Nat
  /\ NoMask \in Masks
  /\ \A m \in Masks : m.pairs = {} \/ m.types = {}
  /\ \A s \in Structures :
       /\ CountSites(s) \in Nat /\ Sites(s) = 1..CountSites(s)
       /\ s.custom \in Configs \cup {KeepConfig}

VARIABLES
  mstructure,     \* the structure of the last setStructure, as it was then
  config,         \* attributes: rmin, rmax, qmax, tables, ...
  mask,           \* pair or type mask
  mticker,        \* last change of config or mask
  gtick,          \* the global ticker
  mvalue,         \* the ledger of contributions in the value array
  cached,         \* factors of the sites, sequence by site
  evtype,         \* type of the evaluator
  mlast,          \* its mlast_structure
  mvalue_ticker,  \* its mvalue_ticker
  mtypeused,      \* its mtypeused
  thrown,         \* the exception that ended the last call, or "none"
  spoiled         \* history: what has broken the tie between value and mlast

calculator == <<mstructure, config, mask, mticker, mvalue, cached>>
evaluator == <<evtype, mlast, mvalue_ticker, mtypeused>>
vars == <<calculator, evaluator, gtick, thrown, spoiled>>

-----------------------------------------------------------------------------
(* setStructure: customPQConfig, updateMaskData, resetValue.               *)

CanClick(n) == gtick + n =< MaxTick

Unset == "unset"

(* Every factor of s can be looked up. *)
Resolves(s) == \A i \in Sites(s) : s.atoms[i].type \notin Unknown

(* Slip: the cache is not shortened. *)
RecachedInPlace(old, s) ==
  [i \in Sites(s) \cup DOMAIN old |->
     IF i \in Sites(s) /\ \A j \in 1..i : s.atoms[j].type \notin Unknown
       THEN s.atoms[i].type
     ELSE IF i \in DOMAIN old THEN old[i] ELSE Unset]

(***************************************************************************)
(* The cache after cacheStructureData of s.  The array is resized first,   *)
(* then filled site by site up to the first type that is not in the table. *)
(***************************************************************************)
Recached(old, s) ==
  [i \in Sites(s) |->
     IF \A j \in 1..i : s.atoms[j].type \notin Unknown THEN s.atoms[i].type
     ELSE IF i \in DOMAIN old THEN old[i] ELSE Unset]

(* Slip: setters called by customPQConfig do not click. *)
ClicksNever(s) == 0

(* Clicks caused by customPQConfig of s: an attribute clicks if it changes. *)
Clicks(s) == IF Requested(s, config) # config THEN 1 ELSE 0

TakeStructure(s) ==
  /\ mstructure' = s
  /\ config' = Requested(s, config)
  /\ mticker' = IF Clicks(s) = 1 THEN gtick + 1 ELSE mticker
  /\ cached' = Recached(cached, s)
  /\ UNCHANGED mask

-----------------------------------------------------------------------------
(* Evaluation.                                                             *)

(***************************************************************************)
(* updateValue of the optimized evaluator goes on to update: the value is  *)
(* newer than the configuration, there is a last structure, the difference *)
(* is small, and where site indices matter it relates equal indices.       *)
(***************************************************************************)
FastPath(s) ==
  /\ evtype # "BASIC"
  /\ mticker < mvalue_ticker
  /\ mlast # NoLast
  /\ LET d == Diff(mlast, s)
     IN  /\ AllowsFastUpdate(CountSites(mlast), Cardinality(d.pop))
         /\ FixedSites \/ HasPairMask(mask) => d.method = "SIDEBYSIDE"

(* The stashed value: contributions of the popped sites are gone. *)
Popped(s) ==
  Combine(mvalue, -1,
    Tally(mlast, cached, config,
      Seen(mlast, mstructure, mask, PopVisits(mlast, Diff(mlast, s).pop))))

Updated(s) ==
  Combine(Popped(s), 1,
    Tally(s, SiteData(s), config,
      Seen(s, s, mask, AddVisits(s, Diff(mlast, s).add))))

(* The complete sum; the basic evaluator keeps no copy of the structure. *)
SumCompletely(s) ==
  /\ CanClick(Clicks(s) + 1)
  /\ TakeStructure(s)
  /\ mvalue' = FullValue(s, mask, config')
  /\ gtick' = gtick + Clicks(s) + 1
  /\ mvalue_ticker' = gtick'
  /\ mlast' = IF evtype = "BASIC" THEN mlast ELSE s
  /\ mtypeused' = "BASIC"
  /\ thrown' = "none"
  /\ spoiled' = {}
  /\ UNCHANGED evtype

EvalCompletely(s) ==
  /\ ~FastPath(s)
  /\ Resolves(s)
  /\ SumCompletely(s)

(***************************************************************************)
(* setStructure of the update changed the configuration: whatever has been *)
(* removed is forgotten and the sum starts over.                           *)
(***************************************************************************)
EvalReverted(s) ==
  /\ FastPath(s)
  /\ Resolves(s)
  /\ Clicks(s) = 1
  /\ SumCompletely(s)

FrameSlip(s) == IF Frame(mlast) = Frame(s) THEN {} ELSE {"frame"}

EvalUpdated(s) ==
  /\ evtype = "OPTIMIZED"
  /\ FastPath(s)
  /\ Resolves(s)
  /\ Clicks(s) = 0
  /\ CanClick(1)
  /\ TakeStructure(s)
  /\ mvalue' = Updated(s)
  /\ gtick' = gtick + 1
  /\ mvalue_ticker' = gtick'
  /\ mlast' = s
  /\ mtypeused' = "OPTIMIZED"
  /\ thrown' = "none"
  /\ spoiled' = spoiled \cup FrameSlip(s)
  /\ UNCHANGED evtype

(* The checking evaluator updates, sums anew, and compares. *)
EvalChecked(s) ==
  /\ evtype = "CHECK"
  /\ FastPath(s)
  /\ Resolves(s)
  /\ Clicks(s) = 0
  /\ CanClick(2)
  /\ TakeStructure(s)
  /\ mvalue' = FullValue(s, mask, config)
  /\ gtick' = gtick + 2
  /\ mvalue_ticker' = gtick'
  /\ mlast' = s
  /\ mtypeused' = "CHECK"
  /\ thrown' = IF Updated(s) = FullValue(s, mask, config) THEN "none" ELSE "inconsistent"
  /\ spoiled' = {}
  /\ UNCHANGED evtype

(***************************************************************************)
(* resetValue, called by setStructure in the course of an evaluation, runs *)
(* into a type it cannot look up.  It has not zeroed the value by then; an *)
(* update has already removed the popped sites from it.                    *)
(***************************************************************************)
EvalThrows(s) ==
  /\ ~Resolves(s)
  /\ CanClick(Clicks(s))
  /\ TakeStructure(s)
  /\ mvalue' = IF FastPath(s) THEN Popped(s) ELSE mvalue
  /\ gtick' = gtick + Clicks(s)
  /\ mtypeused' = IF FastPath(s) THEN "OPTIMIZED" ELSE "BASIC"
  /\ thrown' = "lookup"
  /\ spoiled' = spoiled \cup {"exception"}
  /\ UNCHANGED <<evtype, mlast, mvalue_ticker>>

Eval(s) ==
  \/ EvalCompletely(s)
  \/ EvalReverted(s)
  \/ EvalUpdated(s)
  \/ EvalChecked(s)
  \/ EvalThrows(s)

-----------------------------------------------------------------------------
(* The other calls.                                                        *)

(* setStructure called by the user rather than by an evaluation. *)
SetStructure(s) ==
  /\ CanClick(Clicks(s))
  /\ TakeStructure(s)
  /\ gtick' = gtick + Clicks(s)
  /\ mvalue' = IF Resolves(s) THEN Empty ELSE mvalue
  /\ thrown' = IF Resolves(s) THEN "none" ELSE "lookup"
  /\ spoiled' = spoiled \cup {"setStructure"}
  /\ UNCHANGED evaluator

(* A setter of an attribute: it clicks only if the value is new. *)
SetConfig(c) ==
  /\ c # config
  /\ CanClick(1)
  /\ config' = c
  /\ mticker' = gtick + 1
  /\ gtick' = gtick + 1
  /\ thrown' = "none"
  /\ UNCHANGED <<mstructure, mask, mvalue, cached, evaluator, spoiled>>

(* maskAllPairs, setPairMask, setTypeMask, where they change the mask. *)
SetMask(m) ==
  /\ m # mask
  /\ CanClick(1)
  /\ mask' = m
  /\ mticker' = gtick + 1
  /\ gtick' = gtick + 1
  /\ thrown' = "none"
  /\ UNCHANGED <<mstructure, config, mvalue, cached, evaluator, spoiled>>

(* Slip: the new evaluator inherits mlast_structure as well. *)
SetEvaluatorTypeKeepingLast(e) ==
  /\ e # evtype
  /\ evtype' = e
  /\ cached' = Recached(cached, mstructure)
  /\ mvalue' = IF Resolves(mstructure) THEN Empty ELSE mvalue
  /\ thrown' = IF Resolves(mstructure) THEN "none" ELSE "lookup"
  /\ UNCHANGED <<mstructure, config, mask, mticker, gtick, mlast, mvalue_ticker, mtypeused, spoiled>>

(***************************************************************************)
(* The new evaluator inherits everything but mlast_structure; then         *)
(* resetValue caches the current structure again and zeroes the value.     *)
(***************************************************************************)
SetEvaluatorType(e) ==
  /\ e # evtype
  /\ evtype' = e
  /\ mlast' = NoLast
  /\ cached' = Recached(cached, mstructure)
  /\ mvalue' = IF Resolves(mstructure) THEN Empty ELSE mvalue
  /\ thrown' = IF Resolves(mstructure) THEN "none" ELSE "lookup"
  /\ UNCHANGED <<mstructure, config, mask, mticker, gtick, mvalue_ticker, mtypeused, spoiled>>

-----------------------------------------------------------------------------
Init ==
  /\ mstructure = NoStructure
  /\ config \in Configs
  /\ mask = NoMask
  /\ mticker = 0
  /\ gtick = 0
  /\ mvalue = Empty
  /\ cached = <<>>
  /\ evtype = "BASIC"
  /\ mlast = NoLast
  /\ mvalue_ticker = 0
  /\ mtypeused = "NONE"
  /\ thrown = "none"
  /\ spoiled = {}

Next ==
  \/ \E s \in Structures : Eval(s)
  \/ \E s \in Presets : SetStructure(s)
  \/ \E c \in Configs : SetConfig(c)
  \/ \E m \in Masks : SetMask(m)
  \/ \E e \in Evaluators : SetEvaluatorType(e)

Spec == Init /\ [][Next]_vars

-----------------------------------------------------------------------------
(* Properties.                                                             *)

Spoils == {"frame", "exception", "setStructure"}

TypeOK ==
  /\ mstructure \in Structures
  /\ config \in Configs
  /\ mask \in Masks
  /\ gtick \in 0..MaxTick /\ mticker \in 0..gtick /\ mvalue_ticker \in 0..gtick
  /\ DOMAIN cached = Sites(mstructure)
  /\ \A k \in DOMAIN mvalue : mvalue[k] \in Int \ {0}
  /\ evtype \in Evaluators
  /\ mlast \in Structures \cup {NoLast}
  /\ mtypeused \in Evaluators \cup {"NONE"}
  /\ thrown \in {"none", "lookup", "inconsistent"}
  /\ spoiled \subseteq Spoils

(* The next evaluation may start from the value at hand. *)
Updatable == mticker < mvalue_ticker /\ mlast # NoLast

(***************************************************************************)
(* Whenever an update may start from the value at hand, that value is the  *)
(* complete sum over the structure the evaluator remembers, under the      *)
(* configuration and the mask of now (PQEvaluator.cpp:186), unless         *)
(* something is known to have come between.                                *)
(***************************************************************************)
FreshValueIsSum ==
  Updatable /\ spoiled = {} => mvalue = FullValue(mlast, mask, config)

(***************************************************************************)
(* The site factors that the removal loop multiplies (PDFCalculator.cpp:   *)
(* 516), and the structure that the mask was spread over, are those of the *)
(* structure whose bonds the loop generates.                               *)
(***************************************************************************)
RemovalReadsOwnData ==
  Updatable /\ spoiled = {} => cached = SiteData(mlast) /\ mstructure = mlast

Evaluated == mvalue_ticker' # mvalue_ticker

(***************************************************************************)
(* eval returns the complete pair sum, whichever evaluator computed it and *)
(* however many updates in a row led to it.                                *)
(***************************************************************************)
EvalYieldsSum ==
  [][Evaluated /\ spoiled' = {} => mvalue' = FullValue(mstructure', mask', config')]_vars

(***************************************************************************)
(* The checking evaluator reports an inconsistency (PQEvaluator.cpp:425)   *)
(* only after one of the known slips.                                      *)
(***************************************************************************)
CheckAccusesTheGuilty ==
  [][Evaluated /\ thrown' = "inconsistent" =>
       spoiled # {} \/ Frame(mlast) # Frame(mstructure')]_vars

-----------------------------------------------------------------------------
(* What the documentation promises without those exceptions.               *)

(***************************************************************************)
(* README.md:15: the optimized evaluation updates only contributions that  *)
(* have changed since the last evaluation, so it ends with the full sum,   *)
(* also where setStructure was called since.                               *)
(***************************************************************************)
SumAfterSetStructure ==
  [][Evaluated /\ spoiled' \subseteq {"setStructure"} =>
       mvalue' = FullValue(mstructure', mask', config')]_vars

(***************************************************************************)
(* StructureDifference.hpp:60: allowsfastupdate is true if the quantity    *)
(* can be updated from one structure to the other.                         *)
(***************************************************************************)
SumAcrossFrames ==
  [][Evaluated /\ spoiled' \subseteq {"frame"} =>
       mvalue' = FullValue(mstructure', mask', config')]_vars
=============================================================================
