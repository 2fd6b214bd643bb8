------------------------- MODULE PairQuantity_proofs -------------------------
(***************************************************************************)
(* The properties of PairQuantity for any structures, configurations and   *)
(* masks.                                                                  *)
(***************************************************************************)
EXTENDS PairQuantity, PairSum_proofs

-----------------------------------------------------------------------------
(* Types.                                                                  *)

TypeInv ==
  /\ TypeOK
  /\ IsLedger(mvalue)

LEMMA StructureType ==
  ASSUME NEW s \in Structures
  PROVE  HasSites(s) /\ s.custom \in Configs \cup {KeepConfig}
  BY CalculatorAssumption DEF HasSites

LEMMA FullValueType ==
  ASSUME NEW s \in Structures, NEW m, NEW c
  PROVE  IsLedger(FullValue(s, m, c))
<1>1. AllVisits(s) \subseteq Sites(s) \X Sites(s)
  BY DEF AllVisits
<1>2. IsFiniteSet(Seen(s, s, m, AllVisits(s)))
  BY <1>1, StructureType, SeenIsFinite
<1> QED BY <1>2, TallyCount DEF FullValue

LEMMA DiffType ==
  ASSUME NEW s, NEW t
  PROVE  Diff(s, t).pop \subseteq Sites(s) /\ Diff(s, t).add \subseteq Sites(t)
  BY DEF Diff, Mismatched, Surplus

LEMMA PoppedType ==
  ASSUME NEW s \in Structures, IsLedger(mvalue), mlast \in Structures
  PROVE  IsLedger(Popped(s))
<1> DEFINE V == PopVisits(mlast, Diff(mlast, s).pop)
           gone == Tally(mlast, cached, config, Seen(mlast, mstructure, mask, V))
<1>1. V \subseteq Sites(mlast) \X Sites(mlast)
  BY DiffType DEF PopVisits
<1>2. IsFiniteSet(Seen(mlast, mstructure, mask, V))
  BY <1>1, StructureType, SeenIsFinite
<1>3. IsLedger(gone)
  BY <1>2, TallyCount
<1> QED BY <1>3, CombineAmount DEF Popped

LEMMA UpdatedType ==
  ASSUME NEW s \in Structures, IsLedger(mvalue), mlast \in Structures
  PROVE  IsLedger(Updated(s))
<1> DEFINE V == AddVisits(s, Diff(mlast, s).add)
           new == Tally(s, SiteData(s), config, Seen(s, s, mask, V))
<1>1. V \subseteq Sites(s) \X Sites(s)
  BY DiffType DEF AddVisits
<1>2. IsFiniteSet(Seen(s, s, mask, V))
  BY <1>1, StructureType, SeenIsFinite
<1>3. IsLedger(new)
  BY <1>2, TallyCount
<1> QED BY <1>3, PoppedType, CombineAmount DEF Updated

LEMMA EmptyType == IsLedger(Empty)
  BY DEF IsLedger, Empty

(* What setStructure leaves behind, however often the ticker clicks. *)
LEMMA TakeStructureType ==
  ASSUME TypeOK, NEW s \in Structures, TakeStructure(s)
  PROVE  /\ mstructure' \in Structures /\ config' \in Configs /\ mask' \in Masks
         /\ DOMAIN cached' = Sites(mstructure')
         /\ Clicks(s) \in {0, 1}
         /\ Clicks(s) = 0 => config' = config /\ mticker' = mticker
         /\ Clicks(s) = 1 => mticker' = gtick + 1
<1>1. Requested(s, config) \in Configs
  BY StructureType DEF Requested, TypeOK
<1>2. DOMAIN cached' = Sites(s)
  BY DEF TakeStructure, Recached
<1> QED BY <1>1, <1>2 DEF TakeStructure, Clicks, TypeOK

LEMMA InitType == Init => TypeInv
<1> SUFFICES ASSUME Init PROVE TypeInv
  OBVIOUS
<1>1. DOMAIN cached = Sites(mstructure)
  BY CalculatorAssumption DEF Init
<1> QED BY <1>1, EmptyType, CalculatorAssumption
        DEF Init, TypeInv, TypeOK, Empty, Evaluators, Spoils

LEMMA SumCompletelyType ==
  ASSUME TypeInv, NEW s \in Structures, SumCompletely(s)
  PROVE  TypeInv'
<1>1. /\ mstructure' \in Structures /\ config' \in Configs /\ mask' \in Masks
      /\ DOMAIN cached' = Sites(mstructure')
      /\ Clicks(s) \in {0, 1}
      /\ Clicks(s) = 0 => mticker' = mticker
      /\ Clicks(s) = 1 => mticker' = gtick + 1
  BY TakeStructureType DEF SumCompletely, TypeInv
<1>2. gtick' \in 0..MaxTick /\ mticker' \in 0..gtick' /\ mvalue_ticker' \in 0..gtick'
  BY <1>1, CalculatorAssumption DEF SumCompletely, CanClick, TypeInv, TypeOK
<1>3. IsLedger(mvalue')
  BY FullValueType DEF SumCompletely
<1>4. /\ evtype' \in Evaluators /\ mlast' \in Structures \cup {NoLast}
      /\ mtypeused' \in Evaluators \cup {"NONE"} /\ thrown' = "none" /\ spoiled' = {}
  BY DEF SumCompletely, TypeInv, TypeOK, Evaluators
<1> QED BY <1>1, <1>2, <1>3, <1>4 DEF TypeInv, TypeOK, IsLedger

LEMMA EvalType ==
  ASSUME TypeInv, NEW s \in Structures, Eval(s)
  PROVE  TypeInv'
<1> USE DEF TypeInv
<1>1. ASSUME FastPath(s) PROVE mlast \in Structures
  BY <1>1 DEF FastPath, TypeOK
<1>2. CASE EvalCompletely(s) \/ EvalReverted(s)
  BY <1>2, SumCompletelyType DEF EvalCompletely, EvalReverted
<1>3. CASE EvalUpdated(s)
  <2>1. /\ mstructure' \in Structures /\ config' \in Configs /\ mask' \in Masks
        /\ DOMAIN cached' = Sites(mstructure') /\ mticker' = mticker
    BY <1>3, TakeStructureType DEF EvalUpdated
  <2>2. gtick' \in 0..MaxTick /\ mticker' \in 0..gtick' /\ mvalue_ticker' \in 0..gtick'
    BY <1>3, <2>1, CalculatorAssumption DEF EvalUpdated, CanClick, TypeOK
  <2>3. IsLedger(mvalue')
    BY <1>1, <1>3, UpdatedType DEF EvalUpdated
  <2>4. /\ evtype' \in Evaluators /\ mlast' \in Structures \cup {NoLast}
        /\ mtypeused' \in Evaluators \cup {"NONE"} /\ thrown' = "none"
        /\ spoiled' \subseteq Spoils
    BY <1>3 DEF EvalUpdated, TypeOK, Evaluators, FrameSlip, Spoils
  <2> QED BY <2>1, <2>2, <2>3, <2>4 DEF TypeOK, IsLedger
<1>4. CASE EvalChecked(s)
  <2>1. /\ mstructure' \in Structures /\ config' \in Configs /\ mask' \in Masks
        /\ DOMAIN cached' = Sites(mstructure') /\ mticker' = mticker
    BY <1>4, TakeStructureType DEF EvalChecked
  <2>2. gtick' \in 0..MaxTick /\ mticker' \in 0..gtick' /\ mvalue_ticker' \in 0..gtick'
    BY <1>4, <2>1, CalculatorAssumption DEF EvalChecked, CanClick, TypeOK
  <2>3. IsLedger(mvalue')
    BY <1>4, FullValueType DEF EvalChecked
  <2>4. /\ evtype' \in Evaluators /\ mlast' \in Structures \cup {NoLast}
        /\ mtypeused' \in Evaluators \cup {"NONE"} /\ thrown' \in {"none", "inconsistent"}
        /\ spoiled' = {}
    BY <1>4 DEF EvalChecked, TypeOK, Evaluators
  <2> QED BY <2>1, <2>2, <2>3, <2>4 DEF TypeOK, IsLedger
<1>5. CASE EvalThrows(s)
  <2>1. /\ mstructure' \in Structures /\ config' \in Configs /\ mask' \in Masks
        /\ DOMAIN cached' = Sites(mstructure')
        /\ Clicks(s) \in {0, 1}
        /\ Clicks(s) = 0 => mticker' = mticker
        /\ Clicks(s) = 1 => mticker' = gtick + 1
    BY <1>5, TakeStructureType DEF EvalThrows
  <2>2. gtick' \in 0..MaxTick /\ mticker' \in 0..gtick' /\ mvalue_ticker' \in 0..gtick'
    BY <1>5, <2>1, CalculatorAssumption DEF EvalThrows, CanClick, TypeOK
  <2>3. IsLedger(mvalue')
    BY <1>1, <1>5, PoppedType DEF EvalThrows
  <2>4. /\ evtype' \in Evaluators /\ mlast' \in Structures \cup {NoLast}
        /\ mtypeused' \in Evaluators \cup {"NONE"} /\ thrown' = "lookup"
        /\ spoiled' \subseteq Spoils
    BY <1>5 DEF EvalThrows, TypeOK, Evaluators, Spoils
  <2> QED BY <2>1, <2>2, <2>3, <2>4 DEF TypeOK, IsLedger
<1> QED BY <1>2, <1>3, <1>4, <1>5 DEF Eval

LEMMA SettersType ==
  ASSUME TypeInv, NEW s, NEW c, NEW m, NEW e,
         \/ s \in Presets /\ SetStructure(s)
         \/ c \in Configs /\ SetConfig(c)
         \/ m \in Masks /\ SetMask(m)
         \/ e \in Evaluators /\ SetEvaluatorType(e)
  PROVE  TypeInv'
<1> USE DEF TypeInv
<1>1. CASE s \in Presets /\ SetStructure(s)
  <2>1. s \in Structures
    BY <1>1, CalculatorAssumption
  <2>2. /\ mstructure' \in Structures /\ config' \in Configs /\ mask' \in Masks
        /\ DOMAIN cached' = Sites(mstructure')
        /\ Clicks(s) \in {0, 1}
        /\ Clicks(s) = 0 => mticker' = mticker
        /\ Clicks(s) = 1 => mticker' = gtick + 1
    BY <1>1, <2>1, TakeStructureType DEF SetStructure
  <2>3. gtick' \in 0..MaxTick /\ mticker' \in 0..gtick' /\ mvalue_ticker' \in 0..gtick'
    BY <1>1, <2>2, CalculatorAssumption DEF SetStructure, CanClick, TypeOK, evaluator
  <2>4. IsLedger(mvalue')
    BY <1>1, EmptyType DEF SetStructure
  <2>5. /\ evtype' \in Evaluators /\ mlast' \in Structures \cup {NoLast}
        /\ mtypeused' \in Evaluators \cup {"NONE"} /\ thrown' \in {"none", "lookup"}
        /\ spoiled' \subseteq Spoils
    BY <1>1 DEF SetStructure, TypeOK, Spoils, evaluator
  <2> QED BY <2>2, <2>3, <2>4, <2>5 DEF TypeOK, IsLedger
<1>2. CASE \/ c \in Configs /\ SetConfig(c)
           \/ m \in Masks /\ SetMask(m)
  BY <1>2, CalculatorAssumption
     DEF SetConfig, SetMask, CanClick, TypeOK, evaluator, IsLedger
<1>3. CASE e \in Evaluators /\ SetEvaluatorType(e)
  <2>1. DOMAIN cached' = Sites(mstructure')
    BY <1>3 DEF SetEvaluatorType, Recached
  <2>2. IsLedger(mvalue')
    BY <1>3, EmptyType DEF SetEvaluatorType
  <2> QED BY <1>3, <2>1, <2>2 DEF SetEvaluatorType, TypeOK, IsLedger
<1> QED BY <1>1, <1>2, <1>3

LEMMA NextType == TypeInv /\ [Next]_vars => TypeInv'
<1> SUFFICES ASSUME TypeInv, [Next]_vars PROVE TypeInv'
  OBVIOUS
<1>1. CASE UNCHANGED vars
  BY <1>1 DEF TypeInv, TypeOK, IsLedger, vars, calculator, evaluator
<1>2. CASE \E s \in Structures : Eval(s)
  BY <1>2, EvalType
<1>3. CASE \/ \E s \in Presets : SetStructure(s)
           \/ \E c \in Configs : SetConfig(c)
           \/ \E m \in Masks : SetMask(m)
           \/ \E e \in Evaluators : SetEvaluatorType(e)
  BY <1>3, SettersType
<1> QED BY <1>1, <1>2, <1>3 DEF Next

(* The state always has its types: every call of the calculator leaves     *)
(* ticks that are not ahead, and a cache with a factor for each site.      *)
THEOREM TypesAreKept == Spec => []TypeOK
<1>1. TypeInv => TypeOK
  BY DEF TypeInv
<1> QED BY <1>1, InitType, NextType, PTL DEF Spec

-----------------------------------------------------------------------------
(***************************************************************************)
(* Sums.  The evaluator may update only while the tie between the value,   *)
(* the cache, the mask and the remembered structure is unbroken; a basic   *)
(* evaluator remembers none.                                               *)
(***************************************************************************)
Tied ==
  /\ mvalue = FullValue(mlast, mask, config)
  /\ cached = SiteData(mlast)
  /\ mstructure = mlast

SumInv ==
  /\ TypeInv
  /\ evtype = "BASIC" => mlast = NoLast
  /\ Updatable /\ spoiled = {} => Tied

LEMMA RecachedIsSiteData ==
  ASSUME NEW s \in Structures, Resolves(s), NEW old
  PROVE  Recached(old, s) = SiteData(s)
<1>1. \A i \in Sites(s) : 1..i \subseteq Sites(s)
  BY StructureType DEF HasSites
<1>2. \A i \in Sites(s) : \A j \in 1..i : s.atoms[j].type \notin Unknown
  BY <1>1 DEF Resolves
<1> QED BY <1>2 DEF Recached, SiteData

(***************************************************************************)
(* An update that starts from the sum over mlast ends with the sum over s. *)
(***************************************************************************)
LEMMA UpdatedIsSum ==
  ASSUME SumInv, NEW s \in Structures, FastPath(s),
         spoiled = {}, Frame(mlast) = Frame(s)
  PROVE  Updated(s) = FullValue(s, mask, config)
<1> DEFINE d == Diff(mlast, s)
<1>1. mlast \in Structures /\ Updatable
  BY DEF FastPath, SumInv, TypeInv, TypeOK, Updatable
<1>2. Tied
  BY <1>1 DEF SumInv
<1>3. HasSites(mlast) /\ HasSites(s)
  BY <1>1, StructureType
<1>4. /\ AllowsFastUpdate(CountSites(mlast), Cardinality(d.pop))
      /\ FixedSites \/ HasPairMask(mask) => d.method = "SIDEBYSIDE"
  BY DEF FastPath
<1>5. d.method # "NONE"
  BY <1>3, <1>4, FastDiffCompares
<1> DEFINE gone == Tally(mlast, SiteData(mlast), config,
                         Seen(mlast, mlast, mask, PopVisits(mlast, d.pop)))
           new == Tally(s, SiteData(s), config, Seen(s, s, mask, AddVisits(s, d.add)))
<1>6. Updated(s) = Combine(Combine(FullValue(mlast, mask, config), -1, gone), 1, new)
  BY <1>2 DEF Updated, Popped, Tied
<1>7. Combine(Combine(FullValue(mlast, mask, config), -1, gone), 1, new)
        = FullValue(s, mask, config)
  BY <1>3, <1>4, <1>5, UpdateIsSum
<1> QED BY <1>6, <1>7

(* What the evaluations of all kinds have in common when they succeed. *)
SumTaken(s) ==
  /\ mvalue' = FullValue(s, mask', config')
  /\ cached' = SiteData(s)
  /\ mstructure' = s
  /\ mlast' = IF evtype = "BASIC" THEN mlast ELSE s
  /\ evtype' = evtype

LEMMA EvalTakesSum ==
  ASSUME SumInv, NEW s \in Structures,
         \/ EvalCompletely(s) \/ EvalReverted(s) \/ EvalChecked(s)
         \/ EvalUpdated(s) /\ spoiled' = {}
  PROVE  SumTaken(s)
<1>1. Resolves(s) /\ TakeStructure(s) /\ evtype' = evtype
  BY DEF EvalCompletely, EvalReverted, EvalChecked, EvalUpdated, SumCompletely
<1>2. cached' = SiteData(s) /\ mstructure' = s /\ mask' = mask
  BY <1>1, RecachedIsSiteData DEF TakeStructure
<1>3. CASE EvalCompletely(s) \/ EvalReverted(s)
  BY <1>1, <1>2, <1>3 DEF EvalCompletely, EvalReverted, SumCompletely, SumTaken
<1>4. Clicks(s) = 0 => config' = config
  BY <1>1, TakeStructureType DEF SumInv, TypeInv
<1>5. CASE EvalChecked(s)
  BY <1>1, <1>2, <1>4, <1>5 DEF EvalChecked, FastPath, SumTaken
<1>6. CASE EvalUpdated(s) /\ spoiled' = {}
  <2>1. spoiled = {} /\ Frame(mlast) = Frame(s) /\ FastPath(s)
    BY <1>6 DEF EvalUpdated, FrameSlip
  <2>2. Updated(s) = FullValue(s, mask, config)
    BY <2>1, UpdatedIsSum
  <2> QED BY <1>1, <1>2, <1>4, <1>6, <2>1, <2>2 DEF EvalUpdated, FastPath, SumTaken
<1> QED BY <1>3, <1>5, <1>6

LEMMA InitSum == Init => SumInv
  BY InitType DEF Init, SumInv, Updatable

LEMMA EvalKeepsSum ==
  ASSUME SumInv, NEW s \in Structures, Eval(s)
  PROVE  SumInv'
<1>1. TypeInv'
  BY EvalType DEF SumInv
<1>2. CASE SumTaken(s)
  <2>1. evtype' = "BASIC" => mlast' = NoLast
    BY <1>2 DEF SumTaken, SumInv
  <2>2. Updatable' => mlast' = s
    BY <1>2, <2>1 DEF SumTaken, Updatable
  <2> QED BY <1>1, <1>2, <2>1, <2>2 DEF SumTaken, SumInv, Tied
<1>3. CASE EvalUpdated(s) /\ spoiled' # {}
  BY <1>1, <1>3 DEF EvalUpdated, SumInv
<1>4. CASE EvalThrows(s)
  BY <1>1, <1>4 DEF EvalThrows, SumInv
<1> QED BY <1>2, <1>3, <1>4, EvalTakesSum DEF Eval

LEMMA SettersKeepSum ==
  ASSUME SumInv, NEW s, NEW c, NEW m, NEW e,
         \/ s \in Presets /\ SetStructure(s)
         \/ c \in Configs /\ SetConfig(c)
         \/ m \in Masks /\ SetMask(m)
         \/ e \in Evaluators /\ SetEvaluatorType(e)
  PROVE  SumInv'
<1>1. TypeInv'
  BY SettersType DEF SumInv
<1>2. CASE s \in Presets /\ SetStructure(s)
  BY <1>1, <1>2 DEF SetStructure, SumInv, evaluator
<1>3. CASE \/ c \in Configs /\ SetConfig(c)
           \/ m \in Masks /\ SetMask(m)
  <2>1. ~Updatable'
    BY <1>3 DEF SetConfig, SetMask, evaluator, Updatable, SumInv, TypeInv, TypeOK
  <2> QED BY <1>1, <1>3, <2>1 DEF SetConfig, SetMask, evaluator, SumInv
<1>4. CASE e \in Evaluators /\ SetEvaluatorType(e)
  BY <1>1, <1>4 DEF SetEvaluatorType, SumInv, Updatable
<1> QED BY <1>2, <1>3, <1>4

LEMMA NextKeepsSum == SumInv /\ [Next]_vars => SumInv'
<1> SUFFICES ASSUME SumInv, [Next]_vars PROVE SumInv'
  OBVIOUS
<1>1. CASE UNCHANGED vars
  <2>1. TypeInv'
    BY NextType DEF SumInv
  <2> QED BY <1>1, <2>1 DEF SumInv, Updatable, Tied, vars, calculator, evaluator
<1>2. CASE \E s \in Structures : Eval(s)
  BY <1>2, EvalKeepsSum
<1>3. CASE \/ \E s \in Presets : SetStructure(s)
           \/ \E c \in Configs : SetConfig(c)
           \/ \E m \in Masks : SetMask(m)
           \/ \E e \in Evaluators : SetEvaluatorType(e)
  BY <1>3, SettersKeepSum
<1> QED BY <1>1, <1>2, <1>3 DEF Next

(***************************************************************************)
(* The value an update may start from is the complete sum over the         *)
(* remembered structure, and the caches are those of that structure, in    *)
(* whatever order evaluations, setters and masks have been called          *)
(* (PQEvaluator.cpp:186).                                                  *)
(***************************************************************************)
THEOREM FreshValues == Spec => [](FreshValueIsSum /\ RemovalReadsOwnData)
<1>1. SumInv => FreshValueIsSum /\ RemovalReadsOwnData
  BY DEF SumInv, Tied, FreshValueIsSum, RemovalReadsOwnData
<1>2. SumInv /\ [Next]_vars => SumInv'
  BY NextKeepsSum
<1> QED BY <1>1, InitSum, <1>2, PTL DEF Spec

(***************************************************************************)
(* Whichever evaluator did it, eval ends with the complete sum over its    *)
(* structure (PQEvaluator.cpp:180).                                        *)
(***************************************************************************)
THEOREM EvaluationsSum == Spec => EvalYieldsSum
<1> DEFINE Sums == Evaluated /\ spoiled' = {} =>
                     mvalue' = FullValue(mstructure', mask', config')
<1>1. SumInv /\ [Next]_vars => [Sums]_vars
  <2> SUFFICES ASSUME SumInv, Next, Evaluated, spoiled' = {}
               PROVE  mvalue' = FullValue(mstructure', mask', config')
    OBVIOUS
  <2>1. PICK s \in Structures : Eval(s)
    BY DEF Next, Evaluated, SetStructure, SetConfig, SetMask, SetEvaluatorType, evaluator
  <2>2. ~EvalThrows(s)
    BY DEF Evaluated, EvalThrows
  <2> QED BY <2>1, <2>2, EvalTakesSum DEF Eval, SumTaken
<1>2. SumInv /\ [Next]_vars => SumInv'
  BY NextKeepsSum
<1> QED BY InitSum, <1>1, <1>2, PTL DEF Spec, EvalYieldsSum

(***************************************************************************)
(* The checking evaluator raises no false alarm (PQEvaluator.cpp:425).     *)
(***************************************************************************)
THEOREM ChecksPass == Spec => CheckAccusesTheGuilty
<1> DEFINE Fair == Evaluated /\ thrown' = "inconsistent" =>
                     spoiled # {} \/ Frame(mlast) # Frame(mstructure')
<1>1. SumInv /\ [Next]_vars => [Fair]_vars
  <2> SUFFICES ASSUME SumInv, Next, Evaluated, thrown' = "inconsistent", spoiled = {}
               PROVE  Frame(mlast) # Frame(mstructure')
    OBVIOUS
  <2>1. PICK s \in Structures : Eval(s)
    BY DEF Next, Evaluated, SetStructure, SetConfig, SetMask, SetEvaluatorType, evaluator
  <2>2. EvalChecked(s)
    BY <2>1 DEF Eval, EvalCompletely, EvalReverted, EvalUpdated, EvalThrows, SumCompletely
  <2>3. Updated(s) # FullValue(s, mask, config) /\ FastPath(s) /\ mstructure' = s
    BY <2>2 DEF EvalChecked, TakeStructure
  <2> QED BY <2>3, UpdatedIsSum
<1>2. SumInv /\ [Next]_vars => SumInv'
  BY NextKeepsSum
<1> QED BY InitSum, <1>1, <1>2, PTL DEF Spec, CheckAccusesTheGuilty
=============================================================================
