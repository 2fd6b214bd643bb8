------------------------------- MODULE PDFParts -------------------------------
(***************************************************************************)
(* The parts of the PDF calculators: peak width models, peak profiles,     *)
(* baselines, envelopes and scattering factor tables.  Calculators hold    *)
(* them by pointer, make them by type from the class registry, and may     *)
(* share them; a part is changed through an attribute of any calculator    *)
(* that holds it, or by the user who has kept it.  A ticker in the part,   *)
(* gathered by ticker() of the calculator, is all that tells a calculator  *)
(* that its value is stale.                                                *)
(*                                                                         *)
(* One registry stands for those of the five base classes, whose types     *)
(* have different names.  A ticker is the set of calculators whose value   *)
(* ticker is older: a click makes it all of them, updateFrom is a union,   *)
(* and an evaluation takes the calculator out of each.                     *)
(***************************************************************************)
EXTENDS ClassRegistry, Sequences, FiniteSets

CONSTANTS
  Calculators, PDFs,   \* all of them, and those that are PDFCalculators
  KindOf,              \* type -> the role of its objects
  Standard,            \* type of a table -> symbol -> its standard factor
  Atom, Sources,       \* symbol of the atoms, and symbols it may be customised as
  NoValue,
  Values,              \* for attributes
  Slopes,              \* of a linear baseline, that suit the structures evaluated
  Epsilon, One,        \* least precision of a profile, and that of no peak at all
  MaxEdits             \* bound on calls other than evaluations

(* The types that PDF calculators make and derived classes with attributes. *)
ASSUME PartsAssumption ==
  /\ IsFiniteSet(Calculators) /\ PDFs \subseteq Calculators
  /\ DOMAIN KindOf = Types
  /\ {"pdf", "debye"} \subseteq {t \in Types : KindOf[t] = "calculator"}
  /\ {"jeong", "constant"} \subseteq {t \in Types : KindOf[t] = "width"}
  /\ {"scale", "qresolution"} \subseteq {t \in Types : KindOf[t] = "envelope"}
  /\ "gaussian" \in {t \in Types : KindOf[t] = "profile"}
  /\ "linear" \in {t \in Types : KindOf[t] = "baseline"}
  /\ "xray" \in DOMAIN RadiationType
  /\ \A t \in DOMAIN RadiationType : KindOf[t] = "table"
  /\ Epsilon \in Nat \ {0} /\ One \in Nat /\ MaxEdits \in Nat
  /\ Values \subseteq Nat /\ Slopes # {}

VARIABLES
  parts,     \* every object made so far: [type, data: parameter -> value]
  newer,     \* its ticker: the calculators with an older value
  uses,      \* calculator -> role -> index of the part, envelopes by type
  clicked,   \* calculators with a click of their own since the evaluation
  valued,    \* calculator -> the configuration its value was computed with
  edits

partvars == <<parts, newer, uses, clicked, valued, edits>>
vars == <<regvars, partvars>>

Roles == {"width", "profile", "baseline", "table"}

RolesOf(c) == IF c \in PDFs THEN Roles ELSE {"width", "table"}

-----------------------------------------------------------------------------
(* Parts.                                                                  *)

(* setPrecision of GaussianProfile: the bound follows the precision. *)
Precise(eps) ==
  LET eps1 == IF eps > Epsilon THEN eps ELSE Epsilon
  IN  [precision |-> eps1, bound |-> IF eps1 < One THEN One - eps1 ELSE 0]

(* Data of a new part; a profile starts with the least precision. *)
NewData(type) ==
  CASE type = "jeong" -> [delta |-> 0, qbroad |-> 0]
    [] type = "constant" -> [width |-> 0]
    [] KindOf[type] = "profile" -> Precise(Epsilon)
    [] type = "linear" -> [slope |-> 0]
    [] type = "scale" -> [scale |-> 1]
    [] type = "qresolution" -> [qdamp |-> 0]
    [] KindOf[type] = "calculator" -> [rmax |-> 0]
    [] KindOf[type] = "table" -> [custom |-> <<>>]
    [] OTHER -> <<>>

NewPart(type) == [type |-> type, data |-> NewData(type)]

(* The constructor of a profile sets its precision, and thereby clicks. *)
NewTicker(type) == IF KindOf[type] = "profile" THEN Calculators ELSE {}

(* Slip: copied from the scale envelope. *)
CopiedAttributes == {"scale"}

QResolutionAttributes == {"qdamp"}

(* Names of double attributes that a type registers. *)
AttributesOf(type) ==
  CASE type = "jeong" -> {"delta", "qbroad"}
    [] type = "constant" -> {"width", "uisowidth"}
    [] KindOf[type] = "profile" -> {"peakprecision"}
    [] type = "linear" -> {"slope"}
    [] type = "scale" -> {"scale"}
    [] type = "qresolution" -> QResolutionAttributes
    [] KindOf[type] = "calculator" -> {"rmax", "extendedrmax"}
    [] OTHER -> {}

ReadOnly == {"extendedrmax"}

(* Data after the setter of an attribute; Uiso is half of the square of the width. *)
Stored(data, name, v) ==
  CASE name = "peakprecision" -> Precise(v)
    [] name = "uisowidth" -> [width |-> CHOOSE w \in 0..v : w * w = 2 * v]
    [] OTHER -> [data EXCEPT ![name] = v]

(* Setters of these kinds click if they change anything. *)
Ticking == {"width", "profile", "table", "calculator"}

(* lookup: a custom symbol is resolved once, in the standard table. *)
Lookup(table, symbol) ==
  LET standard == Standard[table.type]
      custom == table.data.custom
      source == IF custom = <<>> THEN symbol ELSE custom[1]
      scale == IF custom = <<>> THEN 1 ELSE custom[2]
  IN  IF source \in DOMAIN standard THEN standard[source] * scale ELSE NoValue

-----------------------------------------------------------------------------
(* What a calculator sees of its parts.                                    *)

PartOf(c, role) == parts[uses[c][role]]

Envelopes(c) == {uses[c].envelopes[t] : t \in DOMAIN uses[c].envelopes}

(* Parts that accept leads a visitor to. *)
Visited(c) ==
  Envelopes(c) \cup {uses[c].own} \cup {uses[c][role] : role \in RolesOf(c) \ {"table"}}

Holders(c, name) == {i \in Visited(c) : name \in AttributesOf(parts[i].type)}

AttributeNames(c) == UNION {AttributesOf(parts[i].type) : i \in Visited(c)}

(* What the pair sum depends on. *)
Effective(c) ==
  [rmax |-> PartOf(c, "own").data.rmax,
   width |-> PartOf(c, "width"),
   factor |-> Lookup(PartOf(c, "table"), Atom),
   profile |-> IF c \in PDFs THEN PartOf(c, "profile") ELSE NoValue]

(* Slip: the ticker of the peak profile is forgotten. *)
StaleBesidesProfile(c) ==
  \/ c \in clicked
  \/ c \in newer[uses[c].own] \cup newer[uses[c].width] \cup newer[uses[c].table]

(* ticker(), compared with the ticker of the value. *)
Stale(c) ==
  \/ c \in clicked
  \/ c \in newer[uses[c].own]
  \/ \E role \in RolesOf(c) \ {"baseline"} : c \in newer[uses[c][role]]

-----------------------------------------------------------------------------
(* Actions.                                                                *)

Edit == edits < MaxEdits /\ edits' = edits + 1

(* resetValue: setting the slope of a linear baseline clicks nothing. *)
Sloped(c, slope) ==
  IF c \in PDFs /\ PartOf(c, "baseline").type = "linear"
  THEN [parts EXCEPT ![uses[c].baseline].data = [slope |-> slope]]
  ELSE parts

(* Of a fresh value, too.  The lookup of a factor may throw, which leaves   *)
(* everything as it is.                                                    *)
Eval(c) ==
  /\ Effective(c).factor # NoValue
  /\ \E slope \in Slopes : parts' = Sloped(c, slope)
  /\ valued' = [valued EXCEPT ![c] = Effective(c)]
  /\ clicked' = clicked \ {c}
  /\ newer' = [i \in DOMAIN newer |-> newer[i] \ {c}]
  /\ UNCHANGED <<regvars, uses, edits>>

EvalThrows(c) == Effective(c).factor = NoValue /\ UNCHANGED vars

(* Part i gets new data, and clicks if it does so at all and the data differ. *)
Change(i, data) ==
  /\ parts' = [parts EXCEPT ![i].data = data]
  /\ newer' = IF data # parts[i].data /\ KindOf[parts[i].type] \in Ticking
              THEN [newer EXCEPT ![i] = Calculators] ELSE newer
  /\ UNCHANGED <<regvars, uses, clicked, valued>>

(* setDoubleAttr: an unknown, a duplicate or a read-only name throws. *)
SetDoubleAttr(c, name, v) ==
  /\ Edit
  /\ Cardinality(Holders(c, name)) = 1
  /\ name \notin ReadOnly
  /\ LET i == CHOOSE i \in Holders(c, name) : TRUE
     IN  Change(i, Stored(parts[i].data, name, v))

(* setCustomAs, with a given scale or with that which gives value. *)
SetCustomAs(i, source) ==
  /\ Edit
  /\ Change(i, [custom |-> <<source, 1>>])

SetCustomValue(i, source, value) ==
  /\ Edit
  /\ source \in DOMAIN Standard[parts[i].type]
  /\ Change(i, [custom |-> <<source, value \div Standard[parts[i].type][source]>>])

(* resetCustom and resetAll, which do the same to the only symbol. *)
ResetCustom(i) ==
  /\ Edit
  /\ Change(i, [custom |-> <<>>])

(* setPeakWidthModel, setPeakProfile, setScatteringFactorTable, setBaseline. *)
SetPart(c, role, i) ==
  /\ Edit
  /\ role \in RolesOf(c) /\ KindOf[parts[i].type] = role
  /\ uses' = [uses EXCEPT ![c][role] = i]
  /\ clicked' = IF role # "baseline" /\ uses[c][role] # i THEN clicked \cup {c} ELSE clicked
  /\ UNCHANGED <<regvars, parts, newer, valued>>

(* The part that a calculator makes by type: a profile inherits the precision. *)
Made(c, type) ==
  IF KindOf[type] = "profile"
  THEN [type |-> type, data |-> Precise(PartOf(c, "profile").data.precision)]
  ELSE NewPart(type)

SetPartByType(c, role, name) ==
  /\ Edit
  /\ role \in RolesOf(c)
  /\ name \in DOMAIN registry /\ KindOf[TypeByName(name)] = role
  /\ parts' = Append(parts, Made(c, TypeByName(name)))
  /\ newer' = Append(newer, NewTicker(TypeByName(name)))
  /\ uses' = [uses EXCEPT ![c][role] = Len(parts) + 1]
  /\ clicked' = IF role # "baseline" THEN clicked \cup {c} ELSE clicked
  /\ UNCHANGED <<regvars, valued>>

(* Slip: any envelope replaces the first one. *)
FirstEnvelopeKey(c, type) ==
  IF DOMAIN uses[c].envelopes = {} THEN type ELSE CHOOSE t \in DOMAIN uses[c].envelopes : TRUE

EnvelopeKey(c, type) == type

WithEnvelope(c, i, type) ==
  [t \in DOMAIN uses[c].envelopes \cup {EnvelopeKey(c, type)} |->
     IF t = EnvelopeKey(c, type) THEN i ELSE uses[c].envelopes[t]]

WithoutEnvelopes(c, types) ==
  [t \in DOMAIN uses[c].envelopes \ types |-> uses[c].envelopes[t]]

AddEnvelope(c, i) ==
  /\ Edit
  /\ KindOf[parts[i].type] = "envelope"
  /\ uses' = [uses EXCEPT ![c].envelopes = WithEnvelope(c, i, parts[i].type)]
  /\ UNCHANGED <<regvars, parts, newer, clicked, valued>>

AddEnvelopeByType(c, name) ==
  /\ Edit
  /\ name \in DOMAIN registry /\ KindOf[TypeByName(name)] = "envelope"
  /\ parts' = Append(parts, NewPart(TypeByName(name)))
  /\ newer' = Append(newer, {})
  /\ uses' = [uses EXCEPT ![c].envelopes = WithEnvelope(c, Len(parts) + 1, TypeByName(name))]
  /\ UNCHANGED <<regvars, clicked, valued>>

(* popEnvelope, popEnvelopeByType and clearEnvelopes, which click no ticker. *)
PopEnvelopes(c, types) ==
  /\ Edit
  /\ uses' = [uses EXCEPT ![c].envelopes = WithoutEnvelopes(c, types)]
  /\ UNCHANGED <<regvars, parts, newer, clicked, valued>>

PopEnvelope(c, i) ==
  PopEnvelopes(c, {t \in DOMAIN uses[c].envelopes : uses[c].envelopes[t] = i})

EditRegistry ==
  /\ Edit
  /\ RegistryNext
  /\ UNCHANGED <<parts, newer, uses, clicked, valued>>

-----------------------------------------------------------------------------
(* The constructors give every calculator six parts, a DebyePDFCalculator two in vain. *)
DefaultParts(c) ==
  <<NewPart(IF c \in PDFs THEN "pdf" ELSE "debye"), NewPart("jeong"), NewPart("xray"),
    NewPart("scale"), NewPart("gaussian"), NewPart("linear")>>

Built == CHOOSE order \in [1..Cardinality(Calculators) -> Calculators] :
           \A c \in Calculators : \E k \in DOMAIN order : order[k] = c

DefaultUses(c, first) ==
  [own |-> first, width |-> first + 1, table |-> first + 2,
   envelopes |-> [t \in {"scale"} |-> first + 3],
   profile |-> IF c \in PDFs THEN first + 4 ELSE 0,
   baseline |-> IF c \in PDFs THEN first + 5 ELSE 0]

(* Static initialisers have registered every class once. *)
Registered ==
  [n \in {t \in Types : KindOf[t] # "calculator"}
         \cup {RadiationType[t] : t \in DOMAIN RadiationType} |->
     [type |-> IF n \in Types THEN n ELSE CHOOSE t \in DOMAIN RadiationType : RadiationType[t] = n,
      number |-> 1]]

Init ==
  /\ registry = Registered
  /\ made = [t \in Types |-> IF t \in DOMAIN Registered THEN 1 ELSE Generations]
  /\ parts = [i \in 1..6 * Cardinality(Calculators) |->
                DefaultParts(Built[(i + 5) \div 6])[((i - 1) % 6) + 1]]
  /\ uses = [c \in Calculators |->
               DefaultUses(c, 6 * (CHOOSE k \in DOMAIN Built : Built[k] = c) - 5)]
  /\ newer = [i \in DOMAIN parts |-> Calculators]
  /\ clicked = Calculators
  /\ valued = [c \in Calculators |-> NoValue]
  /\ edits = 0

Tables == {i \in DOMAIN parts : KindOf[parts[i].type] = "table"}

(* Calls besides evaluations are bounded. *)
Next ==
  \/ \E c \in Calculators : Eval(c) \/ EvalThrows(c)
  \/ edits < MaxEdits /\
     \/ \E c \in Calculators :
          \/ \E name \in AttributeNames(c), v \in Values : SetDoubleAttr(c, name, v)
          \/ \E role \in Roles, i \in DOMAIN parts : SetPart(c, role, i)
          \/ \E role \in Roles, name \in Names : SetPartByType(c, role, name)
          \/ \E i \in DOMAIN parts : AddEnvelope(c, i) \/ PopEnvelope(c, i)
          \/ \E name \in Names : AddEnvelopeByType(c, name)
          \/ \E types \in SUBSET DOMAIN uses[c].envelopes : PopEnvelopes(c, types)
     \/ \E i \in Tables, source \in Sources :
          \/ SetCustomAs(i, source)
          \/ \E v \in Values : SetCustomValue(i, source, v)
     \/ \E i \in Tables : ResetCustom(i)
     \/ EditRegistry

Spec == Init /\ [][Next]_vars

-----------------------------------------------------------------------------
(* Properties.                                                             *)

TypeOK ==
  /\ RegistryTypeOK
  /\ DOMAIN newer = DOMAIN parts
  /\ \A c \in Calculators :
       /\ \A role \in RolesOf(c) : KindOf[PartOf(c, role).type] = role
       /\ \A t \in DOMAIN uses[c].envelopes : parts[uses[c].envelopes[t]].type = t
  /\ edits \in 0..MaxEdits

(***************************************************************************)
(* A value that no ticker calls stale was computed with the parts as they  *)
(* are now, also if a part has been changed through another calculator,    *)
(* has been taken out and changed and put back, or looks up another source *)
(* (PDFCalculator.cpp:105, PeakWidthModel.cpp:37).                         *)
(***************************************************************************)
FreshConfig ==
  \A c \in Calculators :
    ~Stale(c) => valued[c] = Effective(c)

(***************************************************************************)
(* Whatever parts a calculator has, no two that accept visits have an      *)
(* attribute in common: each name it lists leads to one, and getDoubleAttr *)
(* and setDoubleAttr never find a duplicate (Attributes.cpp:81).           *)
(***************************************************************************)
AttributesResolve ==
  \A c \in Calculators :
    \A i, j \in Visited(c) :
      i # j => AttributesOf(parts[i].type) \cap AttributesOf(parts[j].type) = {}
=============================================================================
