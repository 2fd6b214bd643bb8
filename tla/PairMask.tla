------------------------------ MODULE PairMask -------------------------------
(***************************************************************************)
(* The mask of a PairQuantity: which pairs of sites a sum skips.           *)
(*                                                                         *)
(* A default applies to every pair except the inverted ones.  Index masks  *)
(* are entered for one pair or for all pairs of a site; type masks for two *)
(* atom types or for all pairs of a type.  Masks "for all" and type masks  *)
(* are spread to pairs of indices whenever a structure is set.             *)
(*                                                                         *)
(* The masks "for all" are kept in unordered maps.  Where two of them      *)
(* disagree about a pair, the order of iteration decides; it is stable as  *)
(* long as nothing is inserted.                                            *)
(***************************************************************************)
EXTENDS Integers, Sequences, FiniteSets

CONSTANTS
  AtomTypes,    \* symbols of atom types
  All,          \* ALLATOMSSTR
  Indices,      \* site indices users pass
  Structures    \* structures they evaluate, each the sequence of its atom types

ASSUME MaskAssumption ==
  /\ All \notin AtomTypes
  /\ Indices \subseteq Nat
  /\ Structures \subseteq Seq(AtomTypes)

VARIABLES
  mstructure,         \* atom types of the structure
  mdefaultpairmask,
  minvertpairmask,    \* pairs of indices with the opposite of the default
  msiteallmask,       \* masks of all pairs of a site
  siteorder,          \* the order in which msiteallmask is iterated
  mtypemask,          \* masks of pairs of types, or of a type and All
  typeorder,          \* the order of the types whose partner is All
  fresh,              \* the ticker has not clicked since the last evaluation
  used                \* history: the pairs that evaluation skipped, if fresh

masks == <<mdefaultpairmask, minvertpairmask, msiteallmask, siteorder, mtypemask, typeorder>>
maskvars == <<mstructure, masks, fresh, used>>

-----------------------------------------------------------------------------
Pair(i, j) == {i, j}

Sites(s) == 0..Len(s) - 1

TypeOf(s, i) == s[i + 1]

TypesOf(s, p) == {TypeOf(s, i) : i \in p}

PairsOf(set) == {Pair(i, j) : i, j \in set}

Nothing == [k \in {} |-> TRUE]

With(f, k, m) == [x \in DOMAIN f \cup {k} |-> IF x = k THEN m ELSE f[x]]

Without(f, set) == [x \in DOMAIN f \ set |-> f[x]]

(* Every order in which the elements of a finite set can be iterated. *)
Orders(set) ==
  {o \in [1..Cardinality(set) -> set] : \A m, n \in DOMAIN o : o[m] = o[n] => m = n}

(* Elements come in o in the order they have in another order. *)
Agrees(o, order) ==
  \A m, n \in DOMAIN o : m < n =>
    \E k, l \in DOMAIN order : k < l /\ order[k] = o[m] /\ order[l] = o[n]

(* Insertion may rehash the map, removal keeps the order of the others. *)
Reordered(order, set) ==
  IF \A x \in set : \E n \in DOMAIN order : order[n] = x
    THEN {o \in Orders(set) : Agrees(o, order)}
    ELSE Orders(set)

AllKey(a) == Pair(a, All)

AllTypes(types) == {a \in AtomTypes : AllKey(a) \in DOMAIN types}

(* getPairMask *)
PairMaskOf(i, j) ==
  IF Pair(i, j) \in minvertpairmask THEN ~mdefaultpairmask ELSE mdefaultpairmask

(* setPairMaskValue for each of the pairs *)
Marked(pairs, m) ==
  IF m = mdefaultpairmask THEN minvertpairmask \ pairs ELSE minvertpairmask \cup pairs

-----------------------------------------------------------------------------
(* updateMaskData *)

(***************************************************************************)
(* The masks of all pairs of a site, one after the other: the last one     *)
(* that covers a pair decides.  An index past the end of the structure is  *)
(* paired with the sites there are.  Pairs that no mask covers stay as     *)
(* they are, those left over from a larger structure among them.           *)
(***************************************************************************)
Covering(s, p) ==
  {n \in DOMAIN siteorder : \E j \in Sites(s) : p = Pair(siteorder[n], j)}

SiteMaskOf(s, p) ==
  msiteallmask[siteorder[CHOOSE n \in Covering(s, p) : \A o \in Covering(s, p) : o =< n]]

(* Slip: pairs beyond the structure are forgotten. *)
SpreadSitesOfStructure(s) ==
  {p \in PairsOf(Sites(s)) :
     IF Covering(s, p) = {} THEN p \in minvertpairmask
     ELSE SiteMaskOf(s, p) # mdefaultpairmask}

SpreadSites(s) ==
  {p \in minvertpairmask \cup PairsOf(Indices \cup Sites(s)) :
     IF Covering(s, p) = {} THEN p \in minvertpairmask
     ELSE SiteMaskOf(s, p) # mdefaultpairmask}

(***************************************************************************)
(* The masks with All come before those of two types, and in the reverse   *)
(* of the order of iteration: the first one found for a pair decides.      *)
(***************************************************************************)
OrderedIn(s, p) == {n \in DOMAIN typeorder : \E i \in p : TypeOf(s, i) = typeorder[n]}

(* Slip: the masks with All come last. *)
TypeMaskOfAllLast(s, p) ==
  IF OrderedIn(s, p) # {}
    THEN mtypemask[AllKey(typeorder[CHOOSE n \in OrderedIn(s, p) : \A o \in OrderedIn(s, p) : n =< o])]
  ELSE IF TypesOf(s, p) \in DOMAIN mtypemask THEN mtypemask[TypesOf(s, p)]
  ELSE mdefaultpairmask

TypeMaskOf(s, p) ==
  LET key == TypesOf(s, p)
  IN  IF key \in DOMAIN mtypemask THEN mtypemask[key]
      ELSE IF OrderedIn(s, p) = {} THEN mdefaultpairmask
      ELSE mtypemask[AllKey(typeorder[CHOOSE n \in OrderedIn(s, p) : \A o \in OrderedIn(s, p) : n =< o])]

SpreadTypes(s) == {p \in PairsOf(Sites(s)) : TypeMaskOf(s, p) # mdefaultpairmask}

Spread(s) == IF mtypemask = Nothing THEN SpreadSites(s) ELSE SpreadTypes(s)

(* The pairs of s that are skipped, given the inverted pairs. *)
Skipped(s, inverted) ==
  {p \in PairsOf(Sites(s)) : (p \in inverted) = mdefaultpairmask}

-----------------------------------------------------------------------------
(* The setters.  Each clicks the ticker where it found something modified. *)

ClickIf(modified) ==
  /\ fresh' = (fresh /\ ~modified)
  /\ used' = IF fresh' THEN used ELSE {}

(* Slip: a change of the default alone goes unnoticed. *)
MaskAllPairsSilently(m) ==
  /\ ClickIf(~ /\ minvertpairmask = {} /\ msiteallmask = Nothing /\ mtypemask = Nothing)
  /\ mdefaultpairmask' = m
  /\ minvertpairmask' = {}
  /\ msiteallmask' = Nothing /\ siteorder' = <<>>
  /\ mtypemask' = Nothing /\ typeorder' = <<>>
  /\ UNCHANGED mstructure

MaskAllPairs(m) ==
  /\ ClickIf(~ /\ minvertpairmask = {} /\ msiteallmask = Nothing /\ mtypemask = Nothing
               /\ mdefaultpairmask = m)
  /\ mdefaultpairmask' = m
  /\ minvertpairmask' = {}
  /\ msiteallmask' = Nothing /\ siteorder' = <<>>
  /\ mtypemask' = Nothing /\ typeorder' = <<>>
  /\ UNCHANGED mstructure

InvertMask ==
  /\ ClickIf(TRUE)
  /\ mdefaultpairmask' = ~mdefaultpairmask
  /\ msiteallmask' = [k \in DOMAIN msiteallmask |-> ~msiteallmask[k]]
  /\ mtypemask' = [k \in DOMAIN mtypemask |-> ~mtypemask[k]]
  /\ UNCHANGED <<mstructure, minvertpairmask, siteorder, typeorder>>

(* Slip: the mask of all pairs of the second site stays. *)
SetPairMaskOneSided(i, j, m) ==
  LET contrary == {k \in {i} \cap DOMAIN msiteallmask : msiteallmask[k] # m}
  IN  /\ ClickIf(mtypemask # Nothing \/ contrary # {} \/ PairMaskOf(i, j) # m)
      /\ minvertpairmask' = Marked({Pair(i, j)}, m)
      /\ msiteallmask' = Without(msiteallmask, contrary)
      /\ siteorder' \in Reordered(siteorder, DOMAIN msiteallmask')
      /\ mtypemask' = Nothing /\ typeorder' = <<>>
      /\ UNCHANGED <<mstructure, mdefaultpairmask>>

(* setPairMask of two indices: masks of all pairs that contradict it go. *)
SetPairMask(i, j, m) ==
  LET contrary == {k \in {i, j} \cap DOMAIN msiteallmask : msiteallmask[k] # m}
  IN  /\ UNCHANGED <<mstructure, mdefaultpairmask>>
      /\ mtypemask' = Nothing /\ typeorder' = <<>>
      /\ ClickIf(mtypemask # Nothing \/ contrary # {} \/ PairMaskOf(i, j) # m)
      /\ minvertpairmask' = Marked({Pair(i, j)}, m)
      /\ msiteallmask' = Without(msiteallmask, contrary)
      /\ siteorder' \in Reordered(siteorder, DOMAIN msiteallmask')

(* setPairMask of an index and ALLATOMSINT *)
SetSiteMask(k, m) ==
  /\ ClickIf(\/ mtypemask # Nothing
             \/ k \notin DOMAIN msiteallmask
             \/ msiteallmask[k] # m)
  /\ minvertpairmask' = Marked({Pair(k, l) : l \in Sites(mstructure)}, m)
  /\ msiteallmask' = With(msiteallmask, k, m)
  /\ siteorder' \in Reordered(siteorder, DOMAIN msiteallmask')
  /\ mtypemask' = Nothing /\ typeorder' = <<>>
  /\ UNCHANGED <<mstructure, mdefaultpairmask>>

(* Slip: masks of all pairs of a site are not cleaned up. *)
SetTypeMaskOnTop(a, b, m) ==
  LET key == Pair(a, b)
      of(t) == {k \in DOMAIN mtypemask \ {key} : t \in k}
      erased == IF b = All THEN of(a) ELSE {}
  IN  /\ ClickIf(\/ key \notin DOMAIN mtypemask
                 \/ \E k \in erased \cup {key} : mtypemask[k] # m)
      /\ mtypemask' = With(Without(mtypemask, erased), key, m)
      /\ typeorder' \in IF key \in DOMAIN mtypemask
                          THEN {typeorder} ELSE Orders(AllTypes(mtypemask'))
      /\ UNCHANGED <<mstructure, mdefaultpairmask, minvertpairmask, msiteallmask, siteorder>>

(***************************************************************************)
(* setTypeMask.  With All, other masks of the type are erased; those that  *)
(* agree with the new one do not count as modified.  The pairs of indices  *)
(* are left for updateMaskData.                                            *)
(***************************************************************************)
SetTypeMask(a, b, m) ==
  LET key == Pair(a, b)
      of(t) == {k \in DOMAIN mtypemask \ {key} : t \in k}
      erased == IF b = All THEN of(a) ELSE {}
  IN  /\ UNCHANGED <<mstructure, mdefaultpairmask, minvertpairmask>>
      /\ msiteallmask' = Nothing /\ siteorder' = <<>>
      /\ ClickIf(\/ key \notin DOMAIN mtypemask
                 \/ \E k \in erased \cup {key} : mtypemask[k] # m)
      /\ mtypemask' = With(Without(mtypemask, erased), key, m)
      /\ typeorder' \in IF key \in DOMAIN mtypemask
                          THEN {typeorder} ELSE Orders(AllTypes(mtypemask'))

(* setStructure in an evaluation: the mask is spread, then the sum taken. *)
EvaluateMasked(s) ==
  /\ mstructure' = s
  /\ minvertpairmask' = Spread(s)
  /\ used' = Skipped(s, Spread(s))
  /\ fresh' = TRUE
  /\ UNCHANGED <<mdefaultpairmask, msiteallmask, siteorder, mtypemask, typeorder>>

-----------------------------------------------------------------------------
MaskInit ==
  /\ mstructure = <<>>
  /\ mdefaultpairmask = TRUE
  /\ minvertpairmask = {}
  /\ msiteallmask = Nothing /\ siteorder = <<>>
  /\ mtypemask = Nothing /\ typeorder = <<>>
  /\ fresh = FALSE
  /\ used = {}

MaskNext ==
  \/ \E m \in BOOLEAN : MaskAllPairs(m)
  \/ InvertMask
  \/ \E i, j \in Indices, m \in BOOLEAN : SetPairMask(i, j, m)
  \/ \E k \in Indices, m \in BOOLEAN : SetSiteMask(k, m)
  \/ \E a \in AtomTypes, b \in AtomTypes \cup {All}, m \in BOOLEAN : SetTypeMask(a, b, m)
  \/ \E s \in Structures : EvaluateMasked(s)

MaskSpec == MaskInit /\ [][MaskNext]_maskvars

-----------------------------------------------------------------------------
TypeKeys == {Pair(a, b) : a \in AtomTypes, b \in AtomTypes \cup {All}}

MaskTypeOK ==
  /\ mstructure \in Structures \cup {<<>>}
  /\ mdefaultpairmask \in BOOLEAN
  /\ minvertpairmask \subseteq PairsOf(Indices \cup UNION {Sites(s) : s \in Structures})
  /\ DOMAIN msiteallmask \subseteq Indices
  /\ DOMAIN mtypemask \subseteq TypeKeys
  /\ siteorder \in Orders(DOMAIN msiteallmask)
  /\ typeorder \in Orders(AllTypes(mtypemask))
  /\ mtypemask # Nothing => msiteallmask = Nothing
  /\ fresh \in BOOLEAN

(* Two masks "for all" disagree about the pairs that both of them cover. *)
Disputed ==
  \/ \E k, l \in DOMAIN msiteallmask : msiteallmask[k] # msiteallmask[l]
  \/ \E a, b \in AllTypes(mtypemask) : mtypemask[AllKey(a)] # mtypemask[AllKey(b)]

(* What the mask skips now, and what it skips once it is spread again. *)
SameAsUsed ==
  /\ Skipped(mstructure, minvertpairmask) = used
  /\ Skipped(mstructure, Spread(mstructure)) = used

(***************************************************************************)
(* As long as the ticker has not clicked, the mask that the removal loop   *)
(* reads (PQEvaluator.cpp:233) and the mask that its setStructure spreads  *)
(* for the addition loop are both the one that the value was computed      *)
(* with, unless masks are in dispute.                                      *)
(***************************************************************************)
FreshMaskIsUsed == fresh /\ ~Disputed => SameAsUsed

(***************************************************************************)
(* The last word on a pair of indices or of types is kept, whatever masks  *)
(* "for all" there are, in whatever order they are iterated, and in every  *)
(* structure the mask is spread over (PairQuantity.cpp:247).               *)
(***************************************************************************)
LastWordIsKept ==
  [][\A m \in BOOLEAN :
       /\ \A i, j \in Indices : SetPairMask(i, j, m) =>
            /\ PairMaskOf(i, j)' = m
            /\ \A s \in Structures : Pair(i, j) \in Spread(s)' <=> m # mdefaultpairmask
       /\ \A a, b \in AtomTypes : SetTypeMask(a, b, m) =>
            \A s \in Structures :
              {p \in Spread(s)' : TypesOf(s, p) = Pair(a, b)}
                = IF m = mdefaultpairmask THEN {}
                  ELSE {p \in PairsOf(Sites(s)) : TypesOf(s, p) = Pair(a, b)}]_maskvars

(***************************************************************************)
(* An evaluation does not click, so it may not change what is skipped in   *)
(* any structure, evaluated before or not: a pair masked in a larger       *)
(* structure is still masked when that comes back after a smaller one      *)
(* (PairQuantity.cpp:426-436, PDFCalculator.cpp:709-715), and a mask of    *)
(* all pairs of a site covers the sites of every structure.                *)
(***************************************************************************)
EvaluationKeepsMasks ==
  [][\A t \in Structures : EvaluateMasked(t) =>
       \A s \in Structures : Skipped(s, Spread(s))' = Skipped(s, Spread(s))]_maskvars

(***************************************************************************)
(* getTypeMask, which looks its arguments up one after the other, and      *)
(* updateMaskData, which spreads the masks one over the other, agree on    *)
(* the pairs of each two types, unless masks are in dispute.               *)
(***************************************************************************)
GetTypeMask(a, b) ==
  LET held == {k \in {Pair(a, b), AllKey(a), AllKey(b)} : k \in DOMAIN mtypemask}
  IN  IF Pair(a, b) \in held THEN mtypemask[Pair(a, b)]
      ELSE IF AllKey(a) \in held THEN mtypemask[AllKey(a)]
      ELSE IF AllKey(b) \in held THEN mtypemask[AllKey(b)]
      ELSE mdefaultpairmask

TypeMaskIsSpread ==
  mtypemask # Nothing /\ ~Disputed =>
    \A s \in Structures : \A i, j \in Sites(s) :
      Pair(i, j) \in Spread(s)
        <=> GetTypeMask(TypeOf(s, i), TypeOf(s, j)) # mdefaultpairmask

(***************************************************************************)
(* PairQuantity.hpp:80: the ticker tells of any update in configuration,   *)
(* so also where masks are in dispute.                                     *)
(***************************************************************************)
MaskUpdatesClick == fresh => Skipped(mstructure, Spread(mstructure)) = used
=============================================================================
