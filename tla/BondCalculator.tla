--------------------------- MODULE BondCalculator ----------------------------
(***************************************************************************)
(* BondCalculator: the sorted list of bonds within rmax and some cones.    *)
(*                                                                         *)
(* Nothing can be subtracted from a list, so contributions with a negative *)
(* scale are listed as bonds to pop, the others as bonds to add, and       *)
(* finishValue, called by eval after the evaluator is done, applies both   *)
(* lists to the bonds.  A worker of a parallel run only sorts them: its    *)
(* data are the two lists, which a master merges and applies.              *)
(*                                                                         *)
(* Atoms lie on a line.  A bond is <<distance, site0, site1, direction>>.  *)
(***************************************************************************)
EXTENDS Shares

CONSTANTS
  Structures,   \* the structures evaluated
  Shared,       \* those evaluated in parallel
  NoLast,       \* the null mlast_structure
  OwnConfig,    \* what customPQConfig sets, of the structures that do so
  Ranges,       \* values of rmax
  DefaultRmax,  \* what the constructor sets
  Cones,        \* sets of unit vectors inside of a cone
  Cpus,         \* indices of calculators, 0 .. some number
  MaxPopped     \* bound on the list of bonds to pop that a worker keeps

Configs == [rmax : Ranges, cones : SUBSET Cones]

BondAssumption ==
  /\ FullSum /\ FixedSites
  /\ NoLast \notin Structures /\ Shared \subseteq Structures
  /\ \A s \in Structures : /\ CountSites(s) \in Nat /\ Sites(s) = 1..CountSites(s)
                           /\ \A i \in Sites(s) : s.atoms[i].at \in Int
                           /\ Frame(s).cell = NoCell
  /\ IsFiniteSet(Cpus) /\ Cpus = 0..Cardinality(Cpus) - 1
  /\ Ranges \subseteq Nat /\ DefaultRmax \in Ranges
  /\ Cones \subseteq SUBSET {-1, 1}
  /\ MaxPopped \in Nat
  /\ OwnConfig \in Configs

VARIABLES
  ncpu,     \* number of CPUs of this run; calculators beyond it are idle
  config,   \* rmax and the filters of each calculator
  fresh,    \* whether mticker < mvalue_ticker
  evtype,   \* type of the evaluator
  mlast,    \* its mlast_structure
  lists,    \* mbonds, maddbonds, mpopbonds
  stash,    \* mstashedvalue
  thrown,   \* whether the last evaluation ended in an exception
  aborted,  \* history: the assertion in finishValue has failed
  whole,    \* history: the last evaluation was a complete one
  master    \* the calculator that merges

calculator == <<config, fresh, evtype, mlast, lists, stash>>
history == <<thrown, aborted, whole>>
vars == <<ncpu, calculator, history, master>>

-----------------------------------------------------------------------------
(* Lists of bonds.                                                         *)

Less(b, c) == \E k \in 1..4 : b[k] < c[k] /\ \A l \in 1..k - 1 : b[l] = c[l]

Precede(list, i, j) == Less(list[i], list[j]) \/ (list[i] = list[j] /\ i < j)

(* std::sort *)
Sorted(list) ==
  LET place == [i \in DOMAIN list |-> Cardinality({j \in DOMAIN list : Precede(list, j, i)})]
  IN  [k \in DOMAIN list |-> list[CHOOSE i \in DOMAIN list : place[i] = k - 1]]

(* From the i and j first bonds of two lists, bmerge moves the last of the former. *)
TakesFirst(dst, src, i, j) == i > 0 /\ (j = 0 \/ ~Less(dst[i], src[j]))

(* The n-th bond to be moved is of dst or src, of which i and the rest are left. *)
MoveOne(dst, src, n, i) ==
  IF TakesFirst(dst, src, i, Len(dst) + Len(src) - (n - 1) - i) THEN i - 1 ELSE i

(* How many bonds of dst are left when n bonds have been moved to the end. *)
Left(dst, src) ==
  LET left[n \in 0..Len(dst) + Len(src)] ==
        IF n = 0 THEN Len(dst) ELSE MoveOne(dst, src, n, left[n - 1])
  IN  left

Merge(dst, src) ==
  LET total == Len(dst) + Len(src)
      left == Left(dst, src)
  IN  [k \in 1..total |->
         LET i == left[total - k] IN IF TakesFirst(dst, src, i, k - i) THEN dst[i] ELSE src[k - i]]

(* The elements of a list at certain indices. *)
Picked(list, set) ==
  [k \in 1..Cardinality(set) |->
     list[CHOOSE i \in set : Rank(set, i) = k - 1]]

(* The first bond to pop, from the j-th on, that is not before b. *)
Reached(popped, j, b) ==
  CHOOSE m \in j..Len(popped) + 1 :
    /\ m > Len(popped) \/ ~Less(popped[m], b)
    /\ \A l \in j..m - 1 : Less(popped[l], b)

Hit(popped, m, b) == m =< Len(popped) /\ ~Less(b, popped[m])

(* One more bond to pop is used up if it is b; n have been so far. *)
UseFor(popped, n, b) ==
  LET m == Reached(popped, n + 1, b) IN IF Hit(popped, m, b) THEN m ELSE m - 1

(* How many bonds to pop are used up when i bonds of the list are through. *)
Used(list, popped) ==
  LET used[i \in 0..Len(list)] == IF i = 0 THEN 0 ELSE UseFor(popped, used[i - 1], list[i])
  IN  used

(* std::set_difference *)
SetDifference(list, popped) ==
  LET used == Used(list, popped)
  IN  Picked(list, {i \in DOMAIN list :
                      ~Hit(popped, Reached(popped, used[i - 1] + 1, list[i]), list[i])})

NoLists == [bonds |-> <<>>, add |-> <<>>, pop |-> <<>>]

NoStash == [bonds |-> <<>>, pop |-> <<>>]

(* Slip: the added bonds are not sorted. *)
FinishedUnsorted(l, parallel) ==
  IF parallel THEN [l EXCEPT !.pop = Sorted(@)]
  ELSE [NoLists EXCEPT !.bonds = Merge(SetDifference(l.bonds, Sorted(l.pop)), l.add)]

(* The lists after finishValue; mvalue is the distances of the bonds. *)
Finished(l, parallel) ==
  IF parallel THEN [l EXCEPT !.add = Sorted(@), !.pop = Sorted(@)]
  ELSE [NoLists EXCEPT !.bonds = Merge(SetDifference(l.bonds, Sorted(l.pop)), Sorted(l.add))]

(* assert(mpopbonds.size() <= mbonds.size()) *)
AssertionFails(l) == Len(l.pop) > Len(l.bonds)

-----------------------------------------------------------------------------
(* Bonds of a structure.                                                   *)

Distance(s, v) ==
  LET d == s.atoms[v[2]].at - s.atoms[v[1]].at IN IF d < 0 THEN -d ELSE d

Direction(s, v) == IF s.atoms[v[2]].at < s.atoms[v[1]].at THEN -1 ELSE 1

EntryFrom(s, v) == <<Distance(s, v), v[1], v[2], Distance(s, v) * Direction(s, v)>>

CheckConeFilters(cones, unit) == cones = {} \/ \E cone \in cones : unit \in cone

(* What the generator goes through. *)
InRange(s, visits, c) == {v \in Seen(s, s, NoMask, visits) : Distance(s, v) =< c.rmax}

Passed(s, bonds, c) == {v \in bonds : CheckConeFilters(c.cones, Direction(s, v))}

(* What addPairContribution appends to a list, in the order of the loops. *)
Listed(s, bonds, c) ==
  LET passed == Passed(s, bonds, c)
  IN  [k \in 1..Cardinality(passed) |->
         EntryFrom(s, CHOOSE v \in passed : BondPosition(passed, v) = k - 1)]

(* The sorted list of all bonds of s. *)
AllBonds(s, c) == Sorted(Listed(s, InRange(s, AllVisits(s), c), c))

CompleteList(w, s, c) ==
  Listed(s, ShareOfAll(s, InRange(s, AllVisits(s), c), w, ncpu), c)

(* The lists of w when the loops of an update of s are through. *)
UpdatedLists(w, s) ==
  LET c == config[w]
      last == mlast[w]
      d == Diff(last, s)
      popped == ShareOfPopped(last, d.pop, InRange(last, PopVisits(last, d.pop), c), w, ncpu)
      added == ShareOfAdded(last, d.pop, s, d.add, InRange(s, AddVisits(s, d.add), c), w, ncpu)
  IN  [bonds |-> lists[w].bonds,
       pop   |-> lists[w].pop \o Listed(last, popped, c),
       add   |-> Listed(s, added, c)]

-----------------------------------------------------------------------------
(* Evaluation.                                                             *)

(* The configuration after customPQConfig of s. *)
Asked(s, c) == IF Requested(s, KeepConfig) = KeepConfig THEN c ELSE OwnConfig

Parallel == ncpu > 1

Active == {w \in Cpus : w < ncpu}

FastPath(w, s) ==
  /\ evtype[w] # "BASIC"
  /\ fresh[w]
  /\ mlast[w] # NoLast
  /\ LET d == Diff(mlast[w], s)
     IN  AllowsFastUpdate(CountSites(mlast[w]), Cardinality(d.pop)) /\ d.method = "SIDEBYSIDE"

Finish(w, l) ==
  /\ lists' = [lists EXCEPT ![w] = Finished(l, Parallel)]
  /\ aborted' = [aborted EXCEPT ![w] = @ \/ AssertionFails(l)]

(* resetValue empties the lists, the loop fills the one to add. *)
SumCompletely(w, s) ==
  /\ config' = [config EXCEPT ![w] = Asked(s, @)]
  /\ fresh' = [fresh EXCEPT ![w] = TRUE]
  /\ mlast' = [mlast EXCEPT ![w] = IF evtype[w] = "BASIC" THEN @ ELSE s]
  /\ Finish(w, [NoLists EXCEPT !.add = CompleteList(w, s, config'[w])])
  /\ thrown' = [thrown EXCEPT ![w] = FALSE]
  /\ whole' = [whole EXCEPT ![w] = TRUE]
  /\ UNCHANGED <<ncpu, evtype, master>>

EvalCompletely(w, s) ==
  /\ ~FastPath(w, s)
  /\ SumCompletely(w, s)
  /\ UNCHANGED stash

(***************************************************************************)
(* setStructure changed the configuration after the bonds had been stashed *)
(* and nobody restores them: they stay in the stash.                       *)
(***************************************************************************)
EvalReverted(w, s) ==
  /\ Asked(s, config[w]) # config[w]
  /\ FastPath(w, s)
  /\ SumCompletely(w, s)
  /\ LET l == UpdatedLists(w, s)
     IN  stash' = [stash EXCEPT ![w] = [bonds |-> l.bonds, pop |-> l.pop]]

EvalUpdated(w, s) ==
  /\ evtype[w] = "OPTIMIZED"
  /\ FastPath(w, s)
  /\ Asked(s, config[w]) = config[w]
  /\ LET l == UpdatedLists(w, s)
     IN  /\ Parallel => Len(l.pop) =< MaxPopped
         /\ Finish(w, l)
  /\ stash' = [stash EXCEPT ![w] = NoStash]
  /\ mlast' = [mlast EXCEPT ![w] = s]
  /\ thrown' = [thrown EXCEPT ![w] = FALSE]
  /\ whole' = [whole EXCEPT ![w] = FALSE]
  /\ UNCHANGED <<ncpu, config, fresh, evtype, master>>

(***************************************************************************)
(* The checking evaluator saves the results of the update, sums anew and   *)
(* compares, all before finishValue: the bonds saved are those from before *)
(* the update, and the complete sum has none yet.                          *)
(***************************************************************************)
EvalChecked(w, s) ==
  /\ evtype[w] = "CHECK"
  /\ FastPath(w, s)
  /\ Asked(s, config[w]) = config[w]
  /\ LET saved == UpdatedLists(w, s).bonds
         l == [NoLists EXCEPT !.add = CompleteList(w, s, config[w])]
     IN  IF saved = NoLists.bonds
           THEN Finish(w, l) /\ thrown' = [thrown EXCEPT ![w] = FALSE]
           ELSE /\ lists' = [lists EXCEPT ![w] = l]
                /\ thrown' = [thrown EXCEPT ![w] = TRUE]
                /\ UNCHANGED aborted
  /\ stash' = [stash EXCEPT ![w] = NoStash]
  /\ mlast' = [mlast EXCEPT ![w] = s]
  /\ whole' = [whole EXCEPT ![w] = TRUE]
  /\ UNCHANGED <<ncpu, config, fresh, evtype, master>>

-----------------------------------------------------------------------------
(* The other calls on a calculator.  The driver of a parallel run makes    *)
(* them before it copies the calculator to the workers.                    *)

SetConfig(w, c, clicks) ==
  /\ ~Parallel
  /\ config' = [config EXCEPT ![w] = c]
  /\ fresh' = [fresh EXCEPT ![w] = @ /\ ~clicks]
  /\ UNCHANGED <<ncpu, evtype, mlast, lists, stash, history, master>>

SetRmax(w, r) == SetConfig(w, [config[w] EXCEPT !.rmax = r], r # config[w].rmax)

FilterCone(w, cone) ==
  SetConfig(w, [config[w] EXCEPT !.cones = @ \cup {cone}], TRUE)

FilterOff(w) == SetConfig(w, [config[w] EXCEPT !.cones = {}], config[w].cones # {})

(* Slip: the new evaluator inherits mlast_structure as well. *)
SetEvaluatorTypeKeepingLast(w, e) ==
  /\ ~Parallel
  /\ e # evtype[w]
  /\ evtype' = [evtype EXCEPT ![w] = e]
  /\ lists' = [lists EXCEPT ![w] = NoLists]
  /\ UNCHANGED <<ncpu, config, fresh, mlast, stash, history, master>>

(***************************************************************************)
(* An evaluator that can update is validated: the lists are stashed and    *)
(* restored, which empties the stash.  Then resetValue empties the lists.  *)
(***************************************************************************)
SetEvaluatorType(w, e) ==
  /\ ~Parallel
  /\ e # evtype[w]
  /\ evtype' = [evtype EXCEPT ![w] = e]
  /\ mlast' = [mlast EXCEPT ![w] = NoLast]
  /\ stash' = [stash EXCEPT ![w] = IF e = "BASIC" THEN @ ELSE NoStash]
  /\ lists' = [lists EXCEPT ![w] = NoLists]
  /\ UNCHANGED <<ncpu, config, fresh, history, master>>

-----------------------------------------------------------------------------
(* The master, whose own evaluator is not parallel.                        *)

SetMasterStructure(s) ==
  /\ Parallel
  /\ master' = [structure |-> s, lists |-> NoLists, count |-> 0, from |-> {}]
  /\ UNCHANGED <<ncpu, calculator, history>>

(* What a share is known by: whose it is and how it was summed. *)
Origin(w) == [cpu |-> w, structure |-> mlast[w], config |-> config[w], whole |-> whole[w]]

MergeParallelData(w) ==
  /\ Parallel
  /\ master.count < ncpu
  /\ mlast[w] # NoLast /\ mlast[w] = master.structure
  /\ LET l == [master.lists EXCEPT !.pop = Merge(@, lists[w].pop),
                                   !.add = Merge(@, lists[w].add)]
         last == master.count + 1 = ncpu
     IN  master' = [master EXCEPT !.lists = IF last THEN Finished(l, FALSE) ELSE l,
                                  !.count = @ + 1,
                                  !.from = @ \cup {Origin(w)}]
  /\ UNCHANGED <<ncpu, calculator, history>>

-----------------------------------------------------------------------------
Init ==
  /\ ncpu \in 1..Cardinality(Cpus)
  /\ \E f \in SUBSET Cones : config = [w \in Cpus |-> [rmax |-> DefaultRmax, cones |-> f]]
  /\ fresh = [w \in Cpus |-> FALSE]
  /\ evtype = [w \in Cpus |-> "OPTIMIZED"]
  /\ mlast = [w \in Cpus |-> NoLast]
  /\ lists = [w \in Cpus |-> NoLists]
  /\ stash = [w \in Cpus |-> NoStash]
  /\ thrown = [w \in Cpus |-> FALSE]
  /\ aborted = [w \in Cpus |-> FALSE]
  /\ whole = [w \in Cpus |-> FALSE]
  /\ master = [structure |-> NoLast, lists |-> NoLists, count |-> 0, from |-> {}]

Eval(w, s) ==
  \/ EvalCompletely(w, s)
  \/ EvalReverted(w, s)
  \/ EvalUpdated(w, s)
  \/ EvalChecked(w, s)

Next ==
  \/ \E w \in Active, s \in IF Parallel THEN Shared ELSE Structures : Eval(w, s)
  \/ \E w \in Active, r \in Ranges : SetRmax(w, r)
  \/ \E w \in Active, cone \in Cones : FilterCone(w, cone)
  \/ \E w \in Active : FilterOff(w)
  \/ \E w \in Active, e \in {"BASIC", "OPTIMIZED", "CHECK"} : SetEvaluatorType(w, e)
  \/ \E s \in Shared : SetMasterStructure(s)
  \/ \E w \in Active : MergeParallelData(w)

Spec == Init /\ [][Next]_vars

-----------------------------------------------------------------------------
(* Properties.                                                             *)

InOrder(list) == \A k \in 1..Len(list) - 1 : ~Less(list[k + 1], list[k])

TypeOK ==
  /\ config \in [Cpus -> Configs]
  /\ mlast \in [Cpus -> Structures \cup {NoLast}]
  /\ \A w \in Cpus : InOrder(lists[w].bonds) /\ InOrder(lists[w].pop)
  /\ master.count \in 0..ncpu
  /\ InOrder(master.lists.add) /\ InOrder(master.lists.pop) /\ InOrder(master.lists.bonds)

(* The shares of all CPUs, all of them complete sums like x. *)
AllLike(x) == x.whole /\ master.from = {[x EXCEPT !.cpu = w] : w \in Active}

(***************************************************************************)
(* After any history of evaluations, filters and evaluators, the list that *)
(* the next update would start from holds each bond of the remembered      *)
(* structure once, in order, with the site indices of now; not after an    *)
(* exception.  In a parallel run, a master that has merged the complete    *)
(* shares of all workers, in any order and after whatever updates they     *)
(* made before, lists all the bonds (BondCalculator.cpp:222, 233-252).     *)
(***************************************************************************)
ListsAllBonds ==
  IF Parallel
    THEN \A x \in master.from :
           master.count = ncpu /\ AllLike(x) =>
             master.lists.bonds = AllBonds(x.structure, x.config)
    ELSE \A w \in Active : fresh[w] /\ mlast[w] # NoLast /\ ~thrown[w] =>
           lists[w] = [NoLists EXCEPT !.bonds = AllBonds(mlast[w], config[w])]

(***************************************************************************)
(* A calculator that is not parallel only pops bonds that it has, so the   *)
(* assertion of finishValue holds, also after checks that have failed and  *)
(* after changes of the evaluator (BondCalculator.cpp:237).                *)
(***************************************************************************)
PopsWhatItHas == ~Parallel => \A w \in Active : ~aborted[w]

(***************************************************************************)
(* BondCalculator.cpp:237 asserts of any calculator, hence of a worker     *)
(* too, that finishValue finds no more bonds to pop than bonds.            *)
(***************************************************************************)
WorkersPopWhatTheyHave == \A w \in Active : ~aborted[w]
=============================================================================
