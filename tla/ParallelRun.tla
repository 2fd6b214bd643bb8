----------------------------- MODULE ParallelRun -----------------------------
(***************************************************************************)
(* One pair sum shared among several calculators.  Each worker is told     *)
(* which of how many CPUs it is (setupParallelRun) and sums up its share   *)
(* of the pairs; a master adds the shares (mergeParallelData).  The master *)
(* knows neither which worker a share comes from nor what was summed.      *)
(*                                                                         *)
(* How the loops are shared depends on the evaluator: the complete sum     *)
(* deals out whole anchors or single bonds, the update always anchors, in  *)
(* an order of its own.  So the workers' values add up only if all of them *)
(* have summed completely and updated in step.                             *)
(*                                                                         *)
(* Configuration and mask stay the same here; see PairQuantity for them.   *)
(***************************************************************************)
EXTENDS Shares

CONSTANTS
  Workers,      \* the workers' calculators
  NCpu,         \* number of CPUs that the driver asks for
  Structures,   \* structures evaluated
  NoLast,       \* the null mlast_structure
  MaxPath       \* bound on evaluations since a complete one, that one included

ASSUME ParallelAssumption ==
  /\ NCpu \in Nat \ {0}
  /\ MaxPath \in Nat \ {0}
  /\ NoLast \notin Structures
  /\ \A s \in Structures : CountSites(s) \in Nat /\ Sites(s) = 1..CountSites(s)

VARIABLES
  mcpuindex,    \* of each worker's evaluator
  mncpu,        \* of each worker's evaluator
  optimized,    \* whether it is a PQEvaluatorOptimized
  mlast,        \* its mlast_structure
  mvalue,       \* the ledger in each worker's value array
  path,         \* history: structures evaluated since the last complete sum
  dealt,        \* history: the setup of that sum, if it has not changed since
  mstructure,   \* the structure of the master
  merged,       \* the ledger in the master's value array
  mmergedvaluescount,
  shares        \* history: what has been merged

worker == <<mcpuindex, mncpu, optimized, mlast, mvalue, path, dealt>>
master == <<mstructure, merged, mmergedvaluescount, shares>>
vars == <<worker, master>>

-----------------------------------------------------------------------------
(* The shares of a worker.                                                 *)

CompleteShare(s, index, n) ==
  ShareOfAll(s, Seen(s, s, NoMask, AllVisits(s)), index, n)

PopShare(s, pop, index, n) ==
  ShareOfPopped(s, pop, Seen(s, s, NoMask, PopVisits(s, pop)), index, n)

AddShare(s, pop, t, add, index, n) ==
  ShareOfAdded(s, pop, t, add, Seen(t, t, NoMask, AddVisits(t, add)), index, n)

TallyOf(s, visits) == Tally(s, SiteData(s), "same", visits)

CompleteSum(s) == FullValue(s, NoMask, "same")

-----------------------------------------------------------------------------
(* Workers.                                                                *)

FastPath(w, s) ==
  /\ optimized[w]
  /\ mlast[w] # NoLast
  /\ AllowsFastUpdate(CountSites(mlast[w]), Cardinality(Diff(mlast[w], s).pop))
  /\ FixedSites => Diff(mlast[w], s).method = "SIDEBYSIDE"

(***************************************************************************)
(* setupParallelRun; the value stays, and so does its ticker.  The driver  *)
(* calls it once for a worker, which may have been used before.            *)
(***************************************************************************)
SetupParallelRun(w, index, n) ==
  /\ mncpu[w] # n
  /\ mcpuindex' = [mcpuindex EXCEPT ![w] = index]
  /\ mncpu' = [mncpu EXCEPT ![w] = n]
  /\ dealt' = [dealt EXCEPT ![w] = <<>>]
  /\ UNCHANGED <<optimized, mlast, mvalue, path, master>>

EvalCompletely(w, s) ==
  /\ ~FastPath(w, s)
  /\ mvalue' = [mvalue EXCEPT ![w] = TallyOf(s, CompleteShare(s, mcpuindex[w], mncpu[w]))]
  /\ mlast' = [mlast EXCEPT ![w] = IF optimized[w] THEN s ELSE NoLast]
  /\ path' = [path EXCEPT ![w] = <<s>>]
  /\ dealt' = [dealt EXCEPT ![w] = <<mcpuindex[w], mncpu[w]>>]
  /\ UNCHANGED <<mcpuindex, mncpu, optimized, master>>

EvalUpdated(w, s) ==
  /\ FastPath(w, s)
  /\ Len(path[w]) < MaxPath
  /\ LET d == Diff(mlast[w], s)
         gone == TallyOf(mlast[w], PopShare(mlast[w], d.pop, mcpuindex[w], mncpu[w]))
         new == TallyOf(s, AddShare(mlast[w], d.pop, s, d.add, mcpuindex[w], mncpu[w]))
     IN  mvalue' = [mvalue EXCEPT ![w] = Combine(Combine(@, -1, gone), 1, new)]
  /\ mlast' = [mlast EXCEPT ![w] = s]
  /\ path' = [path EXCEPT ![w] = Append(@, s)]
  /\ UNCHANGED <<mcpuindex, mncpu, optimized, dealt, master>>

-----------------------------------------------------------------------------
(* The master.                                                             *)

(* setStructure resets the value and the count of merged values. *)
SetStructure(s) ==
  /\ mstructure' = s
  /\ merged' = Empty
  /\ mmergedvaluescount' = 0
  /\ shares' = {}
  /\ UNCHANGED worker

(* Slip: one share too many is let in. *)
MergeParallelDataOnceMore(w) ==
  /\ path[w] # <<>> /\ path[w][Len(path[w])] = mstructure
  /\ mmergedvaluescount =< NCpu
  /\ merged' = Combine(merged, 1, mvalue[w])
  /\ mmergedvaluescount' = mmergedvaluescount + 1
  /\ shares' = shares \cup {[dealt |-> dealt[w], path |-> path[w]]}
  /\ UNCHANGED <<mstructure, worker>>

(***************************************************************************)
(* The worker's getParallelData arrives at mergeParallelData, which throws *)
(* once it has merged enough.  The driver collects from workers that have  *)
(* evaluated the structure of the master.                                  *)
(***************************************************************************)
MergeParallelData(w) ==
  /\ path[w] # <<>> /\ path[w][Len(path[w])] = mstructure
  /\ mmergedvaluescount < NCpu
  /\ merged' = Combine(merged, 1, mvalue[w])
  /\ mmergedvaluescount' = mmergedvaluescount + 1
  /\ shares' = shares \cup {[dealt |-> dealt[w], path |-> path[w]]}
  /\ UNCHANGED <<mstructure, worker>>

-----------------------------------------------------------------------------
Init ==
  /\ mcpuindex = [w \in Workers |-> 0]
  /\ mncpu = [w \in Workers |-> 1]
  /\ optimized \in [Workers -> BOOLEAN]
  /\ mlast = [w \in Workers |-> NoLast]
  /\ mvalue = [w \in Workers |-> Empty]
  /\ path = [w \in Workers |-> <<>>]
  /\ dealt = [w \in Workers |-> <<>>]
  /\ mstructure \in Structures
  /\ merged = Empty
  /\ mmergedvaluescount = 0
  /\ shares = {}

Next ==
  \/ \E w \in Workers, index \in 0..NCpu - 1 : SetupParallelRun(w, index, NCpu)
  \/ \E w \in Workers, s \in Structures : EvalCompletely(w, s) \/ EvalUpdated(w, s)
  \/ \E s \in Structures : SetStructure(s)
  \/ \E w \in Workers : MergeParallelData(w)

Spec == Init /\ [][Next]_vars

-----------------------------------------------------------------------------
TypeOK ==
  /\ mncpu \in [Workers -> 1..NCpu]
  /\ \A w \in Workers : mcpuindex[w] \in 0..mncpu[w] - 1
  /\ mlast \in [Workers -> Structures \cup {NoLast}]
  /\ \A w \in Workers : path[w] \in Seq(Structures) /\ Len(path[w]) =< MaxPath
  /\ mstructure \in Structures
  /\ mmergedvaluescount \in 0..NCpu
  /\ Cardinality(shares) =< mmergedvaluescount

(* One share of each CPU, all of them got along the same path. *)
InStep ==
  /\ {x.dealt : x \in shares} = {<<index, NCpu>> : index \in 0..NCpu - 1}
  /\ \E p \in {x.path : x \in shares} :
       /\ \A x \in shares : x.path = p
       /\ p[Len(p)] = mstructure

(***************************************************************************)
(* When the last share has been merged, the value of the master is the     *)
(* complete sum, provided that the shares are those of all CPUs and their  *)
(* workers have evaluated in step; what else the workers do before, after  *)
(* or in between, the order in which shares are merged, and one that comes *)
(* twice or too late do not matter                                         *)
(* (PQEvaluator.cpp:106, 226; PairQuantity.cpp:96-98).                     *)
(***************************************************************************)
MergedIsSum ==
  mmergedvaluescount = NCpu /\ InStep => merged = CompleteSum(mstructure)
=============================================================================
