----------------------------- MODULE EventTicker -----------------------------
(***************************************************************************)
(* The tickers that tell whether a computed value is newer than the        *)
(* configuration it was computed from, also after both have been saved in  *)
(* one process and loaded in another, whose global ticker is its own.      *)
(*                                                                         *)
(* A tick is a pair <<first, second>> of longs; first counts how often     *)
(* second has run over.  The calculator owns the ticker Value of its       *)
(* evaluator and the tickers in Config: its own and those of its parts     *)
(* (envelopes, peak width model, scattering factor table).                 *)
(***************************************************************************)
EXTENDS Integers

CONSTANTS
  Value,        \* the ticker of the last evaluation
  Config,       \* the tickers of configuration changes
  NoArchive,    \* nothing has been saved yet
  Largest,      \* the largest long
  MaxFirst,     \* bound on the first component of the global ticker
  MaxRestarts   \* bound on the number of processes started

Tickers == Config \cup {Value}

ASSUME TickerAssumption ==
  /\ Value \notin Config
  /\ Largest \in Nat \ {0} /\ MaxFirst \in Nat /\ MaxRestarts \in Nat
  /\ NoArchive \notin [tick : [Tickers -> Int \X Int], global : Nat \X Nat]

VARIABLES
  gtick,        \* the global ticker of this process
  tick,         \* the value of each ticker of the calculator
  archive,      \* what Save wrote last
  loaded,       \* tickers read so far by the load in progress, or all of them
  restarts      \* number of processes started

tickervars == <<gtick, tick, archive, loaded, restarts>>

-----------------------------------------------------------------------------
Zero == <<0, 0>>

Before(a, b) == a[1] < b[1] \/ (a[1] = b[1] /\ a[2] < b[2])

NotAfter(a, b) == a = b \/ Before(a, b)

(* Slip: second is left negative when it has run over. *)
AdvancedWithoutReset(g) ==
  IF g[2] = Largest THEN <<g[1] + 1, -Largest - 1>> ELSE <<g[1], g[2] + 1>>

(* Slip: nothing is carried to first. *)
AdvancedWithoutCarry(g) == IF g[2] = Largest THEN <<g[1], 0>> ELSE <<g[1], g[2] + 1>>

(* ++second runs over to a negative number, which carries to first. *)
Advanced(g) == IF g[2] = Largest THEN <<g[1] + 1, 0>> ELSE <<g[1], g[2] + 1>>

(* EventTicker::load, given the archived ticker m and global ticker ga. *)
Reloaded(m, ga, g) ==
  IF ~Before(g, ga) THEN m
  ELSE IF ga[1] # g[1] THEN Zero
  ELSE <<m[1], m[2] + g[2] - ga[2]>>

(* PQEvaluatorOptimized may update a value in this state. *)
FreshIn(t) == \A c \in Config : Before(t[c], t[Value])

Idle == loaded = Tickers

-----------------------------------------------------------------------------
Bounded == Advanced(gtick)[1] =< MaxFirst

Click(t) ==
  /\ Idle
  /\ Bounded
  /\ gtick' = Advanced(gtick)
  /\ tick' = [tick EXCEPT ![t] = gtick']
  /\ UNCHANGED <<archive, loaded, restarts>>

Evaluate == Click(Value)

Reconfigure == \E c \in Config : Click(c)

(***************************************************************************)
(* A ticker of some other object clicks.  While a load is in progress the  *)
(* object may be a part that is being constructed; that second runs over   *)
(* just then, after 2^63 clicks, is left out.                              *)
(***************************************************************************)
ClickElsewhere ==
  /\ Bounded
  /\ Idle \/ gtick[2] < Largest
  /\ gtick' = Advanced(gtick)
  /\ UNCHANGED <<tick, archive, loaded, restarts>>

(* ticker() of a calculator advances its own ticker to that of a part. *)
UpdateFrom(c, d) ==
  /\ Idle
  /\ Before(tick[c], tick[d])
  /\ tick' = [tick EXCEPT ![c] = tick[d]]
  /\ UNCHANGED <<gtick, archive, loaded, restarts>>

Save ==
  /\ Idle
  /\ archive' = [tick |-> tick, global |-> gtick]
  /\ UNCHANGED <<gtick, tick, loaded, restarts>>

(* A new process has a global ticker and a calculator that never clicked. *)
Restart ==
  /\ restarts < MaxRestarts
  /\ restarts' = restarts + 1
  /\ gtick' = Zero
  /\ tick' = [t \in Tickers |-> Zero]
  /\ loaded' = Tickers
  /\ UNCHANGED archive

(* A calculator to load is constructed: its tickers may have any age. *)
StartLoad ==
  /\ Idle
  /\ archive # NoArchive
  /\ loaded' = {}
  /\ UNCHANGED <<gtick, tick, archive, restarts>>

(* Slip: the evaluator is read after the tickers it is compared with. *)
LoadInAnyOrder(t) ==
  /\ t \notin loaded
  /\ tick' = [tick EXCEPT ![t] = Reloaded(archive.tick[t], archive.global, gtick)]
  /\ loaded' = loaded \cup {t}
  /\ UNCHANGED <<gtick, archive, restarts>>

(***************************************************************************)
(* The evaluator is read before the ticker of the calculator, and that     *)
(* before the parts which derived classes own.                             *)
(***************************************************************************)
Load(t) ==
  /\ t \notin loaded
  /\ t # Value => Value \in loaded
  /\ tick' = [tick EXCEPT ![t] = Reloaded(archive.tick[t], archive.global, gtick)]
  /\ loaded' = loaded \cup {t}
  /\ UNCHANGED <<gtick, archive, restarts>>

TickerInit ==
  /\ gtick = Zero
  /\ tick = [t \in Tickers |-> Zero]
  /\ archive = NoArchive
  /\ loaded = Tickers
  /\ restarts = 0

TickerNext ==
  \/ Evaluate
  \/ Reconfigure
  \/ ClickElsewhere
  \/ \E c, d \in Config : UpdateFrom(c, d)
  \/ Save
  \/ Restart
  \/ StartLoad
  \/ \E t \in Tickers : Load(t)

TickerSpec == TickerInit /\ [][TickerNext]_tickervars

-----------------------------------------------------------------------------
TickerTypeOK ==
  /\ gtick \in Nat \X Nat
  /\ tick \in [Tickers -> Int \X Int]
  /\ archive \in [tick : [Tickers -> Int \X Int], global : Nat \X Nat] \cup {NoArchive}
  /\ loaded \subseteq Tickers
  /\ restarts \in 0..MaxRestarts

(***************************************************************************)
(* No ticker is ever ahead of the global ticker of its process, whatever   *)
(* the age of the process it comes from (EventTicker.hpp:79).  Otherwise a *)
(* change of the configuration could go unnoticed.                         *)
(***************************************************************************)
NeverAhead == \A t \in Tickers : NotAfter(tick[t], gtick)

(***************************************************************************)
(* An evaluation makes the value fresh and a change makes it stale, also   *)
(* between tickers that have been loaded (PQEvaluator.cpp:186).            *)
(***************************************************************************)
ClickIsNoticed ==
  [][/\ Evaluate => FreshIn(tick')
     /\ Reconfigure => ~FreshIn(tick')]_tickervars

(***************************************************************************)
(* A value that was stale when it was saved is stale when its calculator   *)
(* has been loaded, whatever clicks while it is loaded.                    *)
(***************************************************************************)
StaleStaysStale ==
  [][~Idle /\ Idle' /\ restarts' = restarts /\ FreshIn(tick') => FreshIn(archive.tick)]_tickervars
=============================================================================
