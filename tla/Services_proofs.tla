--------------------------- MODULE Services_proofs ----------------------------
(***************************************************************************)
(* What calculators rest on: tickers, for any number of them, any width of *)
(* a long and any number of processes; masks, for any structures, types    *)
(* and orders of hash maps; the registries and parts, for any types,       *)
(* aliases, prototypes and calculators; the images that a crystal keeps,   *)
(* after any edits; and the directory of the data.                         *)
(***************************************************************************)
EXTENDS EventTicker, PDFParts, PairMask, FiniteSetTheorems, WellFoundedInduction, TLAPS

Pairs == Int \X Int
Globals == Nat \X Nat
Archives == [tick : [Tickers -> Pairs], global : Globals]

-----------------------------------------------------------------------------
(* The order of ticks.                                                     *)

(* Ticks are totally ordered, which is what operator< of pairs provides. *)
LEMMA NotAfterTransitive ==
  ASSUME NEW a \in Pairs, NEW b \in Pairs, NEW c \in Pairs,
         NotAfter(a, b), NotAfter(b, c)
  PROVE  NotAfter(a, c)
  BY DEF NotAfter, Before, Pairs

LEMMA NotAfterIsNotBefore ==
  ASSUME NEW a \in Pairs, NEW b \in Pairs
  PROVE  NotAfter(a, b) <=> ~Before(b, a)
  BY DEF NotAfter, Before, Pairs

(* A click brings the global ticker strictly forward. *)
LEMMA AdvancedIsLater ==
  ASSUME NEW g \in Globals
  PROVE  /\ Advanced(g) \in Globals
         /\ Before(g, Advanced(g))
         /\ \A m \in Pairs : NotAfter(m, g) => Before(m, Advanced(g))
  BY TickerAssumption DEF Advanced, Globals, Pairs, Before, NotAfter

(* A reloaded ticker is not ahead of the ticker of the loading process. *)
LEMMA ReloadedIsNotAhead ==
  ASSUME NEW m \in Pairs, NEW ga \in Globals, NEW g \in Globals, NotAfter(m, ga)
  PROVE  Reloaded(m, ga, g) \in Pairs /\ NotAfter(Reloaded(m, ga, g), g)
  BY DEF Reloaded, Zero, Globals, Pairs, Before, NotAfter

(* Tickers reloaded at the same time keep their order. *)
LEMMA ReloadedKeepsOrder ==
  ASSUME NEW m \in Pairs, NEW n \in Pairs, NEW ga \in Globals, NEW g \in Globals,
         NotAfter(m, n)
  PROVE  NotAfter(Reloaded(m, ga, g), Reloaded(n, ga, g))
  BY DEF Reloaded, Zero, Globals, Pairs, Before, NotAfter

(* Reloading after one more click never makes a ticker older. *)
LEMMA ReloadedLater ==
  ASSUME NEW m \in Pairs, NEW ga \in Globals, NEW g \in Globals,
         NotAfter(m, ga), g[2] < Largest
  PROVE  NotAfter(Reloaded(m, ga, g), Reloaded(m, ga, Advanced(g)))
  BY TickerAssumption DEF Reloaded, Advanced, Zero, Globals, Pairs, Before, NotAfter

-----------------------------------------------------------------------------
(* The invariant.                                                          *)

(* Archived tickers were not ahead of the process that saved them. *)
ArchiveInv ==
  archive # NoArchive =>
    \A t \in Tickers : NotAfter(archive.tick[t], archive.global)

(* The age at which c is, or will be, when the load in progress is over. *)
Pending(c) ==
  IF c \in loaded THEN tick[c] ELSE Reloaded(archive.tick[c], archive.global, gtick)

(***************************************************************************)
(* While a load is in progress the value is read first, and it is no newer *)
(* than the tickers yet to be read unless it was so in the archive.        *)
(***************************************************************************)
LoadInv ==
  ~Idle =>
    /\ archive # NoArchive
    /\ loaded # {} => Value \in loaded
    /\ Value \in loaded =>
         \A c \in Config :
           NotAfter(archive.tick[Value], archive.tick[c])
             => NotAfter(tick[Value], Pending(c))

TickerInv == TickerTypeOK /\ NeverAhead /\ ArchiveInv /\ LoadInv

(* A fresh process satisfies the invariant. *)
LEMMA InitTickerInv == TickerInit => TickerInv
  BY TickerAssumption
  DEF TickerInit, TickerInv, TickerTypeOK, NeverAhead, ArchiveInv, LoadInv, Idle, Zero, NotAfter, Tickers

(***************************************************************************)
(* Clicks: of a ticker of the calculator, or of any other while the        *)
(* calculator is being loaded.                                             *)
(***************************************************************************)
LEMMA ClickKeepsInv ==
  ASSUME TickerInv, NEW t \in Tickers, Click(t)
  PROVE  TickerInv'
<1>1. /\ gtick \in Globals /\ tick \in [Tickers -> Pairs]
      /\ \A u \in Tickers : NotAfter(tick[u], gtick)
  BY DEF TickerInv, TickerTypeOK, NeverAhead, Globals, Pairs
<1>2. gtick' \in Globals /\ \A m \in Pairs : NotAfter(m, gtick) => Before(m, gtick')
  BY <1>1, AdvancedIsLater DEF Click
<1>3. gtick' \in Pairs
  BY <1>2 DEF Globals, Pairs
<1>4. TickerTypeOK'
  BY <1>2, <1>3 DEF TickerInv, TickerTypeOK, Click, Globals, Pairs
<1>5. NeverAhead'
  <2> SUFFICES ASSUME NEW u \in Tickers PROVE NotAfter(tick'[u], gtick')
    BY DEF NeverAhead
  <2>1. CASE u = t
    BY <1>1, <2>1 DEF Click, NotAfter
  <2>2. CASE u # t
    BY <1>1, <1>2, <2>2 DEF Click, NotAfter
  <2> QED BY <2>1, <2>2
<1>6. ArchiveInv' /\ LoadInv'
  BY DEF TickerInv, ArchiveInv, LoadInv, Click, Idle
<1> QED BY <1>4, <1>5, <1>6 DEF TickerInv

LEMMA ClickElsewhereKeepsInv == TickerInv /\ ClickElsewhere => TickerInv'
<1> SUFFICES ASSUME TickerInv, ClickElsewhere PROVE TickerInv'
  OBVIOUS
<1>1. /\ gtick \in Globals /\ tick \in [Tickers -> Pairs]
      /\ \A u \in Tickers : NotAfter(tick[u], gtick)
  BY DEF TickerInv, TickerTypeOK, NeverAhead, Globals, Pairs
<1>2. gtick' \in Globals /\ \A m \in Pairs : NotAfter(m, gtick) => Before(m, gtick')
  BY <1>1, AdvancedIsLater DEF ClickElsewhere
<1>3. TickerTypeOK' /\ NeverAhead' /\ ArchiveInv'
  BY <1>1, <1>2
  DEF TickerInv, TickerTypeOK, NeverAhead, ArchiveInv, ClickElsewhere, Globals, Pairs, NotAfter
<1>4. LoadInv'
  <2> SUFFICES ASSUME ~Idle, Value \in loaded, NEW c \in Config,
                      NotAfter(archive.tick[Value], archive.tick[c])
               PROVE  NotAfter(tick[Value], Pending(c)')
    BY DEF TickerInv, LoadInv, ClickElsewhere, Idle
  <2>1. archive \in Archives /\ \A u \in Tickers : NotAfter(archive.tick[u], archive.global)
    BY DEF TickerInv, TickerTypeOK, ArchiveInv, LoadInv, Archives, Pairs, Globals
  <2>2. NotAfter(tick[Value], Pending(c))
    BY DEF TickerInv, LoadInv
  <2>3. CASE c \in loaded
    BY <2>2, <2>3 DEF Pending, ClickElsewhere
  <2>4. CASE c \notin loaded
    <3> DEFINE m == archive.tick[c]
               ga == archive.global
    <3>1. m \in Pairs /\ ga \in Globals /\ NotAfter(m, ga)
      BY <2>1 DEF Archives, Tickers
    <3>2. NotAfter(Reloaded(m, ga, gtick), Reloaded(m, ga, gtick'))
      BY <1>1, <3>1, ReloadedLater DEF ClickElsewhere
    <3>3. /\ Reloaded(m, ga, gtick) \in Pairs /\ Reloaded(m, ga, gtick') \in Pairs
          /\ tick[Value] \in Pairs
      BY <1>1, <1>2, <3>1, ReloadedIsNotAhead DEF Tickers
    <3> QED BY <2>2, <2>4, <3>2, <3>3, NotAfterTransitive DEF Pending, ClickElsewhere
  <2> QED BY <2>3, <2>4
<1> QED BY <1>3, <1>4 DEF TickerInv

LEMMA LoadKeepsInv ==
  ASSUME TickerInv, NEW t \in Tickers, Load(t)
  PROVE  TickerInv'
<1>1. /\ gtick \in Globals /\ tick \in [Tickers -> Pairs]
      /\ \A u \in Tickers : NotAfter(tick[u], gtick)
  BY DEF TickerInv, TickerTypeOK, NeverAhead, Globals, Pairs
<1>2. ~Idle
  BY DEF Load, Idle
<1>3. archive \in Archives /\ \A u \in Tickers : NotAfter(archive.tick[u], archive.global)
  BY <1>2 DEF TickerInv, TickerTypeOK, ArchiveInv, LoadInv, Archives, Pairs, Globals
<1> DEFINE now(u) == Reloaded(archive.tick[u], archive.global, gtick)
<1>4. \A u \in Tickers : now(u) \in Pairs /\ NotAfter(now(u), gtick)
  BY <1>1, <1>3, ReloadedIsNotAhead DEF Archives
<1>5. TickerTypeOK' /\ NeverAhead' /\ ArchiveInv'
  BY <1>1, <1>4 DEF TickerInv, TickerTypeOK, NeverAhead, ArchiveInv, Load, Pairs
<1>6. tick' = [tick EXCEPT ![t] = now(t)] /\ loaded' = loaded \cup {t}
  BY DEF Load
<1>7. LoadInv'
  <2> SUFFICES ASSUME NEW c \in Config, NotAfter(archive.tick[Value], archive.tick[c])
               PROVE  NotAfter(tick'[Value], Pending(c)')
    BY <1>2, <1>6 DEF TickerInv, LoadInv, Idle, Load
  <2>1. Value # c /\ Value \in Tickers /\ c \in Tickers
    BY TickerAssumption DEF Tickers
  <2>2. CASE t = Value
    <3>1. c \notin loaded'
      BY <1>2, <1>6, <2>1, <2>2 DEF TickerInv, LoadInv, Load
    <3>2. Pending(c)' = now(c) /\ tick'[Value] = now(Value)
      BY <1>1, <1>6, <2>1, <2>2, <3>1 DEF Pending, Load
    <3> QED BY <1>1, <1>3, <2>1, <3>2, ReloadedKeepsOrder DEF Archives
  <2>3. CASE t # Value
    <3>1. Pending(c)' = Pending(c)
      BY <1>1, <1>6, <2>1, <2>3 DEF Pending, Load
    <3>2. tick'[Value] = tick[Value] /\ Value \in loaded
      BY <1>1, <1>6, <2>1, <2>3 DEF Load
    <3> QED BY <1>2, <3>1, <3>2 DEF TickerInv, LoadInv
  <2> QED BY <2>2, <2>3
<1> QED BY <1>5, <1>7 DEF TickerInv

(* Every step keeps the invariant. *)
LEMMA NextKeepsTickerInv == TickerInv /\ [TickerNext]_tickervars => TickerInv'
<1> SUFFICES ASSUME TickerInv, [TickerNext]_tickervars PROVE TickerInv'
  OBVIOUS
<1>1. CASE Evaluate \/ Reconfigure
  BY <1>1, ClickKeepsInv DEF Evaluate, Reconfigure, Tickers
<1>2. CASE ClickElsewhere
  BY <1>2, ClickElsewhereKeepsInv
<1>3. CASE \E c, d \in Config : UpdateFrom(c, d)
  <2> PICK c \in Config, d \in Config : UpdateFrom(c, d)
    BY <1>3
  <2> QED
    BY DEF TickerInv, TickerTypeOK, NeverAhead, ArchiveInv, LoadInv, UpdateFrom, Idle, Tickers
<1>4. CASE Save
  BY <1>4 DEF TickerInv, TickerTypeOK, NeverAhead, ArchiveInv, LoadInv, Save, Idle
<1>5. CASE Restart
  BY <1>5, TickerAssumption
  DEF TickerInv, TickerTypeOK, NeverAhead, ArchiveInv, LoadInv, Restart, Idle, Zero, NotAfter
<1>6. CASE StartLoad
  BY <1>6, TickerAssumption
  DEF TickerInv, TickerTypeOK, NeverAhead, ArchiveInv, LoadInv, StartLoad, Idle, Tickers
<1>7. CASE \E t \in Tickers : Load(t)
  BY <1>7, LoadKeepsInv
<1>8. CASE UNCHANGED tickervars
  BY <1>8 DEF TickerInv, TickerTypeOK, NeverAhead, ArchiveInv, LoadInv, Pending, tickervars, Idle
<1> QED BY <1>1, <1>2, <1>3, <1>4, <1>5, <1>6, <1>7, <1>8 DEF TickerNext

-----------------------------------------------------------------------------
(* The theorems.                                                           *)

(***************************************************************************)
(* Tickers keep their types, and none is ever ahead of the global ticker   *)
(* of its process, however often it is saved and loaded.                   *)
(***************************************************************************)
THEOREM TickersNeverAhead == TickerSpec => [](TickerTypeOK /\ NeverAhead)
<1>1. TickerInv => TickerTypeOK /\ NeverAhead
  BY DEF TickerInv
<1> QED BY InitTickerInv, NextKeepsTickerInv, <1>1, PTL DEF TickerSpec

(***************************************************************************)
(* An evaluation always leaves a value that counts as fresh, and a change  *)
(* of the configuration one that counts as stale.                          *)
(***************************************************************************)
THEOREM ClicksAreNoticed == TickerSpec => ClickIsNoticed
<1> DEFINE Noticed == /\ Evaluate => FreshIn(tick')
                      /\ Reconfigure => ~FreshIn(tick')
<1>1. TickerInv /\ [TickerNext]_tickervars => [Noticed]_tickervars
  <2> SUFFICES ASSUME TickerInv PROVE Noticed
    OBVIOUS
  <2>1. /\ gtick \in Globals /\ tick \in [Tickers -> Pairs]
        /\ \A u \in Tickers : NotAfter(tick[u], gtick)
    BY DEF TickerInv, TickerTypeOK, NeverAhead, Globals, Pairs
  <2>2. Advanced(gtick) \in Pairs /\ \A u \in Tickers : Before(tick[u], Advanced(gtick))
    BY <2>1, AdvancedIsLater DEF Globals, Pairs
  <2>3. Evaluate => FreshIn(tick')
    BY <2>1, <2>2, TickerAssumption DEF Evaluate, Click, FreshIn, Tickers
  <2>4. Reconfigure => ~FreshIn(tick')
    <3> SUFFICES ASSUME NEW c \in Config, Click(c) PROVE ~Before(tick'[c], tick'[Value])
      BY DEF Reconfigure, FreshIn
    <3>1. tick'[c] = Advanced(gtick) /\ tick'[Value] = tick[Value]
      BY <2>1, TickerAssumption DEF Click, Tickers
    <3>2. NotAfter(tick[Value], Advanced(gtick)) /\ tick[Value] \in Pairs
      BY <2>1, <2>2 DEF NotAfter, Tickers
    <3> QED BY <2>2, <3>1, <3>2, NotAfterIsNotBefore
  <2> QED BY <2>3, <2>4
<1> QED BY InitTickerInv, NextKeepsTickerInv, <1>1, PTL DEF TickerSpec, ClickIsNoticed

(***************************************************************************)
(* Saving and loading never makes a stale value count as fresh.            *)
(***************************************************************************)
THEOREM StaleValuesStayStale == TickerSpec => StaleStaysStale
<1> DEFINE Kept == ~Idle /\ Idle' /\ restarts' = restarts /\ FreshIn(tick')
                     => FreshIn(archive.tick)
<1>1. TickerInv /\ TickerInv' /\ [TickerNext]_tickervars => [Kept]_tickervars
  <2> SUFFICES ASSUME TickerInv, TickerNext, ~Idle, Idle', restarts' = restarts, FreshIn(tick')
               PROVE  FreshIn(archive.tick)
    OBVIOUS
  <2>1. restarts \in Int
    BY DEF TickerInv, TickerTypeOK
  <2>2. PICK t \in Tickers : Load(t)
    BY <2>1 DEF TickerNext, Evaluate, Reconfigure, Click, ClickElsewhere, UpdateFrom, Save,
                Restart, StartLoad, Idle
  <2>3. archive' = archive /\ loaded' = Tickers /\ ~(\A u \in Tickers : u \in loaded)
    BY <2>2 DEF Load, Idle, TickerInv, TickerTypeOK
  <2>4. CASE t = Value
    BY <2>2, <2>3, <2>4, TickerAssumption DEF TickerInv, LoadInv, Load, Idle, FreshIn, Tickers
  <2>5. CASE t # Value
    <3>1. SUFFICES ASSUME NEW c \in Config, ~Before(archive.tick[c], archive.tick[Value])
                   PROVE  FALSE
      BY DEF FreshIn
    <3>2. archive \in Archives
      BY DEF TickerInv, TickerTypeOK, LoadInv, Archives, Pairs, Globals
    <3>3. NotAfter(archive.tick[Value], archive.tick[c])
      BY <3>1, <3>2, NotAfterIsNotBefore DEF Archives, Tickers
    <3>4. NotAfter(tick'[Value], tick'[c])
      <4>1. TickerInv'
        BY <2>2, LoadKeepsInv
      <4>2. Value \in loaded /\ tick' \in [Tickers -> Pairs] /\ tick \in [Tickers -> Pairs]
        BY <2>2, <2>5, <4>1 DEF Load, TickerInv, TickerTypeOK, Pairs
      <4>3. NotAfter(tick[Value], Pending(c))
        BY <3>3, <4>2 DEF TickerInv, LoadInv
      <4>4. tick'[Value] = tick[Value] /\ tick'[c] = Pending(c)
        BY <2>2, <2>3, <2>5, <4>2 DEF Load, Pending, Tickers
      <4> QED BY <4>3, <4>4
    <3>5. ~Before(tick'[c], tick'[Value])
      <4>1. tick' \in [Tickers -> Pairs]
        BY <2>2, LoadKeepsInv DEF TickerInv, TickerTypeOK, Pairs
      <4> QED BY <3>4, <4>1, NotAfterIsNotBefore DEF Tickers
    <3> QED BY <3>5 DEF FreshIn
  <2> QED BY <2>4, <2>5
<1> QED BY InitTickerInv, NextKeepsTickerInv, <1>1, PTL DEF TickerSpec, StaleStaysStale

-----------------------------------------------------------------------------
(* The registry.                                                           *)

RegistryInv == RegistryTypeOK /\ TypesKnowThemselves

(* Conditions on any registry, so that they can be carried over two entries. *)
Knows(reg) ==
  \A n \in DOMAIN reg : reg[n].type \in DOMAIN reg /\ reg[reg[n].type] = reg[n]

Typed(reg) == DOMAIN reg \subseteq Names /\ reg \in [DOMAIN reg -> Prototypes]

(* A prototype entered under its own, new name disturbs no other name. *)
LEMMA EnterNewType ==
  ASSUME NEW reg, Knows(reg), Typed(reg),
         NEW p \in Prototypes, NEW tp \in Types, p.type = tp, tp \notin DOMAIN reg
  PROVE  Knows(Entered(reg, tp, p)) /\ Typed(Entered(reg, tp, p))
<1> DEFINE r == Entered(reg, tp, p)
<1>1. /\ DOMAIN r = DOMAIN reg \cup {tp}
      /\ r = [n \in DOMAIN r |-> r[n]]
      /\ r[tp] = p
      /\ \A n \in DOMAIN reg : n # tp => r[n] = reg[n]
  BY DEF Entered
<1>2. tp \in Names
  BY DEF Names
<1>3. ASSUME NEW n \in DOMAIN r
      PROVE  r[n].type \in DOMAIN r /\ r[r[n].type] = r[n] /\ r[n] \in Prototypes
  <2>1. CASE n = tp
    BY <1>1, <2>1
  <2>2. CASE n # tp
    <3>1. n \in DOMAIN reg /\ r[n] = reg[n]
      BY <1>1, <2>2
    <3>2. reg[n].type \in DOMAIN reg /\ reg[reg[n].type] = reg[n] /\ reg[n] \in Prototypes
      BY <3>1 DEF Knows, Typed
    <3>3. reg[n].type # tp
      BY <3>2
    <3> QED BY <1>1, <3>1, <3>2, <3>3
  <2> QED BY <2>1, <2>2
<1> HIDE DEF r
<1>4. DOMAIN r \subseteq Names
  BY <1>1, <1>2 DEF Typed
<1>5. r \in [DOMAIN r -> Prototypes]
  BY <1>1, <1>3
<1> QED BY <1>3, <1>4, <1>5 DEF Knows, Typed, r

(* An alias entered for a registered type disturbs no other name. *)
LEMMA EnterAlias ==
  ASSUME NEW reg, Knows(reg), Typed(reg), NEW tp, NEW al \in Names, CanAlias(reg, tp, al)
  PROVE  Knows(Entered(reg, al, reg[tp])) /\ Typed(Entered(reg, al, reg[tp]))
<1> DEFINE r == Entered(reg, al, reg[tp])
<1>1. /\ DOMAIN r = DOMAIN reg \cup {al}
      /\ r = [n \in DOMAIN r |-> r[n]]
      /\ r[al] = reg[tp]
      /\ \A n \in DOMAIN reg : n # al => r[n] = reg[n]
  BY DEF Entered
<1>2. tp \in DOMAIN reg /\ (al \in DOMAIN reg => reg[al] = reg[tp])
  BY DEF CanAlias
<1>3. \A n \in DOMAIN reg : r[n] = reg[n]
  BY <1>1, <1>2
<1>4. ASSUME NEW n \in DOMAIN r
      PROVE  r[n].type \in DOMAIN r /\ r[r[n].type] = r[n] /\ r[n] \in Prototypes
  <2>1. PICK m \in DOMAIN reg : r[n] = reg[m]
    BY <1>1, <1>2, <1>3
  <2>2. reg[m].type \in DOMAIN reg /\ reg[reg[m].type] = reg[m] /\ reg[m] \in Prototypes
    BY <2>1 DEF Knows, Typed
  <2> QED BY <1>1, <1>3, <2>1, <2>2
<1> HIDE DEF r
<1>5. DOMAIN r \subseteq Names
  BY <1>1 DEF Typed
<1>6. r \in [DOMAIN r -> Prototypes]
  BY <1>1, <1>4
<1> QED BY <1>4, <1>5, <1>6 DEF Knows, Typed, r

(* The new prototype of a type has this type (HasClassRegistry.ipp:44). *)
LEMMA NewPrototypeType ==
  ASSUME NEW tp \in Types, made \in [Types -> 0..Generations], made[tp] < Generations
  PROVE  /\ NewPrototype(tp) \in Prototypes
         /\ NewPrototype(tp).type = tp
         /\ [made EXCEPT ![tp] = @ + 1] \in [Types -> 0..Generations]
<1>1. made[tp] \in Nat /\ Generations \in Nat
  BY RegistryAssumption
<1>2. made[tp] + 1 \in 1..Generations /\ made[tp] + 1 \in 0..Generations
  BY <1>1
<1> QED BY <1>2 DEF NewPrototype, Prototypes

(* The empty registry (HasClassRegistry.ipp:165). *)
LEMMA InitRegistryInv == RegistryInit => RegistryInv
<1> SUFFICES ASSUME RegistryInit PROVE RegistryInv
  OBVIOUS
<1>1. DOMAIN registry = {} /\ registry \in [DOMAIN registry -> Prototypes]
  BY DEF RegistryInit
<1>2. made \in [Types -> 0..Generations]
  BY RegistryAssumption DEF RegistryInit
<1> QED BY <1>1, <1>2 DEF RegistryInv, RegistryTypeOK, TypesKnowThemselves, RegisteredTypes,
           AliasedTypes

(* Every operation keeps the invariant (HasClassRegistry.ipp:32, 53, 78). *)
LEMMA RegistryStepInv == RegistryInv /\ [RegistryNext]_regvars => RegistryInv'
<1> SUFFICES ASSUME RegistryInv, [RegistryNext]_regvars PROVE RegistryInv'
  OBVIOUS
<1>1. Knows(registry) /\ Typed(registry) /\ made \in [Types -> 0..Generations]
  BY DEF RegistryInv, RegistryTypeOK, TypesKnowThemselves, Knows, Typed, RegisteredTypes,
         AliasedTypes, TypeByName
<1>2. SUFFICES Knows(registry') /\ Typed(registry') /\ made' \in [Types -> 0..Generations]
  BY DEF RegistryInv, RegistryTypeOK, TypesKnowThemselves, Knows, Typed, RegisteredTypes,
         AliasedTypes, TypeByName
<1>3. ASSUME NEW tp \in Types, RegisterThisType(tp)
      PROVE  Knows(registry') /\ Typed(registry') /\ made' \in [Types -> 0..Generations]
  <2>1. /\ NewPrototype(tp) \in Prototypes /\ NewPrototype(tp).type = tp
        /\ made' \in [Types -> 0..Generations]
    BY <1>1, <1>3, NewPrototypeType DEF RegisterThisType
  <2> QED BY <1>1, <1>3, <2>1, EnterNewType DEF RegisterThisType
<1>4. ASSUME NEW tp \in Types, RegisterTable(tp)
      PROVE  Knows(registry') /\ Typed(registry') /\ made' \in [Types -> 0..Generations]
  <2> DEFINE own == Entered(registry, tp, NewPrototype(tp))
  <2>1. /\ NewPrototype(tp) \in Prototypes /\ NewPrototype(tp).type = tp
        /\ made' \in [Types -> 0..Generations]
    BY <1>1, <1>4, NewPrototypeType DEF RegisterTable
  <2>2. Knows(own) /\ Typed(own)
    BY <1>1, <1>4, <2>1, EnterNewType DEF RegisterTable
  <2>3. RadiationType[tp] \in Names
    BY <1>4, RegistryAssumption DEF RegisterTable, Names
  <2>4. CASE CanAlias(own, tp, RadiationType[tp])
    <3>1. registry' = Entered(own, RadiationType[tp], own[tp])
      BY <1>4, <2>4 DEF RegisterTable
    <3> HIDE DEF own
    <3> QED BY <2>1, <2>2, <2>3, <2>4, <3>1, EnterAlias
  <2>5. CASE ~CanAlias(own, tp, RadiationType[tp])
    BY <1>4, <2>1, <2>2, <2>5 DEF RegisterTable
  <2> QED BY <2>4, <2>5
<1>5. ASSUME NEW tp \in Names, NEW al \in Names, AliasType(tp, al)
      PROVE  Knows(registry') /\ Typed(registry') /\ made' \in [Types -> 0..Generations]
  BY <1>1, <1>5, EnterAlias DEF AliasType
<1>6. ASSUME NEW tp \in Names, DeregisterType(tp)
      PROVE  Knows(registry') /\ Typed(registry') /\ made' \in [Types -> 0..Generations]
  <2>1. registry' = [n \in Others(tp) |-> registry[n]] /\ made' = made
    BY <1>6 DEF DeregisterType
  <2>2. \A n \in Others(tp) : n \in DOMAIN registry /\ registry[n] # registry[tp]
    BY DEF Others
  <2>3. \A n \in Others(tp) : registry[n].type \in Others(tp)
    BY <1>1, <2>2 DEF Knows, Others
  <2>4. Knows(registry')
    BY <1>1, <2>1, <2>2, <2>3 DEF Knows
  <2>5. Typed(registry')
    BY <1>1, <2>1, <2>2 DEF Typed
  <2> QED BY <1>1, <2>1, <2>4, <2>5
<1>7. CASE UNCHANGED regvars
  BY <1>1, <1>7 DEF regvars
<1> QED BY <1>3, <1>4, <1>5, <1>6, <1>7 DEF RegistryNext

(* Names lead to registered types in every reachable registry. *)
THEOREM TypesKnowThemselvesAlways == RegistrySpec => []TypesKnowThemselves
<1>1. RegistryInv => TypesKnowThemselves
  BY DEF RegistryInv
<1> QED BY InitRegistryInv, RegistryStepInv, <1>1, PTL DEF RegistrySpec

(* Names are those of types and aliases, pointers those of prototypes. *)
THEOREM RegistryTypeCorrect == RegistrySpec => []RegistryTypeOK
<1>1. RegistryInv => RegistryTypeOK
  BY DEF RegistryInv
<1> QED BY InitRegistryInv, RegistryStepInv, <1>1, PTL DEF RegistrySpec

LEMMA SameRegistry ==
  ASSUME RegistryInv, UNCHANGED regvars
  PROVE  RegistryInv'
  BY RegistryStepInv

-----------------------------------------------------------------------------
(* Sequences of parts.                                                     *)

IsListing(q) == Len(q) \in Nat /\ q = [i \in 1..Len(q) |-> q[i]]

LEMMA ListingProperties ==
  ASSUME NEW q, IsListing(q), NEW x
  PROVE  /\ DOMAIN q = 1..Len(q)
         /\ IsListing(Append(q, x)) /\ Len(Append(q, x)) = Len(q) + 1
         /\ Append(q, x)[Len(q) + 1] = x
         /\ \A i \in 1..Len(q) : Append(q, x)[i] = q[i]
<1> DEFINE S == {q[i] : i \in 1..Len(q)} \cup {x}
<1>1. q \in Seq(S) /\ x \in S
  <2>1. q = [i \in 1..Len(q) |-> q[i]] /\ Len(q) \in Nat
    BY DEF IsListing
  <2>2. q \in [1..Len(q) -> S]
    BY <2>1
  <2> QED BY <2>1, <2>2
<1> HIDE DEF S
<1>2. /\ Append(q, x) \in Seq(S) /\ Len(Append(q, x)) = Len(q) + 1 /\ Len(q) \in Nat
      /\ Append(q, x)[Len(q) + 1] = x
      /\ \A i \in 1..Len(q) : Append(q, x)[i] = q[i]
  BY <1>1
<1>3. DOMAIN q = 1..Len(q)
  BY <1>1
<1>4. \A r \in Seq(S) : IsListing(r)
  BY DEF IsListing
<1>5. IsListing(Append(q, x))
  BY <1>2, <1>4
<1> QED BY <1>2, <1>3, <1>5

-----------------------------------------------------------------------------
(* How calculators use their parts.                                        *)

IsPart(x) == x = [type |-> x.type, data |-> x.data] /\ x.type \in Types

Fields == {"own", "width", "table", "envelopes", "profile", "baseline"}

(* Whatever calculator c has in a role is a part of that kind. *)
UsesWell(c, u, ps) ==
  /\ DOMAIN u = Fields /\ u = [f \in Fields |-> u[f]]
  /\ u.own \in DOMAIN ps /\ KindOf[ps[u.own].type] = "calculator"
  /\ \A role \in RolesOf(c) : u[role] \in DOMAIN ps /\ KindOf[ps[u[role]].type] = role
  /\ \A t \in DOMAIN u.envelopes :
       /\ u.envelopes[t] \in DOMAIN ps
       /\ ps[u.envelopes[t]].type = t /\ KindOf[t] = "envelope"

UsesInv ==
  /\ RegistryInv
  /\ IsListing(parts) /\ IsListing(newer) /\ Len(newer) = Len(parts)
  /\ \A i \in DOMAIN parts : IsPart(parts[i])
  /\ DOMAIN uses = Calculators
  /\ \A c \in Calculators : UsesWell(c, uses[c], parts)
  /\ DOMAIN valued = Calculators
  /\ edits \in 0..MaxEdits

(* Parts that keep their type can be used as before. *)
LEMMA UsesWellAfter ==
  ASSUME NEW c, NEW u, NEW ps, UsesWell(c, u, ps), NEW qs,
         \A i \in DOMAIN ps : i \in DOMAIN qs /\ qs[i].type = ps[i].type
  PROVE  UsesWell(c, u, qs)
  BY DEF UsesWell

LEMMA RolesAreFields ==
  ASSUME NEW c
  PROVE  /\ RolesOf(c) \subseteq Roles
         /\ Roles \subseteq Fields \ {"own", "envelopes"}
  BY DEF RolesOf, Roles, Fields

(* A part of a kind can take the role. *)
LEMMA TakesRole ==
  ASSUME NEW c, NEW u, NEW ps, UsesWell(c, u, ps), NEW role \in RolesOf(c),
         NEW i \in DOMAIN ps, KindOf[ps[i].type] = role
  PROVE  UsesWell(c, [u EXCEPT ![role] = i], ps)
<1> DEFINE v == [u EXCEPT ![role] = i]
<1>1. role \in Fields \ {"own", "envelopes"}
  BY RolesAreFields
<1>2. /\ DOMAIN v = Fields /\ v = [f \in Fields |-> v[f]]
      /\ v[role] = i /\ \A f \in Fields : f # role => v[f] = u[f]
  BY <1>1 DEF UsesWell
<1> HIDE DEF v
<1>3. v.own = u.own /\ v.envelopes = u.envelopes
  BY <1>1, <1>2 DEF Fields
<1>4. \A r \in RolesOf(c) : v[r] \in DOMAIN ps /\ KindOf[ps[v[r]].type] = r
  BY <1>2, RolesAreFields DEF UsesWell
<1>5. UsesWell(c, v, ps)
  BY <1>2, <1>3, <1>4 DEF UsesWell
<1> QED BY <1>5 DEF v

(* Envelopes of their own types can be held. *)
LEMMA HoldsEnvelopes ==
  ASSUME NEW c, NEW u, NEW ps, UsesWell(c, u, ps), NEW held,
         \A t \in DOMAIN held : /\ held[t] \in DOMAIN ps
                               /\ ps[held[t]].type = t /\ KindOf[t] = "envelope"
  PROVE  UsesWell(c, [u EXCEPT !.envelopes = held], ps)
<1> DEFINE v == [u EXCEPT !.envelopes = held]
<1>1. /\ DOMAIN v = Fields /\ v = [f \in Fields |-> v[f]]
      /\ v.envelopes = held /\ \A f \in Fields : f # "envelopes" => v[f] = u[f]
  BY DEF UsesWell, Fields
<1> HIDE DEF v
<1>2. v.own = u.own
  BY <1>1 DEF Fields
<1>3. \A r \in RolesOf(c) : v[r] = u[r]
  BY <1>1, RolesAreFields
<1>4. UsesWell(c, v, ps)
  BY <1>1, <1>2, <1>3 DEF UsesWell
<1> QED BY <1>4 DEF v

-----------------------------------------------------------------------------
(* Attributes.                                                             *)

(***************************************************************************)
(* An attribute tells the kind of the part it belongs to, and an attribute *)
(* of an envelope its type.                                                *)
(***************************************************************************)
LEMMA AttributesTellKinds ==
  ASSUME NEW s \in Types, NEW t \in Types, NEW name,
         name \in AttributesOf(s), name \in AttributesOf(t)
  PROVE  KindOf[s] = KindOf[t] /\ KindOf[s] # "table" /\ (KindOf[s] = "envelope" => s = t)
  BY PartsAssumption DEF AttributesOf, QResolutionAttributes

LEMMA OneHolder ==
  ASSUME UsesInv, NEW c \in Calculators, NEW name,
         NEW i \in Holders(c, name), NEW j \in Holders(c, name)
  PROVE  i = j
<1> DEFINE u == uses[c]
           kind(x) == KindOf[parts[x].type]
<1>1. UsesWell(c, u, parts)
  BY DEF UsesInv
<1>2. ASSUME NEW x \in Visited(c)
      PROVE  /\ x \in DOMAIN parts /\ parts[x].type \in Types
             /\ \/ x = u.own /\ kind(x) = "calculator"
                \/ \E role \in RolesOf(c) : x = u[role] /\ kind(x) = role
                \/ /\ kind(x) = "envelope"
                   /\ parts[x].type \in DOMAIN u.envelopes /\ u.envelopes[parts[x].type] = x
  <2>1. CASE x = u.own
    BY <1>1, <2>1 DEF UsesWell, UsesInv, IsPart
  <2>2. CASE \E role \in RolesOf(c) : x = u[role]
    BY <1>1, <2>2 DEF UsesWell, UsesInv, IsPart
  <2>3. CASE x \in Envelopes(c)
    BY <1>1, <2>3 DEF UsesWell, UsesInv, IsPart, Envelopes
  <2> QED BY <2>1, <2>2, <2>3 DEF Visited
<1>3. /\ i \in Visited(c) /\ j \in Visited(c)
      /\ name \in AttributesOf(parts[i].type) /\ name \in AttributesOf(parts[j].type)
  BY DEF Holders
<1>4. kind(i) = kind(j) /\ (kind(i) = "envelope" => parts[i].type = parts[j].type)
  BY <1>2, <1>3, AttributesTellKinds
<1>5. "calculator" \notin RolesOf(c) /\ "envelope" \notin RolesOf(c)
  BY DEF RolesOf, Roles
<1> QED BY <1>2, <1>3, <1>4, <1>5

LEMMA UsesResolve == UsesInv => AttributesResolve
<1> SUFFICES ASSUME UsesInv, NEW c \in Calculators, NEW i \in Visited(c), NEW j \in Visited(c),
                    NEW name \in AttributesOf(parts[i].type) \cap AttributesOf(parts[j].type)
             PROVE  i = j
  BY DEF AttributesResolve
<1>1. i \in Holders(c, name) /\ j \in Holders(c, name)
  BY DEF Holders
<1> QED BY <1>1, OneHolder

-----------------------------------------------------------------------------
(* Types.                                                                  *)

LEMMA InitialRegistry ==
  ASSUME registry = Registered, made = [t \in Types |-> IF t \in DOMAIN Registered THEN 1 ELSE Generations]
  PROVE  RegistryInv
<1> DEFINE own == {t \in Types : KindOf[t] # "calculator"}
           from(n) == CHOOSE t \in DOMAIN RadiationType : RadiationType[t] = n
<1>1. DOMAIN registry = own \cup {RadiationType[t] : t \in DOMAIN RadiationType}
  BY DEF Registered
<1>2. \A t \in DOMAIN RadiationType : t \in own /\ RadiationType[t] \in Types \cup Aliases
  BY RegistryAssumption, PartsAssumption
<1>3. ASSUME NEW n \in DOMAIN registry
      PROVE  /\ registry[n] = [type |-> IF n \in Types THEN n ELSE from(n), number |-> 1]
             /\ n \notin Types => from(n) \in own
  <2>1. n \notin Types => from(n) \in DOMAIN RadiationType
    BY <1>1
  <2> QED BY <1>1, <1>2, <2>1 DEF Registered
<1> HIDE DEF from
<1>4. 1 \in 1..Generations /\ 1 \in 0..Generations /\ Generations \in 0..Generations
  BY RegistryAssumption
<1>5. ASSUME NEW n \in DOMAIN registry
      PROVE  /\ registry[n] \in Prototypes /\ registry[n].type \in DOMAIN registry
             /\ registry[registry[n].type] = registry[n]
  <2> DEFINE t == IF n \in Types THEN n ELSE from(n)
  <2>1. t \in Types /\ t \in DOMAIN registry
    BY <1>1, <1>3
  <2>2. registry[n] = [type |-> t, number |-> 1] /\ registry[t] = [type |-> t, number |-> 1]
    BY <1>3, <2>1
  <2> HIDE DEF t
  <2> QED BY <1>4, <2>1, <2>2 DEF Prototypes
<1>6. registry = [n \in DOMAIN registry |-> registry[n]]
  BY DEF Registered
<1>7. DOMAIN registry \subseteq Names
  BY <1>1, <1>2 DEF Names
<1>8. made \in [Types -> 0..Generations]
  BY <1>4
<1> QED BY <1>5, <1>6, <1>7, <1>8
        DEF RegistryInv, RegistryTypeOK, TypesKnowThemselves, RegisteredTypes, AliasedTypes, TypeByName

(* Every calculator is built at some point. *)
LEMMA AllAreBuilt ==
  /\ Cardinality(Calculators) \in Nat
  /\ Built \in [1..Cardinality(Calculators) -> Calculators]
  /\ \A c \in Calculators : \E k \in 1..Cardinality(Calculators) : Built[k] = c
<1> DEFINE n == Cardinality(Calculators)
<1>1. n \in Nat /\ ExistsBijection(1..n, Calculators)
  BY PartsAssumption, FS_CardinalityType
<1>2. \E order \in [1..n -> Calculators] :
        \A c \in Calculators : \E k \in DOMAIN order : order[k] = c
  BY <1>1 DEF ExistsBijection, Bijection, Surjection
<1>3. /\ Built \in [1..n -> Calculators]
      /\ \A c \in Calculators : \E k \in DOMAIN Built : Built[k] = c
  BY <1>2 DEF Built
<1> QED BY <1>1, <1>3

LEMMA DefaultPartsType ==
  ASSUME NEW c \in Calculators
  PROVE  LET ps == DefaultParts(c)
         IN  /\ DOMAIN ps = 1..6 /\ \A j \in 1..6 : IsPart(ps[j])
             /\ KindOf[ps[1].type] = "calculator" /\ KindOf[ps[2].type] = "width"
             /\ KindOf[ps[3].type] = "table" /\ ps[4].type = "scale" /\ KindOf["scale"] = "envelope"
             /\ KindOf[ps[5].type] = "profile" /\ KindOf[ps[6].type] = "baseline"
<1>1. \A x : NewPart(x) = [type |-> x, data |-> NewData(x)]
  BY DEF NewPart
<1>2. "xray" \in Types /\ KindOf["xray"] = "table"
  BY RegistryAssumption, PartsAssumption
<1> QED BY <1>1, <1>2, PartsAssumption DEF DefaultParts, IsPart

LEMMA InitUses == Init => UsesInv
<1> SUFFICES ASSUME Init PROVE UsesInv
  OBVIOUS
<1> DEFINE n == Cardinality(Calculators)
<1>1. n \in Nat /\ Built \in [1..n -> Calculators]
  BY AllAreBuilt
<1>2. /\ parts = [i \in 1..6 * n |-> DefaultParts(Built[(i + 5) \div 6])[((i - 1) % 6) + 1]]
      /\ newer = [i \in 1..6 * n |-> Calculators]
  BY DEF Init
<1>3. 6 * n \in Nat
  BY <1>1
<1> HIDE DEF n
<1>4. /\ IsListing(parts) /\ IsListing(newer)
      /\ Len(newer) = 6 * n /\ Len(parts) = 6 * n /\ DOMAIN parts = 1..6 * n
  BY <1>2, <1>3 DEF IsListing
<1>5. ASSUME NEW k \in 1..n, NEW j \in 1..6
      PROVE  /\ 6 * k - 6 + j \in 1..6 * n
             /\ parts[6 * k - 6 + j] = DefaultParts(Built[k])[j]
  <2>1. 6 * k - 6 + j \in 1..6 * n
    BY <1>1
  <2>2. (6 * k - 6 + j + 5) \div 6 = k /\ ((6 * k - 6 + j - 1) % 6) + 1 = j
    BY <1>1
  <2> QED BY <1>2, <2>1, <2>2
<1>6. ASSUME NEW i \in 1..6 * n PROVE IsPart(parts[i])
  <2>1. (i + 5) \div 6 \in 1..n /\ ((i - 1) % 6) + 1 \in 1..6
    BY <1>1
  <2>2. Built[(i + 5) \div 6] \in Calculators
    BY <1>1, <2>1
  <2> QED BY <1>2, <2>1, <2>2, DefaultPartsType
<1>7. ASSUME NEW c \in Calculators PROVE UsesWell(c, uses[c], parts)
  <2> DEFINE k == CHOOSE k \in DOMAIN Built : Built[k] = c
             first == 6 * k - 5
  <2>1. k \in 1..n /\ Built[k] = c
    BY AllAreBuilt DEF n
  <2>2. uses[c] = DefaultUses(c, first)
    BY DEF Init
  <2> HIDE DEF k
  <2>3. ASSUME NEW j \in 0..5
        PROVE  first + j \in DOMAIN parts /\ parts[first + j] = DefaultParts(c)[j + 1]
    <3>1. first + j = 6 * k - 6 + (j + 1) /\ j + 1 \in 1..6
      BY <1>1, <2>1
    <3> QED BY <1>4, <1>5, <2>1, <3>1
  <2> HIDE DEF first
  <2>4. first \in Int
    BY <1>1, <2>1 DEF first
  <2>5. /\ first \in DOMAIN parts /\ parts[first] = DefaultParts(c)[1]
        /\ first + 1 \in DOMAIN parts /\ parts[first + 1] = DefaultParts(c)[2]
        /\ first + 2 \in DOMAIN parts /\ parts[first + 2] = DefaultParts(c)[3]
        /\ first + 3 \in DOMAIN parts /\ parts[first + 3] = DefaultParts(c)[4]
        /\ first + 4 \in DOMAIN parts /\ parts[first + 4] = DefaultParts(c)[5]
        /\ first + 5 \in DOMAIN parts /\ parts[first + 5] = DefaultParts(c)[6]
    <3>1. first + 0 = first /\ 0 + 1 = 1 /\ 1 + 1 = 2 /\ 2 + 1 = 3 /\ 3 + 1 = 4
          /\ 4 + 1 = 5 /\ 5 + 1 = 6
      BY <2>4
    <3> QED BY <2>3, <3>1
  <2>6. DOMAIN uses[c] = Fields /\ uses[c] = [f \in Fields |-> uses[c][f]]
    BY <2>2 DEF DefaultUses, Fields
  <2>7. /\ uses[c].own = first /\ uses[c].width = first + 1 /\ uses[c].table = first + 2
        /\ uses[c].envelopes = [t \in {"scale"} |-> first + 3]
        /\ c \in PDFs => uses[c].profile = first + 4 /\ uses[c].baseline = first + 5
    BY <2>2 DEF DefaultUses
  <2>8. \A role \in RolesOf(c) :
          uses[c][role] \in DOMAIN parts /\ KindOf[parts[uses[c][role]].type] = role
    BY <2>5, <2>7, DefaultPartsType DEF RolesOf, Roles
  <2> QED BY <2>5, <2>6, <2>7, <2>8, DefaultPartsType DEF UsesWell
<1>8. RegistryInv
  BY InitialRegistry DEF Init
<1>9. DOMAIN uses = Calculators /\ DOMAIN valued = Calculators /\ edits \in 0..MaxEdits
  BY PartsAssumption DEF Init
<1> QED BY <1>4, <1>6, <1>7, <1>8, <1>9 DEF UsesInv

(* Parts that are used well stay so when some get new data and new ones are made. *)
LEMMA PartsKeep ==
  ASSUME UsesInv, uses' = uses,
         \A i \in DOMAIN parts : i \in DOMAIN parts' /\ parts'[i].type = parts[i].type
  PROVE  \A c \in Calculators : UsesWell(c, uses'[c], parts')
  BY UsesWellAfter DEF UsesInv

LEMMA FunctionIsListing ==
  ASSUME NEW n \in Nat, NEW q, q = [i \in 1..n |-> q[i]]
  PROVE  Len(q) = n /\ IsListing(q)
<1> DEFINE S == {q[i] : i \in 1..n}
<1>1. q \in [1..n -> S]
  OBVIOUS
<1>2. q \in Seq(S) /\ Len(q) = n
  BY <1>1
<1> QED BY <1>2 DEF IsListing

(* A part gets new data: its type and all other parts stay. *)
LEMMA OtherData ==
  ASSUME UsesInv, NEW i \in DOMAIN parts, NEW data, parts' = [parts EXCEPT ![i].data = data]
  PROVE  /\ DOMAIN parts' = DOMAIN parts /\ IsListing(parts') /\ Len(parts') = Len(parts)
         /\ parts'[i] = [type |-> parts[i].type, data |-> data]
         /\ \A j \in DOMAIN parts : j # i => parts'[j] = parts[j]
<1>1. /\ Len(parts) \in Nat /\ parts = [j \in 1..Len(parts) |-> parts[j]]
      /\ parts[i] = [type |-> parts[i].type, data |-> parts[i].data]
  BY DEF UsesInv, IsListing, IsPart
<1>2. parts' = [j \in 1..Len(parts) |->
                  IF j = i THEN [type |-> parts[i].type, data |-> data] ELSE parts[j]]
  <2> DEFINE x == [parts[i] EXCEPT !.data = data]
  <2>1. x = [type |-> parts[i].type, data |-> data]
    BY <1>1
  <2>2. parts' = [parts EXCEPT ![i] = x]
    OBVIOUS
  <2> HIDE DEF x
  <2>3. parts' = [j \in 1..Len(parts) |-> IF j = i THEN x ELSE parts[j]]
    BY <1>1, <2>2
  <2> QED BY <2>1, <2>3
<1>3. i \in 1..Len(parts) /\ DOMAIN parts = 1..Len(parts)
  BY <1>1
<1>4. Len(parts') = Len(parts) /\ IsListing(parts')
  <2>1. parts' = [j \in 1..Len(parts) |-> parts'[j]]
    BY <1>2
  <2> QED BY <1>1, <2>1, FunctionIsListing
<1> QED BY <1>2, <1>3, <1>4

LEMMA ChangeKeeps ==
  ASSUME UsesInv, NEW i \in DOMAIN parts, NEW data, Change(i, data)
  PROVE  /\ DOMAIN parts' = DOMAIN parts /\ IsListing(parts') /\ IsListing(newer')
         /\ Len(newer') = Len(newer) /\ Len(parts') = Len(parts)
         /\ parts'[i] = [type |-> parts[i].type, data |-> data]
         /\ \A j \in DOMAIN parts : j # i => parts'[j] = parts[j]
<1>1. parts' = [parts EXCEPT ![i].data = data]
  BY DEF Change
<1>2. /\ Len(parts) \in Nat
      /\ Len(newer) = Len(parts) /\ newer = [j \in 1..Len(parts) |-> newer[j]]
  BY DEF UsesInv, IsListing
<1>3. newer' = [j \in 1..Len(parts) |-> newer'[j]]
  BY <1>2 DEF Change
<1>4. Len(newer') = Len(newer) /\ IsListing(newer')
  BY <1>2, <1>3 DEF IsListing
<1> QED BY <1>1, <1>4, OtherData

LEMMA ChangeUses ==
  ASSUME UsesInv, Edit, NEW i \in DOMAIN parts, NEW data, Change(i, data)
  PROVE  UsesInv'
<1>1. /\ DOMAIN parts' = DOMAIN parts /\ IsListing(parts') /\ IsListing(newer')
      /\ Len(newer') = Len(parts')
      /\ parts'[i] = [type |-> parts[i].type, data |-> data]
      /\ \A j \in DOMAIN parts : j # i => parts'[j] = parts[j]
  BY ChangeKeeps DEF UsesInv
<1>2. parts'[i].type = parts[i].type /\ IsPart(parts'[i])
  BY <1>1 DEF UsesInv, IsPart
<1>3. \A j \in DOMAIN parts : parts'[j].type = parts[j].type
  BY <1>1, <1>2
<1>4. \A j \in DOMAIN parts' : IsPart(parts'[j])
  BY <1>1, <1>2 DEF UsesInv
<1>5. \A c \in Calculators : UsesWell(c, uses'[c], parts')
  BY <1>1, <1>3, PartsKeep DEF Change
<1>6. edits' \in 0..MaxEdits
  BY PartsAssumption DEF Edit, UsesInv
<1> QED BY <1>1, <1>4, <1>5, <1>6, SameRegistry DEF UsesInv, Change

(* A part is made and taken: what else is used stays. *)
LEMMA MadePart ==
  ASSUME UsesInv, NEW x, IsPart(x), NEW ticker,
         parts' = Append(parts, x), newer' = Append(newer, ticker)
  PROVE  /\ IsListing(parts') /\ IsListing(newer') /\ Len(newer') = Len(parts')
         /\ \A j \in DOMAIN parts' : IsPart(parts'[j])
         /\ \A j \in DOMAIN parts : /\ j \in DOMAIN parts' /\ parts'[j] = parts[j]
                                   /\ newer'[j] = newer[j]
         /\ Len(parts) + 1 \in DOMAIN parts' /\ parts'[Len(parts) + 1] = x
         /\ newer'[Len(parts) + 1] = ticker
         /\ \A c \in Calculators : UsesWell(c, uses[c], parts')
<1>1. /\ Len(parts) \in Nat /\ Len(newer) = Len(parts) /\ DOMAIN parts = 1..Len(parts)
      /\ IsListing(parts') /\ Len(parts') = Len(parts) + 1 /\ DOMAIN parts' = 1..Len(parts')
      /\ parts'[Len(parts) + 1] = x /\ \A j \in 1..Len(parts) : parts'[j] = parts[j]
  BY ListingProperties DEF UsesInv, IsListing
<1>2. /\ IsListing(newer') /\ Len(newer') = Len(newer) + 1
      /\ newer'[Len(parts) + 1] = ticker /\ \A j \in 1..Len(parts) : newer'[j] = newer[j]
  BY ListingProperties DEF UsesInv
<1>3. \A j \in DOMAIN parts' : IsPart(parts'[j])
  BY <1>1 DEF UsesInv
<1>4. ASSUME NEW c \in Calculators PROVE UsesWell(c, uses[c], parts')
  <2>1. UsesWell(c, uses[c], parts)
    BY DEF UsesInv
  <2>2. \A i \in DOMAIN parts : i \in DOMAIN parts' /\ parts'[i].type = parts[i].type
    BY <1>1
  <2> QED BY <2>1, <2>2, UsesWellAfter
<1> QED BY <1>1, <1>2, <1>3, <1>4

LEMMA SetPartUses ==
  ASSUME UsesInv, NEW c \in Calculators, NEW role \in Roles, NEW i \in DOMAIN parts,
         SetPart(c, role, i)
  PROVE  UsesInv'
<1>1. /\ UsesWell(c, uses[c], parts) /\ role \in RolesOf(c) /\ KindOf[parts[i].type] = role
      /\ uses' = [uses EXCEPT ![c] = [uses[c] EXCEPT ![role] = i]]
  BY DEF SetPart, UsesInv
<1>2. UsesWell(c, [uses[c] EXCEPT ![role] = i], parts)
  BY <1>1, TakesRole
<1>3. \A d \in Calculators : UsesWell(d, uses'[d], parts)
  BY <1>1, <1>2 DEF UsesInv
<1>4. edits' \in 0..MaxEdits /\ DOMAIN uses' = Calculators
  BY PartsAssumption DEF SetPart, Edit, UsesInv
<1> QED BY <1>3, <1>4, SameRegistry DEF UsesInv, SetPart

(* createByType makes parts of registered types. *)
LEMMA MadeType ==
  ASSUME UsesInv, NEW c, NEW name \in DOMAIN registry
  PROVE  LET type == TypeByName(name)
         IN  /\ IsPart(Made(c, type)) /\ Made(c, type).type = type
             /\ IsPart(NewPart(type)) /\ NewPart(type).type = type
<1>1. TypeByName(name) \in Types
  BY DEF TypeByName, UsesInv, RegistryInv, RegistryTypeOK, Prototypes
<1> QED BY <1>1 DEF Made, NewPart, IsPart

LEMMA SetPartByTypeUses ==
  ASSUME UsesInv, NEW c \in Calculators, NEW role \in Roles, NEW name,
         SetPartByType(c, role, name)
  PROVE  UsesInv'
<1> DEFINE type == TypeByName(name)
           i == Len(parts) + 1
<1>1. /\ role \in RolesOf(c) /\ name \in DOMAIN registry /\ KindOf[type] = role
      /\ parts' = Append(parts, Made(c, type)) /\ newer' = Append(newer, NewTicker(type))
      /\ uses' = [uses EXCEPT ![c] = [uses[c] EXCEPT ![role] = i]]
  BY DEF SetPartByType
<1>2. IsPart(Made(c, type)) /\ Made(c, type).type = type
  BY <1>1, MadeType
<1> HIDE DEF type
<1>3. /\ IsListing(parts') /\ IsListing(newer') /\ Len(newer') = Len(parts')
      /\ \A j \in DOMAIN parts' : IsPart(parts'[j])
      /\ i \in DOMAIN parts' /\ parts'[i] = Made(c, type)
      /\ \A d \in Calculators : UsesWell(d, uses[d], parts')
  BY <1>1, <1>2, MadePart
<1> HIDE DEF i
<1>4. UsesWell(c, [uses[c] EXCEPT ![role] = i], parts')
  BY <1>1, <1>2, <1>3, TakesRole
<1>5. \A d \in Calculators : UsesWell(d, uses'[d], parts')
  BY <1>1, <1>3, <1>4 DEF UsesInv
<1>6. edits' \in 0..MaxEdits /\ DOMAIN uses' = Calculators
  BY PartsAssumption DEF SetPartByType, Edit, UsesInv
<1> QED BY <1>3, <1>5, <1>6, SameRegistry DEF UsesInv, SetPartByType

LEMMA AddEnvelopeUses ==
  ASSUME UsesInv, NEW c \in Calculators, NEW i \in DOMAIN parts, AddEnvelope(c, i)
  PROVE  UsesInv'
<1> DEFINE held == WithEnvelope(c, i, parts[i].type)
<1>1. /\ UsesWell(c, uses[c], parts) /\ KindOf[parts[i].type] = "envelope"
      /\ uses' = [uses EXCEPT ![c] = [uses[c] EXCEPT !.envelopes = held]]
  BY DEF AddEnvelope, UsesInv
<1>2. \A t \in DOMAIN held : /\ held[t] \in DOMAIN parts
                            /\ parts[held[t]].type = t /\ KindOf[t] = "envelope"
  BY <1>1 DEF UsesWell, WithEnvelope, EnvelopeKey
<1> HIDE DEF held
<1>3. UsesWell(c, [uses[c] EXCEPT !.envelopes = held], parts)
  BY <1>1, <1>2, HoldsEnvelopes
<1>4. \A d \in Calculators : UsesWell(d, uses'[d], parts)
  BY <1>1, <1>3 DEF UsesInv
<1>5. edits' \in 0..MaxEdits /\ DOMAIN uses' = Calculators
  BY PartsAssumption DEF AddEnvelope, Edit, UsesInv
<1> QED BY <1>4, <1>5, SameRegistry DEF UsesInv, AddEnvelope

LEMMA AddEnvelopeByTypeUses ==
  ASSUME UsesInv, NEW c \in Calculators, NEW name, AddEnvelopeByType(c, name)
  PROVE  UsesInv'
<1> DEFINE type == TypeByName(name)
           i == Len(parts) + 1
           held == WithEnvelope(c, i, type)
<1>1. /\ name \in DOMAIN registry /\ KindOf[type] = "envelope"
      /\ parts' = Append(parts, NewPart(type)) /\ newer' = Append(newer, {})
      /\ uses' = [uses EXCEPT ![c] = [uses[c] EXCEPT !.envelopes = held]]
  BY DEF AddEnvelopeByType
<1>2. IsPart(NewPart(type)) /\ NewPart(type).type = type
  BY <1>1, MadeType
<1> HIDE DEF type
<1>3. /\ IsListing(parts') /\ IsListing(newer') /\ Len(newer') = Len(parts')
      /\ \A j \in DOMAIN parts' : IsPart(parts'[j])
      /\ i \in DOMAIN parts' /\ parts'[i] = NewPart(type)
      /\ \A d \in Calculators : UsesWell(d, uses[d], parts')
  BY <1>1, <1>2, MadePart
<1> HIDE DEF i
<1>4. \A t \in DOMAIN held : /\ held[t] \in DOMAIN parts'
                            /\ parts'[held[t]].type = t /\ KindOf[t] = "envelope"
  <2>1. UsesWell(c, uses[c], parts')
    BY <1>3
  <2>2. held = [t \in DOMAIN uses[c].envelopes \cup {type} |->
                  IF t = type THEN i ELSE uses[c].envelopes[t]]
    BY DEF WithEnvelope, EnvelopeKey
  <2> HIDE DEF held
  <2>3. DOMAIN held = DOMAIN uses[c].envelopes \cup {type} /\ held[type] = i
    BY <2>2
  <2>4. \A t \in DOMAIN uses[c].envelopes : t # type => held[t] = uses[c].envelopes[t]
    BY <2>2
  <2>5. \A t \in DOMAIN uses[c].envelopes :
          /\ uses[c].envelopes[t] \in DOMAIN parts'
          /\ parts'[uses[c].envelopes[t]].type = t /\ KindOf[t] = "envelope"
    BY <2>1 DEF UsesWell
  <2>6. i \in DOMAIN parts' /\ parts'[i].type = type /\ KindOf[type] = "envelope"
    BY <1>1, <1>2, <1>3
  <2> QED BY <2>3, <2>4, <2>5, <2>6
<1> HIDE DEF held
<1>5. UsesWell(c, [uses[c] EXCEPT !.envelopes = held], parts')
  BY <1>3, <1>4, HoldsEnvelopes
<1>6. \A d \in Calculators : UsesWell(d, uses'[d], parts')
  BY <1>1, <1>3, <1>5 DEF UsesInv
<1>7. edits' \in 0..MaxEdits /\ DOMAIN uses' = Calculators
  BY PartsAssumption DEF AddEnvelopeByType, Edit, UsesInv
<1> QED BY <1>3, <1>6, <1>7, SameRegistry DEF UsesInv, AddEnvelopeByType

LEMMA PopEnvelopesUses ==
  ASSUME UsesInv, NEW c \in Calculators, NEW types, PopEnvelopes(c, types)
  PROVE  UsesInv'
<1> DEFINE held == WithoutEnvelopes(c, types)
<1>1. /\ UsesWell(c, uses[c], parts)
      /\ uses' = [uses EXCEPT ![c] = [uses[c] EXCEPT !.envelopes = held]]
  BY DEF PopEnvelopes, UsesInv
<1>2. \A t \in DOMAIN held : /\ held[t] \in DOMAIN parts
                            /\ parts[held[t]].type = t /\ KindOf[t] = "envelope"
  BY <1>1 DEF UsesWell, WithoutEnvelopes
<1> HIDE DEF held
<1>3. UsesWell(c, [uses[c] EXCEPT !.envelopes = held], parts)
  BY <1>1, <1>2, HoldsEnvelopes
<1>4. \A d \in Calculators : UsesWell(d, uses'[d], parts)
  BY <1>1, <1>3 DEF UsesInv
<1>5. edits' \in 0..MaxEdits /\ DOMAIN uses' = Calculators
  BY PartsAssumption DEF PopEnvelopes, Edit, UsesInv
<1> QED BY <1>4, <1>5, SameRegistry DEF UsesInv, PopEnvelopes

(* An evaluation writes into a baseline, and leaves all other parts. *)
LEMMA EvalParts ==
  ASSUME UsesInv, NEW c \in Calculators, Eval(c)
  PROVE  /\ DOMAIN parts' = DOMAIN parts /\ IsListing(parts') /\ Len(parts') = Len(parts)
         /\ \A i \in DOMAIN parts :
              /\ IsPart(parts'[i]) /\ parts'[i].type = parts[i].type
              /\ KindOf[parts[i].type] # "baseline" => parts'[i] = parts[i]
<1>1. PICK slope \in Slopes : parts' = Sloped(c, slope)
  BY DEF Eval
<1>2. CASE parts' = parts
  BY <1>2 DEF UsesInv
<1>3. CASE parts' # parts
  <2> DEFINE b == uses[c].baseline
             data == [slope |-> slope]
  <2>1. c \in PDFs /\ parts[b].type = "linear" /\ parts' = [parts EXCEPT ![b].data = data]
    BY <1>1, <1>3 DEF Sloped, PartOf
  <2>2. b \in DOMAIN parts /\ KindOf[parts[b].type] = "baseline"
    <3>1. UsesWell(c, uses[c], parts) /\ "baseline" \in RolesOf(c)
      BY <2>1 DEF UsesInv, RolesOf, Roles
    <3> QED BY <3>1 DEF UsesWell
  <2> HIDE DEF b, data
  <2>3. /\ DOMAIN parts' = DOMAIN parts /\ IsListing(parts') /\ Len(parts') = Len(parts)
        /\ parts'[b] = [type |-> parts[b].type, data |-> data]
        /\ \A j \in DOMAIN parts : j # b => parts'[j] = parts[j]
    BY <2>1, <2>2, OtherData
  <2>4. IsPart(parts'[b]) /\ parts'[b].type = parts[b].type
    BY <2>2, <2>3 DEF UsesInv, IsPart
  <2> QED BY <2>2, <2>3, <2>4 DEF UsesInv
<1> QED BY <1>2, <1>3

LEMMA EvalUses ==
  ASSUME UsesInv, NEW c \in Calculators, Eval(c)
  PROVE  UsesInv'
<1>1. /\ IsListing(newer') /\ Len(newer') = Len(newer)
      /\ \A i \in 1..Len(newer) : newer'[i] = newer[i] \ {c}
  <2>1. Len(newer) \in Nat /\ newer = [i \in 1..Len(newer) |-> newer[i]]
    BY DEF UsesInv, IsListing
  <2>2. newer' = [i \in 1..Len(newer) |-> newer[i] \ {c}]
    BY <2>1 DEF Eval
  <2> QED BY <2>1, <2>2 DEF IsListing
<1>2. DOMAIN valued' = Calculators
  BY DEF Eval, UsesInv
<1>3. uses' = uses /\ edits' = edits /\ RegistryInv'
  BY SameRegistry DEF Eval, UsesInv
<1>4. \A d \in Calculators : UsesWell(d, uses'[d], parts')
  BY <1>3, EvalParts, PartsKeep
<1>5. IsListing(parts') /\ Len(newer') = Len(parts') /\ \A i \in DOMAIN parts' : IsPart(parts'[i])
  BY <1>1, EvalParts DEF UsesInv
<1> QED BY <1>1, <1>2, <1>3, <1>4, <1>5 DEF UsesInv

(* What a step does to the parts and to how they are used. *)
LEMMA StepCases ==
  ASSUME UsesInv, Next
  PROVE  \/ UNCHANGED vars
         \/ EditRegistry
         \/ \E c \in Calculators : Eval(c)
         \/ \E i \in DOMAIN parts : \E data : Edit /\ Change(i, data)
         \/ \E c \in Calculators, role \in Roles :
              \/ \E i \in DOMAIN parts : SetPart(c, role, i)
              \/ \E name : SetPartByType(c, role, name)
         \/ \E c \in Calculators :
              \/ \E i \in DOMAIN parts : AddEnvelope(c, i)
              \/ \E name : AddEnvelopeByType(c, name)
              \/ \E types : PopEnvelopes(c, types)
<1>1. ASSUME NEW c \in Calculators, NEW name, NEW v, SetDoubleAttr(c, name, v)
      PROVE  \E i \in DOMAIN parts : \E data : Edit /\ Change(i, data)
  <2> DEFINE i == CHOOSE i \in Holders(c, name) : TRUE
  <2>1. Holders(c, name) # {}
    <3>1. Cardinality(Holders(c, name)) = 1
      BY <1>1 DEF SetDoubleAttr
    <3> QED BY <3>1, FS_EmptySet
  <2>2. i \in Holders(c, name)
    BY <2>1
  <2>3. i \in DOMAIN parts
    <3>1. UsesWell(c, uses[c], parts)
      BY DEF UsesInv
    <3>2. Visited(c) \subseteq DOMAIN parts
      BY <3>1 DEF UsesWell, Visited, Envelopes
    <3> QED BY <2>2, <3>2 DEF Holders
  <2>4. Edit /\ Change(i, Stored(parts[i].data, name, v))
    BY <1>1 DEF SetDoubleAttr
  <2> HIDE DEF i
  <2> QED BY <2>3, <2>4
<1>2. ASSUME NEW i \in Tables, NEW source, NEW v,
             SetCustomAs(i, source) \/ SetCustomValue(i, source, v) \/ ResetCustom(i)
      PROVE  \E data : Edit /\ Change(i, data) /\ i \in DOMAIN parts
  BY <1>2 DEF SetCustomAs, SetCustomValue, ResetCustom, Tables
<1>3. \A c : EvalThrows(c) => UNCHANGED vars
  BY DEF EvalThrows
<1>4. \A c, i : PopEnvelope(c, i) => \E types : PopEnvelopes(c, types)
  BY DEF PopEnvelope
<1> QED BY <1>1, <1>2, <1>3, <1>4 DEF Next

LEMMA NextUses == UsesInv /\ [Next]_vars => UsesInv'
<1> SUFFICES ASSUME UsesInv, [Next]_vars PROVE UsesInv'
  OBVIOUS
<1>1. CASE UNCHANGED vars
  BY <1>1, SameRegistry DEF UsesInv, vars, partvars
<1>2. CASE EditRegistry
  <2>1. RegistryInv'
    BY <1>2, RegistryStepInv DEF EditRegistry, UsesInv
  <2>2. edits' \in 0..MaxEdits
    BY <1>2, PartsAssumption DEF EditRegistry, Edit, UsesInv
  <2> QED BY <1>2, <2>1, <2>2 DEF EditRegistry, UsesInv
<1>3. CASE Next
  BY <1>1, <1>2, <1>3, StepCases, EvalUses, ChangeUses, SetPartUses, SetPartByTypeUses,
     AddEnvelopeUses, AddEnvelopeByTypeUses, PopEnvelopesUses
<1> QED BY <1>1, <1>3

(***************************************************************************)
(* Calculators have parts of the right kinds, and envelopes under their    *)
(* own types (PDFCalculator.cpp:67).                                       *)
(***************************************************************************)
THEOREM PartsTypeCorrect == Spec => []TypeOK
<1>1. UsesInv => TypeOK
  <2> SUFFICES ASSUME UsesInv PROVE TypeOK
    OBVIOUS
  <2>1. DOMAIN parts = 1..Len(parts) /\ DOMAIN newer = 1..Len(newer)
    BY ListingProperties DEF UsesInv
  <2> QED BY <2>1 DEF UsesInv, UsesWell, TypeOK, RegistryInv, PartOf
<1> QED BY <1>1, InitUses, NextUses, PTL DEF Spec

(***************************************************************************)
(* Names of attributes are never ambiguous, whatever parts are put into a  *)
(* calculator (Attributes.cpp:81).                                         *)
(***************************************************************************)
THEOREM AttributesAlwaysResolve == Spec => []AttributesResolve
  BY InitUses, NextUses, UsesResolve, PTL DEF Spec

-----------------------------------------------------------------------------
(* Fresh values.                                                           *)

(* Roles of the parts that the sum of c depends on. *)
Summed(c) == {"own", "width", "table"} \cup (IF c \in PDFs THEN {"profile"} ELSE {})

FreshFor(c) == ~Stale(c) => valued[c] = Effective(c)

FreshInv == UsesInv /\ \A c \in Calculators : FreshFor(c)

LEMMA StaleBySummed ==
  ASSUME NEW c
  PROVE  /\ Stale(c) <=> c \in clicked \/ \E r \in Summed(c) : c \in newer[uses[c][r]]
         /\ Stale(c)' <=> c \in clicked' \/ \E r \in Summed(c) : c \in newer'[uses'[c][r]]
<1>1. Summed(c) = {"own"} \cup (RolesOf(c) \ {"baseline"})
  BY DEF Summed, RolesOf, Roles
<1> QED BY <1>1 DEF Stale

LEMMA SummedParts ==
  ASSUME UsesInv, NEW c \in Calculators, NEW r \in Summed(c)
  PROVE  /\ uses[c][r] \in DOMAIN parts /\ uses[c][r] \in DOMAIN newer
         /\ KindOf[parts[uses[c][r]].type] \in Ticking
         /\ r \in Fields \ {"baseline", "envelopes"}
<1>1. UsesWell(c, uses[c], parts)
  BY DEF UsesInv
<1>2. r = "own" \/ r \in RolesOf(c) \ {"baseline"}
  BY DEF Summed, RolesOf, Roles
<1>3. DOMAIN newer = DOMAIN parts
  BY ListingProperties DEF UsesInv
<1>4. r \in Fields \ {"baseline", "envelopes"}
  BY DEF Summed, Fields
<1>5. RolesOf(c) \ {"baseline"} \subseteq Ticking
  BY DEF RolesOf, Roles, Ticking
<1> QED BY <1>1, <1>2, <1>3, <1>4, <1>5 DEF UsesWell, Ticking

(* Nothing else enters the sum. *)
LEMMA SameEffective ==
  ASSUME NEW c, \A r \in Summed(c) : parts'[uses'[c][r]] = parts[uses[c][r]]
  PROVE  Effective(c)' = Effective(c)
<1>1. /\ parts'[uses'[c].own] = parts[uses[c].own]
      /\ parts'[uses'[c].width] = parts[uses[c].width]
      /\ parts'[uses'[c].table] = parts[uses[c].table]
      /\ c \in PDFs => parts'[uses'[c].profile] = parts[uses[c].profile]
  BY DEF Summed
<1> QED BY <1>1 DEF Effective, PartOf, Lookup

(* A calculator that is not called stale and has the same parts as before. *)
LEMMA StaysFresh ==
  ASSUME NEW c \in Calculators, FreshFor(c), valued'[c] = valued[c],
         ~Stale(c)' => /\ ~Stale(c)
                       /\ \A r \in Summed(c) : parts'[uses'[c][r]] = parts[uses[c][r]]
  PROVE  FreshFor(c)'
<1> SUFFICES ASSUME ~Stale(c)' PROVE valued'[c] = Effective(c)'
  BY DEF FreshFor
<1>1. Effective(c)' = Effective(c)
  BY SameEffective
<1> QED BY <1>1 DEF FreshFor

LEMMA EvalFresh ==
  ASSUME FreshInv, NEW c \in Calculators, Eval(c), NEW d \in Calculators
  PROVE  FreshFor(d)'
<1>1. uses' = uses
  BY DEF Eval
<1>2. ASSUME NEW e \in Calculators, NEW r \in Summed(e)
      PROVE  parts'[uses'[e][r]] = parts[uses[e][r]]
  <2>1. uses[e][r] \in DOMAIN parts /\ KindOf[parts[uses[e][r]].type] # "baseline"
    BY SummedParts DEF FreshInv, Ticking
  <2> QED BY <1>1, <2>1, EvalParts DEF FreshInv
<1>3. CASE d = c
  <2>1. valued'[c] = Effective(c)
    BY DEF Eval, FreshInv, UsesInv
  <2>2. Effective(c)' = Effective(c)
    BY <1>2, SameEffective
  <2> QED BY <1>3, <2>1, <2>2 DEF FreshFor
<1>4. CASE d # c
  <2>1. \A r \in Summed(d) : newer'[uses[d][r]] = newer[uses[d][r]] \ {c}
    <3>1. newer' = [i \in DOMAIN newer |-> newer[i] \ {c}]
      BY DEF Eval
    <3> QED BY <3>1, SummedParts DEF FreshInv
  <2>2. Stale(d)' <=> Stale(d)
    BY <1>1, <1>4, <2>1, StaleBySummed DEF Eval
  <2>3. valued'[d] = valued[d]
    BY <1>4 DEF Eval, FreshInv, UsesInv
  <2> QED BY <1>2, <2>2, <2>3, StaysFresh DEF FreshInv
<1> QED BY <1>3, <1>4

(* A part that changes calls stale everyone who sums up with it. *)
LEMMA ChangeFresh ==
  ASSUME FreshInv, NEW i \in DOMAIN parts, NEW data, Change(i, data), NEW c \in Calculators
  PROVE  FreshFor(c)'
<1>1. /\ parts'[i] = [type |-> parts[i].type, data |-> data]
      /\ \A j \in DOMAIN parts : j # i => parts'[j] = parts[j]
  BY ChangeKeeps DEF FreshInv
<1>2. /\ uses' = uses /\ valued' = valued /\ clicked' = clicked
      /\ newer' = IF data # parts[i].data /\ KindOf[parts[i].type] \in Ticking
                  THEN [newer EXCEPT ![i] = Calculators] ELSE newer
  BY DEF Change
<1>3. parts[i] = [type |-> parts[i].type, data |-> parts[i].data] /\ DOMAIN newer = DOMAIN parts
  BY ListingProperties DEF FreshInv, UsesInv, IsPart
<1>4. \A r \in Summed(c) : /\ uses[c][r] \in DOMAIN parts
                           /\ KindOf[parts[uses[c][r]].type] \in Ticking
  BY SummedParts DEF FreshInv
<1>5. ASSUME ~Stale(c)'
      PROVE  ~Stale(c) /\ \A r \in Summed(c) : parts'[uses'[c][r]] = parts[uses[c][r]]
  <2>1. c \notin clicked /\ \A r \in Summed(c) : c \notin newer'[uses[c][r]]
    BY <1>2, <1>5, StaleBySummed
  <2>2. CASE data # parts[i].data /\ KindOf[parts[i].type] \in Ticking
    <3>1. newer' = [newer EXCEPT ![i] = Calculators]
      BY <1>2, <2>2
    <3>2. \A r \in Summed(c) : uses[c][r] # i
      BY <1>3, <2>1, <3>1
    <3>3. \A r \in Summed(c) : newer'[uses[c][r]] = newer[uses[c][r]]
      BY <1>3, <1>4, <3>1, <3>2
    <3>4. ~Stale(c)
      BY <2>1, <3>3, StaleBySummed
    <3> QED BY <1>1, <1>2, <1>4, <3>2, <3>4
  <2>3. CASE data = parts[i].data
    <3>1. newer' = newer
      BY <1>2, <2>3
    <3>2. ~Stale(c)
      BY <2>1, <3>1, StaleBySummed
    <3>3. \A j \in DOMAIN parts : parts'[j] = parts[j]
      BY <1>1, <1>3, <2>3
    <3> QED BY <1>2, <1>4, <3>2, <3>3
  <2>4. CASE KindOf[parts[i].type] \notin Ticking
    <3>1. newer' = newer
      BY <1>2, <2>4
    <3>2. ~Stale(c)
      BY <2>1, <3>1, StaleBySummed
    <3>3. \A r \in Summed(c) : uses[c][r] # i
      BY <1>4, <2>4
    <3> QED BY <1>1, <1>2, <1>4, <3>2, <3>3
  <2> QED BY <2>2, <2>3, <2>4
<1> QED BY <1>2, <1>5, StaysFresh DEF FreshInv

(* A part that is taken makes its calculator click, unless it is had already. *)
LEMMA SetPartFresh ==
  ASSUME FreshInv, NEW c \in Calculators, NEW role \in Roles, NEW i \in DOMAIN parts,
         SetPart(c, role, i), NEW d \in Calculators
  PROVE  FreshFor(d)'
<1>1. /\ parts' = parts /\ newer' = newer /\ valued' = valued
      /\ uses' = [uses EXCEPT ![c] = [uses[c] EXCEPT ![role] = i]]
      /\ clicked' = IF role # "baseline" /\ uses[c][role] # i THEN clicked \cup {c} ELSE clicked
      /\ DOMAIN uses = Calculators
  BY DEF SetPart, FreshInv, UsesInv
<1>2. ASSUME ~Stale(d)', NEW r \in Summed(d) PROVE uses'[d][r] = uses[d][r]
  <2>1. CASE d # c
    BY <1>1, <2>1
  <2>2. CASE d = c
    <3>1. r \in Fields \ {"baseline", "envelopes"} /\ DOMAIN uses[c] = Fields
      BY <2>2, SummedParts DEF FreshInv, UsesInv, UsesWell
    <3>2. c \notin clicked'
      BY <1>2, <2>2, StaleBySummed
    <3>3. role = "baseline" \/ uses[c][role] = i
      BY <1>1, <3>2
    <3>4. uses'[c] = [uses[c] EXCEPT ![role] = i]
      BY <1>1
    <3> QED BY <2>2, <3>1, <3>3, <3>4
  <2> QED BY <2>1, <2>2
<1>3. ~Stale(d)' => ~Stale(d)
  <2> SUFFICES ASSUME ~Stale(d)' PROVE ~Stale(d)
    OBVIOUS
  <2>1. d \notin clicked' /\ \A r \in Summed(d) : d \notin newer'[uses'[d][r]]
    BY StaleBySummed
  <2>2. d \notin clicked
    BY <1>1, <2>1
  <2> QED BY <1>1, <1>2, <2>1, <2>2, StaleBySummed
<1> QED BY <1>1, <1>2, <1>3, StaysFresh DEF FreshInv

LEMMA SetPartByTypeFresh ==
  ASSUME FreshInv, NEW c \in Calculators, NEW role \in Roles, NEW name,
         SetPartByType(c, role, name), NEW d \in Calculators
  PROVE  FreshFor(d)'
<1> DEFINE type == TypeByName(name)
           i == Len(parts) + 1
<1>1. /\ parts' = Append(parts, Made(c, type)) /\ newer' = Append(newer, NewTicker(type))
      /\ valued' = valued /\ DOMAIN uses = Calculators
      /\ uses' = [uses EXCEPT ![c] = [uses[c] EXCEPT ![role] = i]]
      /\ clicked' = IF role # "baseline" THEN clicked \cup {c} ELSE clicked
  BY DEF SetPartByType, FreshInv, UsesInv
<1>2. \A j \in DOMAIN parts : parts'[j] = parts[j] /\ newer'[j] = newer[j]
  <2>1. IsPart(Made(c, type))
    BY MadeType DEF SetPartByType, FreshInv
  <2> HIDE DEF type
  <2> QED BY <1>1, <2>1, MadePart DEF FreshInv
<1> HIDE DEF type, i
<1>3. ASSUME ~Stale(d)', NEW r \in Summed(d) PROVE uses'[d][r] = uses[d][r]
  <2>1. CASE d # c
    BY <1>1, <2>1
  <2>2. CASE d = c
    <3>1. r \in Fields \ {"baseline", "envelopes"} /\ DOMAIN uses[c] = Fields
      BY <2>2, SummedParts DEF FreshInv, UsesInv, UsesWell
    <3>2. c \notin clicked'
      BY <1>3, <2>2, StaleBySummed
    <3>3. role = "baseline"
      BY <1>1, <3>2
    <3>4. uses'[c] = [uses[c] EXCEPT ![role] = i]
      BY <1>1
    <3> QED BY <2>2, <3>1, <3>3, <3>4
  <2> QED BY <2>1, <2>2
<1>4. \A r \in Summed(d) : /\ parts'[uses[d][r]] = parts[uses[d][r]]
                           /\ newer'[uses[d][r]] = newer[uses[d][r]]
  BY <1>2, SummedParts DEF FreshInv
<1>5. ~Stale(d)' => ~Stale(d)
  <2> SUFFICES ASSUME ~Stale(d)' PROVE ~Stale(d)
    OBVIOUS
  <2>1. d \notin clicked' /\ \A r \in Summed(d) : d \notin newer'[uses'[d][r]]
    BY StaleBySummed
  <2>2. d \notin clicked
    BY <1>1, <2>1
  <2> QED BY <1>3, <1>4, <2>1, <2>2, StaleBySummed
<1> QED BY <1>1, <1>3, <1>4, <1>5, StaysFresh DEF FreshInv

(* Envelopes come and go without a click; they scale the sum afterwards. *)
LEMMA EnvelopesFresh ==
  ASSUME FreshInv, NEW c \in Calculators,
         \/ \E i \in DOMAIN parts : AddEnvelope(c, i)
         \/ \E name : AddEnvelopeByType(c, name)
         \/ \E types : PopEnvelopes(c, types),
         NEW d \in Calculators
  PROVE  FreshFor(d)'
<1>1. /\ \E held : uses' = [uses EXCEPT ![c] = [uses[c] EXCEPT !.envelopes = held]]
      /\ valued' = valued /\ clicked' = clicked /\ DOMAIN uses = Calculators
  BY DEF AddEnvelope, AddEnvelopeByType, PopEnvelopes, FreshInv, UsesInv
<1>2. \A j \in DOMAIN parts : parts'[j] = parts[j] /\ newer'[j] = newer[j]
  <2>1. CASE UNCHANGED <<parts, newer>>
    BY <2>1
  <2>2. ASSUME NEW name, AddEnvelopeByType(c, name)
        PROVE  \A j \in DOMAIN parts : parts'[j] = parts[j] /\ newer'[j] = newer[j]
    <3> DEFINE x == NewPart(TypeByName(name))
    <3>1. IsPart(x) /\ parts' = Append(parts, x) /\ newer' = Append(newer, {})
      BY <2>2, MadeType DEF AddEnvelopeByType, FreshInv
    <3> HIDE DEF x
    <3> QED BY <3>1, MadePart DEF FreshInv
  <2> QED BY <2>1, <2>2 DEF AddEnvelope, PopEnvelopes
<1>3. \A r \in Summed(d) : uses'[d][r] = uses[d][r]
  <2>1. PICK held : uses' = [uses EXCEPT ![c] = [uses[c] EXCEPT !.envelopes = held]]
    BY <1>1
  <2>2. DOMAIN uses[c] = Fields
    BY DEF FreshInv, UsesInv, UsesWell
  <2>3. \A r \in Summed(d) : r \in Fields \ {"baseline", "envelopes"}
    BY SummedParts DEF FreshInv
  <2>4. \A f \in Fields : f # "envelopes" => uses'[c][f] = uses[c][f]
    BY <1>1, <2>1, <2>2
  <2>5. d # c => uses'[d] = uses[d]
    BY <1>1, <2>1
  <2> QED BY <2>3, <2>4, <2>5
<1>4. \A r \in Summed(d) : /\ parts'[uses'[d][r]] = parts[uses[d][r]]
                           /\ newer'[uses'[d][r]] = newer[uses[d][r]]
  BY <1>2, <1>3, SummedParts DEF FreshInv
<1>5. Stale(d)' <=> Stale(d)
  BY <1>1, <1>4, StaleBySummed
<1> QED BY <1>1, <1>4, <1>5, StaysFresh DEF FreshInv

LEMMA NextFresh == FreshInv /\ [Next]_vars => FreshInv'
<1> SUFFICES ASSUME FreshInv, [Next]_vars, NEW c \in Calculators PROVE FreshFor(c)'
  BY NextUses DEF FreshInv
<1>1. CASE UNCHANGED vars \/ EditRegistry
  <2>1. /\ parts' = parts /\ newer' = newer /\ uses' = uses
        /\ clicked' = clicked /\ valued' = valued
    BY <1>1 DEF vars, partvars, EditRegistry
  <2>2. Stale(c)' <=> Stale(c)
    BY <2>1, StaleBySummed
  <2> QED BY <2>1, <2>2, StaysFresh DEF FreshInv
<1>2. CASE Next
  <2>1. UsesInv
    BY DEF FreshInv
  <2> QED BY <1>1, <1>2, <2>1, StepCases, EvalFresh, ChangeFresh, SetPartFresh,
             SetPartByTypeFresh, EnvelopesFresh
<1> QED BY <1>1, <1>2

(***************************************************************************)
(* Whatever is shared, changed, replaced, put back or made by type, a      *)
(* value that is not called stale is that of the parts as they are         *)
(* (PDFCalculator.cpp:105, PeakWidthModel.cpp:37).                         *)
(***************************************************************************)
THEOREM FreshConfigAlways == Spec => []FreshConfig
<1>1. Init => FreshInv
  <2> SUFFICES ASSUME Init, NEW c \in Calculators PROVE FreshFor(c)
    BY InitUses DEF FreshInv
  <2> QED BY DEF Init, FreshFor, Stale
<1>2. FreshInv => FreshConfig
  BY DEF FreshInv, FreshFor, FreshConfig
<1> QED BY <1>1, <1>2, NextFresh, PTL DEF Spec

-----------------------------------------------------------------------------
(* Images.                                                                 *)

CONSTANTS Grid, Cells, Atoms, SymOps, Precisions, MaxAtoms
VARIABLES stru, msymatoms, msymmetry_cached, unseen

Cell == INSTANCE CrystalCell

(***************************************************************************)
(* ImagesAreCurrent is not inductive: images of another number of atoms    *)
(* are not answered from, but would be after one more edit.  Whenever the  *)
(* flag is up and no edit has escaped it, the images are those of now.     *)
(***************************************************************************)
FlagTellsTruth ==
  /\ msymmetry_cached \in BOOLEAN
  /\ msymmetry_cached /\ unseen = {} => msymatoms = Cell!UpdatedSymmetryPositions(stru)

(* An edit that leaves the cache alone is on record as long as the flag is up. *)
LEMMA EditIsRecorded ==
  ASSUME FlagTellsTruth, UNCHANGED Cell!cache, NEW edit,
         unseen' = IF msymmetry_cached THEN unseen \cup {edit} ELSE {}
  PROVE  FlagTellsTruth'
<1>1. CASE msymmetry_cached
  <2>1. unseen' # {}
    BY <1>1
  <2> QED
    BY <2>1 DEF FlagTellsTruth, Cell!cache
<1>2. CASE ~msymmetry_cached
  BY <1>2 DEF FlagTellsTruth, Cell!cache
<1> QED
  BY <1>1, <1>2

(* An edit of the symmetry takes the flag down. *)
LEMMA SymmetryIsForgotten ==
  ASSUME NEW s, Cell!EditSymmetry(s)
  PROVE  FlagTellsTruth'
BY DEF Cell!EditSymmetry, FlagTellsTruth

LEMMA UpdateTellsTruth ==
  ASSUME Cell!UpdateSymmetryPositions
  PROVE  FlagTellsTruth'
<1>1. Cell!UpdatedSymmetryPositions(stru') = Cell!UpdatedSymmetryPositions(stru)
  BY DEF Cell!UpdateSymmetryPositions
<1> QED
  BY <1>1 DEF Cell!UpdateSymmetryPositions, FlagTellsTruth

(***************************************************************************)
(* The images that multiplicities and occupancies are told from are those  *)
(* of the present atoms, unless an edit has escaped the flag; for every    *)
(* lattice, set of operations and number of atoms                          *)
(* (CrystalStructureAdapter::isSymmetryCached).                            *)
(***************************************************************************)
THEOREM ImagesStayCurrent == Cell!Spec => []Cell!ImagesAreCurrent
<1>1. Cell!Init => FlagTellsTruth
  BY DEF Cell!Init, FlagTellsTruth
<1>2. FlagTellsTruth /\ [Cell!Next]_(Cell!vars) => FlagTellsTruth'
  <2> SUFFICES ASSUME FlagTellsTruth, [Cell!Next]_(Cell!vars)
               PROVE  FlagTellsTruth'
    OBVIOUS
  <2>1. ASSUME NEW i \in Cell!Sites(stru), NEW atom \in Atoms, Cell!SetAtom(i, atom)
        PROVE  FlagTellsTruth'
    BY <2>1, EditIsRecorded DEF Cell!SetAtom, Cell!EditAtoms
  <2>2. ASSUME NEW i \in 1..Len(stru.matoms) + 1, NEW atom \in Atoms, Cell!Insert(i, atom)
        PROVE  FlagTellsTruth'
    BY <2>2, EditIsRecorded DEF Cell!Insert, Cell!EditAtoms
  <2>3. ASSUME NEW i \in Cell!Sites(stru), NEW k \in 1..Len(stru.matoms) + 1, Cell!Erase(i, k)
        PROVE  FlagTellsTruth'
    BY <2>3, EditIsRecorded DEF Cell!Erase, Cell!EditAtoms
  <2>4. CASE Cell!Clear
    BY <2>4, EditIsRecorded DEF Cell!Clear, Cell!EditAtoms
  <2>5. ASSUME NEW cell \in Cells, Cell!SetLatPar(cell)
        PROVE  FlagTellsTruth'
    BY <2>5, EditIsRecorded DEF Cell!SetLatPar
  <2>6. ASSUME NEW op \in SymOps, Cell!AddSymOp(op)
        PROVE  FlagTellsTruth'
    BY <2>6, SymmetryIsForgotten DEF Cell!AddSymOp
  <2>7. CASE Cell!ClearSymOps
    BY <2>7, SymmetryIsForgotten DEF Cell!ClearSymOps
  <2>8. ASSUME NEW eps \in Precisions, Cell!SetSymmetryPrecision(eps)
        PROVE  FlagTellsTruth'
    BY <2>8, SymmetryIsForgotten DEF Cell!SetSymmetryPrecision
  <2>9. CASE Cell!AskForMultiplicity \/ Cell!CreateBondGenerator
    BY <2>9, UpdateTellsTruth DEF Cell!AskForMultiplicity, Cell!CreateBondGenerator
  <2>10. CASE UNCHANGED Cell!vars
    <3>1. Cell!UpdatedSymmetryPositions(stru') = Cell!UpdatedSymmetryPositions(stru)
      BY <2>10 DEF Cell!vars
    <3> QED
      BY <2>10, <3>1 DEF Cell!vars, Cell!cache, FlagTellsTruth
  <2> QED
    BY <2>1, <2>2, <2>3, <2>4, <2>5, <2>6, <2>7, <2>8, <2>9, <2>10 DEF Cell!Next
<1>3. FlagTellsTruth => Cell!ImagesAreCurrent
  BY DEF FlagTellsTruth, Cell!ImagesAreCurrent, Cell!EquivalentAtoms, Cell!IsSymmetryCached
<1> QED
  BY <1>1, <1>2, <1>3, PTL DEF Cell!Spec

-----------------------------------------------------------------------------
(* The directory of the data.                                              *)

CONSTANTS Directories, Installed, RealPath, Unset, Symbols, NoDigit, MinTableSize
VARIABLES env, envrt, tables

Data == INSTANCE ScatteringData

(***************************************************************************)
(* Every directory that was found is remembered together with the name it  *)
(* was found by, also when the environment names another one by now.       *)
(***************************************************************************)
Found(r) ==
  r.did => /\ r.dprt \in DOMAIN RealPath
           /\ r.path = RealPath[r.dprt] /\ Data!Exists(r.path)

PathInv ==
  /\ env \in DOMAIN RealPath \cup {Unset}
  /\ Found(envrt)

(* A call finds the directory named by the environment or leaves the flag. *)
LEMMA CachedIsFound ==
  ASSUME PathInv
  PROVE  Found(Data!Cached(envrt))
<1>1. CASE env = Unset \/ (envrt.did /\ envrt.dprt = env)
  BY <1>1 DEF PathInv, Data!Cached
<1>2. CASE ~(env = Unset \/ (envrt.did /\ envrt.dprt = env))
  <2>1. env \in DOMAIN RealPath
    BY <1>2 DEF PathInv
  <2> QED
    BY <1>2, <2>1 DEF Data!Cached, Found
<1> QED
  BY <1>1, <1>2

(***************************************************************************)
(* The directory that diffpyruntime answers with is the one that the       *)
(* environment names now, and it exists; for any directories and names,    *)
(* whatever was named and looked up before (runtimepath.cpp:80).           *)
(***************************************************************************)
THEOREM PathStaysCurrent ==
  ASSUME Data!ScatteringDataAssumption
  PROVE  Data!Spec => []Data!PathIsCurrent
<1>1. Data!Init => PathInv
  BY DEF Data!Init, PathInv, Found
<1>2. PathInv /\ [Data!Next]_(Data!vars) => PathInv'
  <2> SUFFICES ASSUME PathInv, [Data!Next]_(Data!vars)
               PROVE  PathInv'
    OBVIOUS
  <2>1. ASSUME NEW e \in DOMAIN RealPath \cup {Unset}, Data!SetEnv(e)
        PROVE  PathInv'
    BY <2>1 DEF Data!SetEnv, PathInv, Found
  <2>2. CASE Data!Datapath
    BY <2>2, CachedIsFound DEF Data!Datapath, PathInv, Found
  <2>3. ASSUME NEW f \in Data!Files, Data!FirstLookup(f)
        PROVE  PathInv'
    BY <2>3, CachedIsFound DEF Data!FirstLookup, PathInv, Found
  <2>4. CASE UNCHANGED Data!vars
    BY <2>4 DEF Data!vars, PathInv, Found
  <2> QED
    BY <2>1, <2>2, <2>3, <2>4 DEF Data!Next
<1>3. PathInv => Data!PathIsCurrent
  <2> SUFFICES ASSUME PathInv, ~Data!DiffpyRuntimeThrows
               PROVE  /\ Data!Exists(Data!DiffpyRuntime)
                      /\ Data!DiffpyRuntime = IF env = Unset THEN Installed ELSE RealPath[env]
    BY DEF Data!PathIsCurrent
  <2>1. CASE env = Unset
    BY <2>1, Data!ScatteringDataAssumption
       DEF Data!ScatteringDataAssumption, Data!DiffpyRuntime, Data!Exists
  <2>2. CASE env # Unset
    <3>1. Data!Cached(envrt).did /\ Found(Data!Cached(envrt))
      BY <2>2, CachedIsFound DEF Data!DiffpyRuntimeThrows
    <3>2. Data!Cached(envrt).dprt = env
      BY <2>2 DEF Data!Cached
    <3> QED
      BY <2>2, <3>1, <3>2 DEF Found, Data!DiffpyRuntime
  <2> QED
    BY <2>1, <2>2
<1> QED
  BY <1>1, <1>2, <1>3, PTL DEF Data!Spec

-----------------------------------------------------------------------------
(***************************************************************************)
(* What the mask of a PairQuantity keeps, for any structures, types, site  *)
(* indices and histories of setters.                                       *)
(*                                                                         *)
(* Masks "for all" are iterated in an order that nobody chose.  All that   *)
(* the proofs use of it is that the mask which decides about a pair is one *)
(* of those that cover the pair.                                           *)
(***************************************************************************)

(* The mask maps are finite and hold Booleans. *)
IsMaskMap(f) ==
  /\ f = [k \in DOMAIN f |-> f[k]]
  /\ \A k \in DOMAIN f : f[k] \in BOOLEAN
  /\ IsFiniteSet(DOMAIN f)

TInv == MaskTypeOK /\ IsMaskMap(msiteallmask) /\ IsMaskMap(mtypemask)

-----------------------------------------------------------------------------
(* Orders of finite sets.                                                  *)

LEMMA Least ==
  ASSUME NEW T, T \subseteq Nat, T # {}
  PROVE  \E n \in T : \A o \in T : n =< o
<1>1. PICK n \in T : \A o \in T : ~(<<o, n>> \in OpToRel(<, Nat))
  BY WFMin, NatLessThanWellFounded
<1>2. \A o \in T : o \in Nat
  OBVIOUS
<1>3. \A o \in T : ~(o < n)
  BY <1>1, <1>2 DEF OpToRel
<1>4. \A o \in T : n =< o
  BY <1>2, <1>3
<1> QED BY <1>4

LEMMA Greatest ==
  ASSUME NEW T, T \subseteq Nat, T # {}, NEW N \in Nat, \A o \in T : o =< N
  PROVE  \E n \in T : \A o \in T : o =< n
<1> DEFINE U == {d \in Nat : N - d \in T}
<1>1. \A o \in T : o \in Nat /\ N - o \in Nat /\ N - (N - o) = o
  OBVIOUS
<1>2. \A o \in T : N - o \in U
  BY <1>1
<1>3. U \subseteq Nat /\ U # {}
  BY <1>2
<1>4. PICK u \in U : \A o \in U : u =< o
  <2> HIDE DEF U
  <2> QED BY <1>3, Least
<1>5. N - u \in T /\ u \in Nat
  BY <1>4
<1>6. ASSUME NEW o \in T PROVE o =< N - u
  <2>1. u =< N - o
    BY <1>2, <1>4
  <2> QED BY <1>1, <1>5, <2>1
<1> QED BY <1>5, <1>6

LEMMA OrderIsOnto ==
  ASSUME NEW set, IsFiniteSet(set), NEW o \in Orders(set)
  PROVE  /\ DOMAIN o = 1..Cardinality(set) /\ Cardinality(set) \in Nat
         /\ \A n \in DOMAIN o : o[n] \in set
         /\ \A x \in set : \E n \in DOMAIN o : o[n] = x
<1>1. Cardinality(set) \in Nat
  BY FS_CardinalityType
<1> DEFINE D == 1..Cardinality(set)
<1>2. o \in Injection(D, set)
  BY DEF Orders, Injection, IsInjective
<1>3. Cardinality(D) = Cardinality(set)
  BY <1>1, FS_Interval
<1>4. o \in Surjection(D, set)
  <2> HIDE DEF D
  <2> QED BY <1>2, <1>3, FS_Injection
<1> QED BY <1>1, <1>4 DEF Surjection, Orders

(* What the loops find first or last is one of what they look for. *)
LEMMA FirstAndLast ==
  ASSUME NEW set, IsFiniteSet(set), NEW o \in Orders(set),
         NEW T \in SUBSET DOMAIN o, T # {}
  PROVE  /\ (CHOOSE n \in T : \A k \in T : k =< n) \in T
         /\ (CHOOSE n \in T : \A k \in T : n =< k) \in T
<1>1. DOMAIN o = 1..Cardinality(set) /\ Cardinality(set) \in Nat
  BY OrderIsOnto
<1>2. T \subseteq Nat /\ \A k \in T : k =< Cardinality(set)
  BY <1>1
<1>3. \E n \in T : \A k \in T : k =< n
  BY <1>1, <1>2, Greatest
<1>4. \E n \in T : \A k \in T : n =< k
  BY <1>2, Least
<1> QED BY <1>3, <1>4

LEMMA ReorderedIsOrder == \A order, set : Reordered(order, set) \subseteq Orders(set)
  BY DEF Reordered

LEMMA PairMembers ==
  /\ \A a, b, x : x \in Pair(a, b) <=> x = a \/ x = b
  /\ \A a, b, c, d : Pair(a, b) = Pair(c, d) <=> (a = c /\ b = d) \/ (a = d /\ b = c)
<1>1. \A a, b, x : x \in Pair(a, b) <=> x = a \/ x = b
  BY DEF Pair
<1>2. \A a, b, c, d : Pair(a, b) = Pair(c, d) <=> (a = c /\ b = d) \/ (a = d /\ b = c)
  BY DEF Pair
<1> QED BY <1>1, <1>2

LEMMA AllKeys ==
  /\ \A a \in AtomTypes : a # All
  /\ \A a, b, c \in AtomTypes : AllKey(c) # Pair(a, b)
  /\ \A a, b \in AtomTypes : AllKey(a) = AllKey(b) => a = b
<1>1. \A a \in AtomTypes : a # All
  BY MaskAssumption
<1> QED BY <1>1, PairMembers DEF AllKey

LEMMA AllTypesFinite ==
  ASSUME NEW types, IsFiniteSet(DOMAIN types)
  PROVE  IsFiniteSet(AllTypes(types))
<1> DEFINE f == [a \in AllTypes(types) |-> AllKey(a)]
<1>1. \A a \in AllTypes(types) : a \in AtomTypes /\ AllKey(a) \in DOMAIN types
  BY DEF AllTypes
<1>2. f \in Injection(AllTypes(types), DOMAIN types)
  BY <1>1, AllKeys DEF Injection, IsInjective
<1> QED BY <1>2, FS_Injection

-----------------------------------------------------------------------------
(* The mask that decides about a pair, whatever the order of the masks.    *)

(* A mask of all pairs of site k covers the pair. *)
Claims(k, s, p) == \E j \in Sites(s) : p = Pair(k, j)

SitesDecide ==
  \A s, p :
    /\ Covering(s, p) = {} => \A k \in DOMAIN msiteallmask : ~Claims(k, s, p)
    /\ Covering(s, p) # {} =>
         \E k \in DOMAIN msiteallmask :
           Claims(k, s, p) /\ SiteMaskOf(s, p) = msiteallmask[k]

(* Types of the pair that have a mask of all their pairs. *)
Concerned(s, p) == AllTypes(mtypemask) \cap TypesOf(s, p)

TypesDecide ==
  \A s, p :
    IF TypesOf(s, p) \in DOMAIN mtypemask THEN TypeMaskOf(s, p) = mtypemask[TypesOf(s, p)]
    ELSE IF Concerned(s, p) = {} THEN TypeMaskOf(s, p) = mdefaultpairmask
    ELSE \E a \in Concerned(s, p) : TypeMaskOf(s, p) = mtypemask[AllKey(a)]

LEMMA OneSiteMaskDecides == TInv => SitesDecide
<1> SUFFICES ASSUME TInv, NEW s, NEW p
             PROVE  /\ Covering(s, p) = {} => \A k \in DOMAIN msiteallmask : ~Claims(k, s, p)
                    /\ Covering(s, p) # {} =>
                         \E k \in DOMAIN msiteallmask :
                           Claims(k, s, p) /\ SiteMaskOf(s, p) = msiteallmask[k]
  BY DEF SitesDecide
<1>1. IsFiniteSet(DOMAIN msiteallmask) /\ siteorder \in Orders(DOMAIN msiteallmask)
  BY DEF TInv, MaskTypeOK, IsMaskMap
<1>2. Covering(s, p) = {n \in DOMAIN siteorder : Claims(siteorder[n], s, p)}
  BY DEF Covering, Claims
<1>3. CASE Covering(s, p) = {}
  BY <1>1, <1>2, <1>3, OrderIsOnto
<1>4. CASE Covering(s, p) # {}
  <2> DEFINE last == CHOOSE n \in Covering(s, p) : \A o \in Covering(s, p) : o =< n
  <2>1. Covering(s, p) \in SUBSET DOMAIN siteorder
    BY <1>2
  <2>2. last \in Covering(s, p)
    BY <1>1, <1>4, <2>1, FirstAndLast
  <2>3. SiteMaskOf(s, p) = msiteallmask[siteorder[last]]
    BY DEF SiteMaskOf
  <2> HIDE DEF last
  <2>4. siteorder[last] \in DOMAIN msiteallmask /\ Claims(siteorder[last], s, p)
    BY <1>1, <1>2, <2>2, OrderIsOnto
  <2> QED BY <1>4, <2>3, <2>4
<1> QED BY <1>3, <1>4

LEMMA OneTypeMaskDecides == TInv => TypesDecide
<1> SUFFICES ASSUME TInv, NEW s, NEW p, TypesOf(s, p) \notin DOMAIN mtypemask
             PROVE  IF Concerned(s, p) = {} THEN TypeMaskOf(s, p) = mdefaultpairmask
                    ELSE \E a \in Concerned(s, p) : TypeMaskOf(s, p) = mtypemask[AllKey(a)]
  BY DEF TypesDecide, TypeMaskOf
<1> DEFINE first == CHOOSE n \in OrderedIn(s, p) : \A o \in OrderedIn(s, p) : n =< o
<1>1. IsFiniteSet(AllTypes(mtypemask)) /\ typeorder \in Orders(AllTypes(mtypemask))
  BY AllTypesFinite DEF TInv, MaskTypeOK, IsMaskMap
<1>2. OrderedIn(s, p) = {n \in DOMAIN typeorder : typeorder[n] \in TypesOf(s, p)}
  BY DEF OrderedIn, TypesOf
<1>3. CASE Concerned(s, p) = {}
  <2>1. OrderedIn(s, p) = {}
    BY <1>1, <1>2, <1>3, OrderIsOnto DEF Concerned
  <2> QED BY <1>3, <2>1 DEF TypeMaskOf
<1>4. CASE Concerned(s, p) # {}
  <2>1. OrderedIn(s, p) # {} /\ OrderedIn(s, p) \in SUBSET DOMAIN typeorder
    BY <1>1, <1>2, <1>4, OrderIsOnto DEF Concerned
  <2>2. first \in OrderedIn(s, p)
    BY <1>1, <2>1, FirstAndLast
  <2>3. TypeMaskOf(s, p) = mtypemask[AllKey(typeorder[first])]
    BY <2>1 DEF TypeMaskOf
  <2> HIDE DEF first
  <2>4. typeorder[first] \in Concerned(s, p)
    BY <1>1, <1>2, <2>2, OrderIsOnto DEF Concerned
  <2> QED BY <1>4, <2>3, <2>4
<1> QED BY <1>3, <1>4

(* The same of the next state. *)
LEMMA OneMaskDecidesNext == TInv' => SitesDecide' /\ TypesDecide'
<1>1. TInv => SitesDecide /\ TypesDecide
  BY OneSiteMaskDecides, OneTypeMaskDecides
<1> QED BY <1>1, PTL

-----------------------------------------------------------------------------
(* Type correctness.                                                       *)

LEMMA NothingIsMaskMap == IsMaskMap(Nothing) /\ DOMAIN Nothing = {}
  BY FS_EmptySet DEF IsMaskMap, Nothing

LEMMA MaskMapWithout ==
  ASSUME NEW f, IsMaskMap(f), NEW set
  PROVE  /\ IsMaskMap(Without(f, set))
         /\ DOMAIN Without(f, set) = DOMAIN f \ set
         /\ \A x \in DOMAIN f \ set : Without(f, set)[x] = f[x]
<1>1. IsFiniteSet(DOMAIN f \ set)
  BY FS_Difference DEF IsMaskMap
<1> QED BY <1>1 DEF IsMaskMap, Without

LEMMA MaskMapWith ==
  ASSUME NEW f, IsMaskMap(f), NEW k, NEW m \in BOOLEAN
  PROVE  /\ IsMaskMap(With(f, k, m))
         /\ DOMAIN With(f, k, m) = DOMAIN f \cup {k}
         /\ With(f, k, m)[k] = m
         /\ \A x \in DOMAIN f : x # k => With(f, k, m)[x] = f[x]
<1>1. IsFiniteSet(DOMAIN f \cup {k})
  BY FS_AddElement DEF IsMaskMap
<1> QED BY <1>1 DEF IsMaskMap, With

LEMMA MaskMapInverted ==
  ASSUME NEW f, IsMaskMap(f)
  PROVE  LET g == [k \in DOMAIN f |-> ~f[k]] IN IsMaskMap(g) /\ DOMAIN g = DOMAIN f
  BY DEF IsMaskMap

(* Pairs of the sites that users pass or structures have. *)
SomeSites == Indices \cup UNION {Sites(s) : s \in Structures}

LEMMA PairsOfSubset ==
  ASSUME NEW X, NEW Y, X \subseteq Y
  PROVE  PairsOf(X) \subseteq PairsOf(Y)
  BY DEF PairsOf

LEMMA MarkedPairs ==
  ASSUME NEW pairs, pairs \subseteq PairsOf(SomeSites), NEW m,
         minvertpairmask \subseteq PairsOf(SomeSites)
  PROVE  Marked(pairs, m) \subseteq PairsOf(SomeSites)
  BY DEF Marked

LEMMA SpreadPairs ==
  ASSUME NEW s \in Structures, minvertpairmask \subseteq PairsOf(SomeSites)
  PROVE  Spread(s) \subseteq PairsOf(SomeSites)
<1>1. Indices \cup Sites(s) \subseteq SomeSites
  BY DEF SomeSites
<1>2. PairsOf(Indices \cup Sites(s)) \subseteq PairsOf(SomeSites)
      /\ PairsOf(Sites(s)) \subseteq PairsOf(SomeSites)
  BY <1>1, PairsOfSubset
<1> QED BY <1>2 DEF Spread, SpreadSites, SpreadTypes

(* Nothing is iterated in the order of nothing. *)
LEMMA NoTypes ==
  /\ AllTypes(Nothing) = {}
  /\ <<>> \in Orders({})
<1>1. AllTypes(Nothing) = {}
  BY NothingIsMaskMap DEF AllTypes
<1>2. Cardinality({}) = 0
  BY FS_EmptySet
<1>3. <<>> \in [1..0 -> {}]
  OBVIOUS
<1> QED BY <1>1, <1>2, <1>3 DEF Orders

(* A mask of a type and All that is entered again changes no such type. *)
LEMMA SameAllTypes ==
  ASSUME NEW a \in AtomTypes, NEW b \in AtomTypes \cup {All}, NEW m \in BOOLEAN,
         NEW types, IsMaskMap(types), Pair(a, b) \in DOMAIN types,
         NEW erased, erased \subseteq {k \in DOMAIN types \ {Pair(a, b)} : b = All /\ a \in k}
  PROVE  AllTypes(With(Without(types, erased), Pair(a, b), m)) = AllTypes(types)
<1> DEFINE new == With(Without(types, erased), Pair(a, b), m)
<1>1. DOMAIN new = DOMAIN types \ erased
  <2>1. DOMAIN new = (DOMAIN types \ erased) \cup {Pair(a, b)}
    BY DEF With, Without
  <2> QED BY <2>1
<1>2. ASSUME NEW c \in AtomTypes PROVE AllKey(c) \notin erased
  <2>1. SUFFICES ASSUME AllKey(c) \in erased PROVE FALSE
    OBVIOUS
  <2>2. b = All /\ a \in AllKey(c) /\ AllKey(c) # Pair(a, b)
    BY <2>1
  <2>3. a = c
    BY <2>2, PairMembers, AllKeys DEF AllKey
  <2> QED BY <2>2, <2>3 DEF AllKey
<1> HIDE DEF new
<1> QED BY <1>1, <1>2 DEF AllTypes, new

(* The keys that setTypeMask erases (PairQuantity.cpp:306). *)
Erased(a, b) ==
  IF b = All THEN {k \in DOMAIN mtypemask \ {Pair(a, b)} : a \in k} ELSE {}

LEMMA SetTypeMaskIs ==
  ASSUME NEW a, NEW b, NEW m, SetTypeMask(a, b, m)
  PROVE  /\ mtypemask' = With(Without(mtypemask, Erased(a, b)), Pair(a, b), m)
         /\ IF Pair(a, b) \in DOMAIN mtypemask THEN typeorder' = typeorder
            ELSE typeorder' \in Orders(AllTypes(mtypemask'))
         /\ ClickIf(\/ Pair(a, b) \notin DOMAIN mtypemask
                    \/ \E k \in Erased(a, b) \cup {Pair(a, b)} : mtypemask[k] # m)
         /\ msiteallmask' = Nothing /\ siteorder' = <<>>
         /\ UNCHANGED <<mstructure, mdefaultpairmask, minvertpairmask>>
  BY DEF SetTypeMask, Erased

LEMMA InitTInv == MaskInit => TInv
<1> SUFFICES ASSUME MaskInit PROVE TInv
  OBVIOUS
<1>1. IsMaskMap(msiteallmask) /\ IsMaskMap(mtypemask)
  BY NothingIsMaskMap DEF MaskInit
<1>2. DOMAIN msiteallmask = {} /\ AllTypes(mtypemask) = {}
  BY NothingIsMaskMap, NoTypes DEF MaskInit
<1>3. siteorder \in Orders(DOMAIN msiteallmask) /\ typeorder \in Orders(AllTypes(mtypemask))
  BY <1>2, NoTypes DEF MaskInit
<1> QED BY <1>1, <1>2, <1>3, NothingIsMaskMap DEF MaskInit, TInv, MaskTypeOK

(* TInv part by part: of the masks, and of the rest. *)
SitesTyped ==
  /\ IsMaskMap(msiteallmask) /\ DOMAIN msiteallmask \subseteq Indices
  /\ siteorder \in Orders(DOMAIN msiteallmask)

TypesTyped ==
  /\ IsMaskMap(mtypemask) /\ DOMAIN mtypemask \subseteq TypeKeys
  /\ typeorder \in Orders(AllTypes(mtypemask))

RestTyped ==
  /\ mstructure \in Structures \cup {<<>>}
  /\ mdefaultpairmask \in BOOLEAN
  /\ minvertpairmask \subseteq PairsOf(SomeSites)
  /\ fresh \in BOOLEAN

MaskTyped ==
  /\ SitesTyped
  /\ TypesTyped
  /\ RestTyped
  /\ mtypemask # Nothing => msiteallmask = Nothing

LEMMA TypedIsTInv == TInv <=> MaskTyped
  BY DEF TInv, MaskTypeOK, SomeSites, MaskTyped, SitesTyped, TypesTyped, RestTyped

LEMMA NoMasksTyped ==
  /\ msiteallmask' = Nothing /\ siteorder' = <<>> => SitesTyped'
  /\ mtypemask' = Nothing /\ typeorder' = <<>> => TypesTyped'
  BY NothingIsMaskMap, NoTypes DEF SitesTyped, TypesTyped

LEMMA StepTyped == MaskTyped /\ [MaskNext]_maskvars => MaskTyped'
<1> SUFFICES ASSUME MaskTyped, [MaskNext]_maskvars PROVE MaskTyped'
  OBVIOUS
<1>1. SitesTyped /\ TypesTyped /\ RestTyped
  BY DEF MaskTyped
<1>2. ASSUME NEW m \in BOOLEAN, MaskAllPairs(m)
      PROVE  MaskTyped'
  <2>1. SitesTyped' /\ TypesTyped'
    BY <1>2, NoMasksTyped DEF MaskAllPairs
  <2>2. RestTyped'
    BY <1>1, <1>2 DEF MaskAllPairs, ClickIf, RestTyped
  <2> QED BY <1>2, <2>1, <2>2 DEF MaskTyped, MaskAllPairs
<1>3. CASE InvertMask
  <2>1. SitesTyped'
    BY <1>1, <1>3, MaskMapInverted DEF InvertMask, SitesTyped
  <2>2. IsMaskMap(mtypemask') /\ DOMAIN mtypemask' = DOMAIN mtypemask
    BY <1>1, <1>3, MaskMapInverted DEF InvertMask, TypesTyped
  <2>3. TypesTyped'
    BY <1>1, <1>3, <2>2 DEF InvertMask, TypesTyped, AllTypes
  <2>4. RestTyped'
    BY <1>1, <1>3 DEF InvertMask, ClickIf, RestTyped
  <2>5. mtypemask' # Nothing => msiteallmask' = Nothing
    <3>1. mtypemask' # Nothing => mtypemask # Nothing
      BY <1>3 DEF InvertMask, Nothing
    <3>2. msiteallmask = Nothing => msiteallmask' = Nothing
      BY <1>3 DEF InvertMask, Nothing
    <3> QED BY <3>1, <3>2 DEF MaskTyped
  <2> QED BY <2>1, <2>3, <2>4, <2>5 DEF MaskTyped
<1>4. ASSUME NEW i \in Indices, NEW j \in Indices, NEW m \in BOOLEAN, SetPairMask(i, j, m)
      PROVE  MaskTyped'
  <2> DEFINE contrary == {k \in {i, j} \cap DOMAIN msiteallmask : msiteallmask[k] # m}
  <2>1. msiteallmask' = Without(msiteallmask, contrary)
        /\ siteorder' \in Reordered(siteorder, DOMAIN msiteallmask')
    BY <1>4 DEF SetPairMask
  <2>2. SitesTyped'
    <3> HIDE DEF contrary
    <3> QED BY <1>1, <2>1, MaskMapWithout, ReorderedIsOrder DEF SitesTyped
  <2>3. TypesTyped' /\ mtypemask' = Nothing
    BY <1>4, NoMasksTyped DEF SetPairMask
  <2>4. Pair(i, j) \in PairsOf(SomeSites)
    BY DEF PairsOf, SomeSites
  <2>5. minvertpairmask' \subseteq PairsOf(SomeSites)
    <3>1. minvertpairmask' = Marked({Pair(i, j)}, m)
      BY <1>4 DEF SetPairMask
    <3> QED BY <1>1, <2>4, <3>1, MarkedPairs DEF RestTyped
  <2>6. RestTyped'
    BY <1>1, <1>4, <2>5 DEF SetPairMask, ClickIf, RestTyped
  <2> QED BY <2>2, <2>3, <2>6 DEF MaskTyped
<1>5. ASSUME NEW k \in Indices, NEW m \in BOOLEAN, SetSiteMask(k, m)
      PROVE  MaskTyped'
  <2>1. msiteallmask' = With(msiteallmask, k, m)
        /\ siteorder' \in Reordered(siteorder, DOMAIN msiteallmask')
    BY <1>5 DEF SetSiteMask
  <2>2. SitesTyped'
    <3>1. IsMaskMap(msiteallmask') /\ DOMAIN msiteallmask' = DOMAIN msiteallmask \cup {k}
      BY <1>1, <2>1, MaskMapWith, Zenon DEF SitesTyped
    <3> QED BY <1>1, <2>1, <3>1, ReorderedIsOrder DEF SitesTyped
  <2>3. TypesTyped' /\ mtypemask' = Nothing
    BY <1>5, NoMasksTyped DEF SetSiteMask
  <2>4. {Pair(k, l) : l \in Sites(mstructure)} \subseteq PairsOf(SomeSites)
    <3>1. Sites(mstructure) \subseteq SomeSites
      <4>1. CASE mstructure = <<>>
        <5>1. Sites(mstructure) = {}
          BY <4>1 DEF Sites
        <5> QED BY <5>1
      <4>2. CASE mstructure \in Structures
        BY <4>2 DEF SomeSites
      <4> QED BY <1>1, <4>1, <4>2 DEF RestTyped
    <3> QED BY <3>1 DEF PairsOf, SomeSites
  <2>5. minvertpairmask' \subseteq PairsOf(SomeSites)
    <3>1. minvertpairmask' = Marked({Pair(k, l) : l \in Sites(mstructure)}, m)
      BY <1>5 DEF SetSiteMask
    <3> QED BY <1>1, <2>4, <3>1, MarkedPairs DEF RestTyped
  <2>6. RestTyped'
    BY <1>1, <1>5, <2>5 DEF SetSiteMask, ClickIf, RestTyped
  <2> QED BY <2>2, <2>3, <2>6 DEF MaskTyped
<1>6. ASSUME NEW a \in AtomTypes, NEW b \in AtomTypes \cup {All}, NEW m \in BOOLEAN,
             SetTypeMask(a, b, m)
      PROVE  MaskTyped'
  <2>1. mtypemask' = With(Without(mtypemask, Erased(a, b)), Pair(a, b), m)
    BY <1>6, SetTypeMaskIs
  <2>2. IsMaskMap(mtypemask')
        /\ DOMAIN mtypemask' = (DOMAIN mtypemask \ Erased(a, b)) \cup {Pair(a, b)}
    <3> DEFINE kept == Without(mtypemask, Erased(a, b))
    <3>1. IsMaskMap(kept) /\ DOMAIN kept = DOMAIN mtypemask \ Erased(a, b)
      BY <1>1, MaskMapWithout DEF TypesTyped
    <3> HIDE DEF kept
    <3>2. IsMaskMap(With(kept, Pair(a, b), m))
          /\ DOMAIN With(kept, Pair(a, b), m) = DOMAIN kept \cup {Pair(a, b)}
      BY <3>1, MaskMapWith, Zenon
    <3> QED BY <2>1, <3>1, <3>2 DEF kept
  <2>3. Pair(a, b) \in TypeKeys
    BY DEF TypeKeys
  <2>4. typeorder' \in Orders(AllTypes(mtypemask'))
    <3>1. CASE Pair(a, b) \in DOMAIN mtypemask
      <4>1. AllTypes(mtypemask') = AllTypes(mtypemask)
        BY <1>1, <2>1, <3>1, SameAllTypes DEF TypesTyped, Erased
      <4>2. typeorder' = typeorder
        BY <1>6, <3>1, SetTypeMaskIs
      <4> QED BY <1>1, <4>1, <4>2 DEF TypesTyped
    <3>2. CASE Pair(a, b) \notin DOMAIN mtypemask
      BY <1>6, <3>2, SetTypeMaskIs
    <3> QED BY <3>1, <3>2
  <2>5. TypesTyped'
    BY <1>1, <2>2, <2>3, <2>4 DEF TypesTyped
  <2>6. SitesTyped' /\ msiteallmask' = Nothing
    BY <1>6, SetTypeMaskIs, NoMasksTyped
  <2>7. RestTyped'
    BY <1>1, <1>6, SetTypeMaskIs DEF ClickIf, RestTyped
  <2> QED BY <2>5, <2>6, <2>7 DEF MaskTyped
<1>7. ASSUME NEW s \in Structures, EvaluateMasked(s)
      PROVE  MaskTyped'
  <2>1. RestTyped'
    BY <1>1, <1>7, SpreadPairs DEF EvaluateMasked, RestTyped
  <2>2. SitesTyped' /\ TypesTyped' /\ (mtypemask' # Nothing => msiteallmask' = Nothing)
    BY <1>1, <1>7 DEF EvaluateMasked, SitesTyped, TypesTyped, MaskTyped
  <2> QED BY <2>1, <2>2 DEF MaskTyped
<1>8. CASE UNCHANGED maskvars
  BY <1>8 DEF maskvars, masks, MaskTyped, SitesTyped, TypesTyped, RestTyped
<1> QED BY <1>2, <1>3, <1>4, <1>5, <1>6, <1>7, <1>8 DEF MaskNext

LEMMA StepTInv == TInv /\ [MaskNext]_maskvars => TInv'
<1>1. TInv' <=> MaskTyped'
  BY TypedIsTInv, PTL
<1> QED BY <1>1, TypedIsTInv, StepTyped

(***************************************************************************)
(* The state that the setters (PairQuantity.cpp:183-330) leave behind, in   *)
(* particular: the orders of iteration are those of the maps, and masks of *)
(* types and of sites exclude each other (PairQuantity.cpp:223, 301).      *)
(***************************************************************************)
THEOREM MasksTypeCorrect == MaskSpec => []MaskTypeOK
<1>1. TInv => MaskTypeOK
  BY DEF TInv
<1> QED BY InitTInv, StepTInv, <1>1, PTL DEF MaskSpec

-----------------------------------------------------------------------------
(* Where no masks are in dispute, every one that covers a pair decides.    *)

(* What the masks of all pairs of a site say of a pair. *)
Inverted(s, p) ==
  IF \E k \in DOMAIN msiteallmask : Claims(k, s, p)
    THEN \A k \in DOMAIN msiteallmask : Claims(k, s, p) => msiteallmask[k] # mdefaultpairmask
    ELSE p \in minvertpairmask

SitesAgree ==
  \A s : \A p \in PairsOf(Indices \cup Sites(s)) : p \in SpreadSites(s) <=> Inverted(s, p)

TypesAgree ==
  \A s, p : TypesOf(s, p) \notin DOMAIN mtypemask =>
    \A a \in Concerned(s, p) : TypeMaskOf(s, p) = mtypemask[AllKey(a)]

LEMMA UndisputedSites == SitesDecide /\ ~Disputed => SitesAgree
<1> SUFFICES ASSUME SitesDecide, ~Disputed, NEW s, NEW p \in PairsOf(Indices \cup Sites(s))
             PROVE  p \in SpreadSites(s) <=> Inverted(s, p)
  BY DEF SitesAgree
<1>1. p \in SpreadSites(s) <=>
        IF Covering(s, p) = {} THEN p \in minvertpairmask
        ELSE SiteMaskOf(s, p) # mdefaultpairmask
  BY DEF SpreadSites
<1>2. CASE Covering(s, p) = {}
  BY <1>1, <1>2 DEF SitesDecide, Inverted
<1>3. CASE Covering(s, p) # {}
  <2>1. PICK k \in DOMAIN msiteallmask :
          Claims(k, s, p) /\ SiteMaskOf(s, p) = msiteallmask[k]
    BY <1>3 DEF SitesDecide
  <2>2. \A l \in DOMAIN msiteallmask : msiteallmask[l] = msiteallmask[k]
    BY DEF Disputed
  <2> QED BY <1>1, <1>3, <2>1, <2>2 DEF Inverted
<1> QED BY <1>2, <1>3

LEMMA UndisputedTypes == TypesDecide /\ ~Disputed => TypesAgree
<1> SUFFICES ASSUME TypesDecide, ~Disputed, NEW s, NEW p,
                    TypesOf(s, p) \notin DOMAIN mtypemask, NEW a \in Concerned(s, p)
             PROVE  TypeMaskOf(s, p) = mtypemask[AllKey(a)]
  BY DEF TypesAgree
<1>1. PICK b \in Concerned(s, p) : TypeMaskOf(s, p) = mtypemask[AllKey(b)]
  BY DEF TypesDecide
<1>2. a \in AllTypes(mtypemask) /\ b \in AllTypes(mtypemask)
  BY DEF Concerned
<1> QED BY <1>1, <1>2 DEF Disputed

LEMMA Undisputed == TInv /\ ~Disputed => SitesAgree /\ TypesAgree
  BY OneSiteMaskDecides, OneTypeMaskDecides, UndisputedSites, UndisputedTypes

LEMMA UndisputedNext == TInv' /\ ~Disputed' => SitesAgree' /\ TypesAgree'
  BY Undisputed, PTL

-----------------------------------------------------------------------------
(* Steps that do not click.                                                *)

LEMMA SkippedPairs ==
  mdefaultpairmask \in BOOLEAN =>
    \A s, inverted :
      Skipped(s, inverted) = IF mdefaultpairmask THEN PairsOf(Sites(s)) \cap inverted
                             ELSE PairsOf(Sites(s)) \ inverted
<1> SUFFICES ASSUME mdefaultpairmask \in BOOLEAN, NEW s, NEW inverted
             PROVE  Skipped(s, inverted) = IF mdefaultpairmask
                                             THEN PairsOf(Sites(s)) \cap inverted
                                             ELSE PairsOf(Sites(s)) \ inverted
  OBVIOUS
<1>1. CASE mdefaultpairmask = TRUE
  <2>1. Skipped(s, inverted) = {p \in PairsOf(Sites(s)) : (p \in inverted) = TRUE}
    BY <1>1 DEF Skipped
  <2> QED BY <1>1, <2>1
<1>2. CASE mdefaultpairmask = FALSE
  <2>1. Skipped(s, inverted) = {p \in PairsOf(Sites(s)) : (p \in inverted) = FALSE}
    BY <1>2 DEF Skipped
  <2> QED BY <1>2, <2>1
<1> QED BY <1>1, <1>2

(* A step that leaves skipped what is skipped. *)
LEMMA SameSkips ==
  ASSUME SameAsUsed, mdefaultpairmask \in BOOLEAN,
         mstructure' = mstructure, mdefaultpairmask' = mdefaultpairmask, used' = used,
         \A p \in PairsOf(Sites(mstructure)) :
           /\ p \in minvertpairmask' <=> p \in minvertpairmask
           /\ p \in Spread(mstructure)' <=> p \in Spread(mstructure)
  PROVE  SameAsUsed'
<1>1. /\ Skipped(mstructure, minvertpairmask)' = Skipped(mstructure, minvertpairmask')
      /\ Skipped(mstructure, Spread(mstructure))' = Skipped(mstructure, Spread(mstructure)')
  BY DEF Skipped
<1> HIDE DEF Skipped
<1>2. /\ Skipped(mstructure, minvertpairmask') = Skipped(mstructure, minvertpairmask)
      /\ Skipped(mstructure, Spread(mstructure)') = Skipped(mstructure, Spread(mstructure))
  BY SkippedPairs
<1> QED BY <1>1, <1>2 DEF SameAsUsed

(* Marking a pair as it is marked changes nothing. *)
LEMMA MarkedAlready ==
  ASSUME mdefaultpairmask \in BOOLEAN, NEW i, NEW j, NEW m \in BOOLEAN, PairMaskOf(i, j) = m
  PROVE  Marked({Pair(i, j)}, m) = minvertpairmask
<1>1. CASE Pair(i, j) \in minvertpairmask
  <2>1. m # mdefaultpairmask
    BY <1>1 DEF PairMaskOf
  <2> QED BY <1>1, <2>1 DEF Marked
<1>2. CASE Pair(i, j) \notin minvertpairmask
  <2>1. m = mdefaultpairmask
    BY <1>2 DEF PairMaskOf
  <2> QED BY <1>2, <2>1 DEF Marked
<1> QED BY <1>1, <1>2

(* A mask is removed or entered that is not there or there already. *)
LEMMA SameMap ==
  /\ \A f : IsMaskMap(f) => Without(f, {}) = f
  /\ \A f : IsMaskMap(f) => \A k \in DOMAIN f : With(f, k, f[k]) = f
<1>1. ASSUME NEW f, IsMaskMap(f) PROVE Without(f, {}) = f
  BY <1>1 DEF IsMaskMap, Without
<1>2. ASSUME NEW f, IsMaskMap(f), NEW k \in DOMAIN f PROVE With(f, k, f[k]) = f
  <2>1. DOMAIN f \cup {k} = DOMAIN f
    OBVIOUS
  <2>2. With(f, k, f[k]) = [x \in DOMAIN f |-> f[x]]
    BY <2>1 DEF With
  <2> QED BY <1>2, <2>2 DEF IsMaskMap
<1> QED BY <1>1, <1>2

LEMMA Unclicked ==
  ASSUME NEW modified, ClickIf(modified), fresh'
  PROVE  ~modified /\ fresh /\ used' = used
  BY DEF ClickIf

(* setPairMask of a mask that is there (PairQuantity.cpp:245-260). *)
LEMMA FreshSetPairMask ==
  ASSUME TInv, TInv', FreshMaskIsUsed, fresh', ~Disputed',
         NEW i \in Indices, NEW j \in Indices, NEW m \in BOOLEAN, SetPairMask(i, j, m)
  PROVE  SameAsUsed'
<1> DEFINE contrary == {k \in {i, j} \cap DOMAIN msiteallmask : msiteallmask[k] # m}
<1>1. /\ mtypemask = Nothing /\ contrary = {} /\ PairMaskOf(i, j) = m
      /\ fresh /\ used' = used
  <2>1. ClickIf(mtypemask # Nothing \/ contrary # {} \/ PairMaskOf(i, j) # m)
    BY DEF SetPairMask
  <2> QED BY <2>1, Unclicked
<1>2. /\ mtypemask' = Nothing /\ msiteallmask' = Without(msiteallmask, contrary)
      /\ minvertpairmask' = Marked({Pair(i, j)}, m)
      /\ mstructure' = mstructure /\ mdefaultpairmask' = mdefaultpairmask
  BY DEF SetPairMask
<1> HIDE DEF contrary
<1>3. IsMaskMap(msiteallmask) /\ mdefaultpairmask \in BOOLEAN
  BY DEF TInv, MaskTypeOK
<1>4. msiteallmask' = msiteallmask /\ minvertpairmask' = minvertpairmask
  BY <1>1, <1>2, <1>3, SameMap, MarkedAlready
<1>5. ~Disputed
  BY <1>1, <1>2, <1>4 DEF Disputed
<1>6. SitesAgree /\ SitesAgree' /\ SameAsUsed
  BY <1>1, <1>5, Undisputed, UndisputedNext DEF FreshMaskIsUsed
<1>7. ASSUME NEW p \in PairsOf(Sites(mstructure))
      PROVE  p \in Spread(mstructure)' <=> p \in Spread(mstructure)
  <2>1. p \in PairsOf(Indices \cup Sites(mstructure))
    BY PairsOfSubset
  <2>2. Inverted(mstructure, p)' <=> Inverted(mstructure, p)
    BY <1>2, <1>4 DEF Inverted
  <2>3. p \in SpreadSites(mstructure) <=> Inverted(mstructure, p)
    BY <1>6, <2>1 DEF SitesAgree
  <2>4. p \in SpreadSites(mstructure)' <=> Inverted(mstructure, p)'
    BY <1>2, <1>6, <2>1 DEF SitesAgree
  <2> QED BY <1>1, <1>2, <2>2, <2>3, <2>4 DEF Spread
<1> QED BY <1>1, <1>2, <1>3, <1>4, <1>6, <1>7, SameSkips

(* setPairMask of a site and ALLATOMSINT that is there (PairQuantity.cpp:229-242). *)
LEMMA FreshSetSiteMask ==
  ASSUME TInv, TInv', FreshMaskIsUsed, fresh', ~Disputed',
         NEW k \in Indices, NEW m \in BOOLEAN, SetSiteMask(k, m)
  PROVE  SameAsUsed'
<1> DEFINE marked == {Pair(k, l) : l \in Sites(mstructure)}
<1>1. /\ mtypemask = Nothing /\ k \in DOMAIN msiteallmask /\ msiteallmask[k] = m
      /\ fresh /\ used' = used
  <2>1. ClickIf(\/ mtypemask # Nothing
                \/ k \notin DOMAIN msiteallmask
                \/ msiteallmask[k] # m)
    BY DEF SetSiteMask
  <2> QED BY <2>1, Unclicked
<1>2. /\ mtypemask' = Nothing /\ msiteallmask' = With(msiteallmask, k, m)
      /\ minvertpairmask' = Marked(marked, m)
      /\ mstructure' = mstructure /\ mdefaultpairmask' = mdefaultpairmask
  BY DEF SetSiteMask
<1>3. IsMaskMap(msiteallmask) /\ mdefaultpairmask \in BOOLEAN
  BY DEF TInv, MaskTypeOK
<1>4. msiteallmask' = msiteallmask
  BY <1>1, <1>2, <1>3, SameMap
<1>5. ~Disputed
  BY <1>1, <1>2, <1>4 DEF Disputed
<1>6. SitesAgree /\ SitesAgree' /\ SameAsUsed
  BY <1>1, <1>5, Undisputed, UndisputedNext DEF FreshMaskIsUsed
<1>7. ASSUME NEW p \in PairsOf(Sites(mstructure))
      PROVE  /\ p \in minvertpairmask' <=> p \in minvertpairmask
             /\ p \in Spread(mstructure)' <=> p \in Spread(mstructure)
  <2>1. p \in PairsOf(Indices \cup Sites(mstructure))
    BY PairsOfSubset
  <2>2. p \in Spread(mstructure) <=> Inverted(mstructure, p)
    BY <1>1, <1>6, <2>1 DEF SitesAgree, Spread
  <2>3. p \in Spread(mstructure)' <=> Inverted(mstructure, p)'
    BY <1>2, <1>6, <2>1 DEF SitesAgree, Spread
  <2>4. p \in Spread(mstructure) <=> p \in minvertpairmask
    BY <1>3, <1>6, SkippedPairs DEF SameAsUsed
  <2>5. CASE p \in marked
    <3>1. Claims(k, mstructure, p)
      BY <2>5 DEF Claims
    <3>2. \A l \in DOMAIN msiteallmask : msiteallmask[l] = m
      BY <1>1, <1>5 DEF Disputed
    <3>3. Inverted(mstructure, p) <=> m # mdefaultpairmask
      BY <1>1, <3>1, <3>2 DEF Inverted
    <3>4. Inverted(mstructure, p)' <=> m # mdefaultpairmask
      BY <1>1, <1>2, <1>4, <3>1, <3>2 DEF Inverted
    <3>5. p \in minvertpairmask' <=> m # mdefaultpairmask
      BY <1>2, <2>5 DEF Marked
    <3> QED BY <2>2, <2>3, <2>4, <3>3, <3>4, <3>5
  <2>6. CASE p \notin marked
    <3>1. p \in minvertpairmask' <=> p \in minvertpairmask
      BY <1>2, <2>6 DEF Marked
    <3>2. Inverted(mstructure, p)' <=> Inverted(mstructure, p)
      BY <1>2, <1>4, <3>1 DEF Inverted
    <3> QED BY <2>2, <2>3, <3>1, <3>2
  <2> QED BY <2>5, <2>6
<1> QED BY <1>1, <1>2, <1>3, <1>6, <1>7, SameSkips

(***************************************************************************)
(* setTypeMask of a mask that is there.  With All it may erase masks, but  *)
(* none that says otherwise (PairQuantity.cpp:301-329).                    *)
(***************************************************************************)
LEMMA FreshSetTypeMask ==
  ASSUME TInv, TInv', FreshMaskIsUsed, fresh', ~Disputed',
         NEW a \in AtomTypes, NEW b \in AtomTypes \cup {All}, NEW m \in BOOLEAN,
         SetTypeMask(a, b, m)
  PROVE  SameAsUsed'
<1> DEFINE key == Pair(a, b)
           erased == Erased(a, b)
<1>1. /\ key \in DOMAIN mtypemask /\ \A k \in erased \cup {key} : mtypemask[k] = m
      /\ fresh /\ used' = used
  <2>1. ClickIf(\/ key \notin DOMAIN mtypemask
                \/ \E k \in erased \cup {key} : mtypemask[k] # m)
    BY SetTypeMaskIs
  <2> QED BY <2>1, Unclicked
<1>2. /\ mtypemask' = With(Without(mtypemask, erased), key, m)
      /\ mstructure' = mstructure /\ mdefaultpairmask' = mdefaultpairmask
      /\ minvertpairmask' = minvertpairmask
      /\ msiteallmask' = Nothing
  BY SetTypeMaskIs
<1>3. /\ IsMaskMap(mtypemask) /\ mdefaultpairmask \in BOOLEAN
      /\ mtypemask # Nothing => msiteallmask = Nothing
  BY DEF TInv, MaskTypeOK
<1>4. mtypemask # Nothing /\ mtypemask' # Nothing /\ msiteallmask = Nothing
  <2>1. mtypemask # Nothing
    BY <1>1, NothingIsMaskMap
  <2>2. key \in DOMAIN mtypemask'
    BY <1>2 DEF With
  <2> QED BY <1>3, <2>1, <2>2, NothingIsMaskMap
<1>5. AllTypes(mtypemask') = AllTypes(mtypemask)
  BY <1>1, <1>2, <1>3, SameAllTypes DEF Erased
<1>6. /\ DOMAIN mtypemask' = DOMAIN mtypemask \ erased
      /\ \A k \in DOMAIN mtypemask' : mtypemask'[k] = mtypemask[k]
  <2>1. key \notin erased
    BY DEF Erased
  <2>2. DOMAIN mtypemask' = DOMAIN mtypemask \ erased
    BY <1>1, <1>2, <2>1 DEF With, Without
  <2>3. mtypemask'[key] = m
    BY <1>2 DEF With
  <2>4. \A k \in DOMAIN mtypemask' : k # key => mtypemask'[k] = mtypemask[k]
    BY <1>2, <2>2 DEF With, Without
  <2> QED BY <1>1, <2>2, <2>3, <2>4
<1>7. \A c \in AllTypes(mtypemask) :
        AllKey(c) \in DOMAIN mtypemask' /\ mtypemask'[AllKey(c)] = mtypemask[AllKey(c)]
  BY <1>5, <1>6 DEF AllTypes
<1>8. ~Disputed
  BY <1>4, <1>5, <1>7, NothingIsMaskMap DEF Disputed
<1>9. /\ TypesDecide /\ TypesAgree /\ SameAsUsed
      /\ TypesDecide' /\ TypesAgree'
  BY <1>1, <1>8, OneTypeMaskDecides, OneMaskDecidesNext, Undisputed, UndisputedNext
     DEF FreshMaskIsUsed
<1> HIDE DEF key, erased
<1>10. ASSUME NEW p
       PROVE  TypeMaskOf(mstructure, p)' = TypeMaskOf(mstructure, p)
  <2> DEFINE types == TypesOf(mstructure, p)
  <2>1. TypesOf(mstructure, p)' = types
    BY <1>2 DEF TypesOf
  <2>2. Concerned(mstructure, p)' = Concerned(mstructure, p)
    BY <1>2, <1>5 DEF Concerned, TypesOf
  <2>3. CASE types \in DOMAIN mtypemask'
    <3>1. TypeMaskOf(mstructure, p)' = mtypemask'[types]
      BY <1>2, <1>9, <2>3 DEF TypesDecide
    <3>2. TypeMaskOf(mstructure, p) = mtypemask[types]
      BY <1>6, <1>9, <2>3 DEF TypesDecide
    <3> QED BY <1>6, <2>3, <3>1, <3>2
  <2>4. CASE types \in erased
    <3>1. b = All /\ a \in types /\ types \in DOMAIN mtypemask /\ mtypemask[types] = m
      BY <1>1, <2>4 DEF Erased, erased
    <3>2. a \in Concerned(mstructure, p) /\ mtypemask[AllKey(a)] = m
      BY <1>1, <3>1 DEF Concerned, AllTypes, AllKey, key
    <3>3. TypeMaskOf(mstructure, p)' = mtypemask'[AllKey(a)]
      BY <1>2, <1>6, <1>9, <2>2, <2>4, <3>2 DEF TypesAgree
    <3>4. mtypemask'[AllKey(a)] = m
      BY <1>7, <3>2 DEF Concerned
    <3>5. TypeMaskOf(mstructure, p) = m
      BY <1>9, <3>1 DEF TypesDecide
    <3> QED BY <3>3, <3>4, <3>5
  <2>5. CASE types \notin DOMAIN mtypemask
    <3>1. types \notin DOMAIN mtypemask'
      BY <1>6, <2>5
    <3>2. CASE Concerned(mstructure, p) = {}
      <4>1. TypeMaskOf(mstructure, p) = mdefaultpairmask
        BY <1>9, <2>5, <3>2 DEF TypesDecide
      <4>2. TypeMaskOf(mstructure, p)' = mdefaultpairmask'
        BY <1>2, <1>9, <2>2, <3>1, <3>2 DEF TypesDecide
      <4> QED BY <1>2, <4>1, <4>2
    <3>3. CASE Concerned(mstructure, p) # {}
      <4>1. PICK c \in Concerned(mstructure, p) : TRUE
        BY <3>3
      <4>2. TypeMaskOf(mstructure, p) = mtypemask[AllKey(c)]
        BY <1>9, <2>5, <4>1 DEF TypesAgree
      <4>3. TypeMaskOf(mstructure, p)' = mtypemask'[AllKey(c)]
        BY <1>2, <1>9, <2>2, <3>1, <4>1 DEF TypesAgree
      <4>4. mtypemask'[AllKey(c)] = mtypemask[AllKey(c)]
        BY <1>7, <4>1 DEF Concerned
      <4> QED BY <4>2, <4>3, <4>4
    <3> QED BY <3>2, <3>3
  <2> QED BY <1>6, <2>3, <2>4, <2>5
<1>11. \A p \in PairsOf(Sites(mstructure)) :
         p \in Spread(mstructure)' <=> p \in Spread(mstructure)
  BY <1>2, <1>4, <1>10 DEF Spread, SpreadTypes
<1> QED BY <1>1, <1>2, <1>3, <1>9, <1>11, SameSkips

(* A mask that has just been spread is spread the same again. *)
LEMMA FreshEvaluate ==
  ASSUME NEW s, EvaluateMasked(s)
  PROVE  SameAsUsed'
<1>1. /\ mstructure' = s /\ minvertpairmask' = Spread(s) /\ used' = Skipped(s, Spread(s))
      /\ UNCHANGED <<mdefaultpairmask, msiteallmask, siteorder, mtypemask, typeorder>>
  BY DEF EvaluateMasked
<1>2. Spread(s)' = Spread(s)
  <2>1. SpreadTypes(s)' = SpreadTypes(s)
    BY <1>1 DEF SpreadTypes, TypeMaskOf, OrderedIn
  <2>2. CASE mtypemask # Nothing
    BY <1>1, <2>1, <2>2 DEF Spread
  <2>3. CASE mtypemask = Nothing
    <3>1. \A p : Covering(s, p)' = Covering(s, p) /\ SiteMaskOf(s, p)' = SiteMaskOf(s, p)
      BY <1>1 DEF Covering, SiteMaskOf
    <3>2. minvertpairmask' = SpreadSites(s)
      BY <1>1, <2>3 DEF Spread
    <3>3. SpreadSites(s)' = SpreadSites(s)
      BY <1>1, <3>1, <3>2 DEF SpreadSites
    <3> QED BY <1>1, <2>3, <3>3 DEF Spread
  <2> QED BY <2>2, <2>3
<1>3. Skipped(mstructure, minvertpairmask)' = used'
  BY <1>1 DEF Skipped
<1>4. Skipped(mstructure, Spread(mstructure))' = used'
  BY <1>1, <1>2 DEF Skipped
<1> QED BY <1>3, <1>4 DEF SameAsUsed

(* maskAllPairs where nothing is masked otherwise (PairQuantity.cpp:185). *)
LEMMA FreshMaskAllPairs ==
  ASSUME TInv, FreshMaskIsUsed, fresh', NEW m \in BOOLEAN, MaskAllPairs(m)
  PROVE  SameAsUsed'
<1>1. /\ minvertpairmask = {} /\ msiteallmask = Nothing /\ mtypemask = Nothing
      /\ mdefaultpairmask = m
      /\ fresh /\ used' = used
  <2>1. ClickIf(~ /\ minvertpairmask = {} /\ msiteallmask = Nothing /\ mtypemask = Nothing
                  /\ mdefaultpairmask = m)
    BY DEF MaskAllPairs
  <2> QED BY <2>1, Unclicked
<1>2. /\ minvertpairmask' = minvertpairmask /\ msiteallmask' = msiteallmask
      /\ mtypemask' = mtypemask /\ mdefaultpairmask' = mdefaultpairmask
      /\ mstructure' = mstructure /\ siteorder' = <<>>
  BY <1>1 DEF MaskAllPairs
<1>3. mdefaultpairmask \in BOOLEAN /\ siteorder \in Orders({})
  BY <1>1, NothingIsMaskMap DEF TInv, MaskTypeOK
<1>4. ~Disputed
  BY <1>1, NothingIsMaskMap, NoTypes DEF Disputed
<1>5. DOMAIN siteorder = {} /\ DOMAIN siteorder' = {}
  BY <1>2, <1>3, FS_EmptySet DEF Orders
<1>6. \A p : Covering(mstructure, p) = {} /\ Covering(mstructure, p)' = {}
  BY <1>5 DEF Covering
<1>7. \A p \in PairsOf(Sites(mstructure)) :
        p \in Spread(mstructure)' <=> p \in Spread(mstructure)
  BY <1>1, <1>2, <1>6 DEF Spread, SpreadSites
<1> QED BY <1>1, <1>2, <1>3, <1>4, <1>7, SameSkips DEF FreshMaskIsUsed

LEMMA StepFresh == TInv /\ TInv' /\ FreshMaskIsUsed /\ [MaskNext]_maskvars => FreshMaskIsUsed'
<1> SUFFICES ASSUME TInv, TInv', FreshMaskIsUsed, [MaskNext]_maskvars, fresh', ~Disputed'
             PROVE  SameAsUsed'
  BY DEF FreshMaskIsUsed
<1>1. ASSUME NEW m \in BOOLEAN, MaskAllPairs(m) PROVE SameAsUsed'
  BY <1>1, FreshMaskAllPairs
<1>2. CASE InvertMask
  BY <1>2 DEF InvertMask, ClickIf
<1>3. ASSUME NEW i \in Indices, NEW j \in Indices, NEW m \in BOOLEAN, SetPairMask(i, j, m)
      PROVE  SameAsUsed'
  BY <1>3, FreshSetPairMask
<1>4. ASSUME NEW k \in Indices, NEW m \in BOOLEAN, SetSiteMask(k, m) PROVE SameAsUsed'
  BY <1>4, FreshSetSiteMask
<1>5. ASSUME NEW a \in AtomTypes, NEW b \in AtomTypes \cup {All}, NEW m \in BOOLEAN,
             SetTypeMask(a, b, m)
      PROVE  SameAsUsed'
  BY <1>5, FreshSetTypeMask
<1>6. ASSUME NEW s \in Structures, EvaluateMasked(s) PROVE SameAsUsed'
  BY <1>6, FreshEvaluate
<1>7. CASE UNCHANGED maskvars
  <2>1. Disputed' <=> Disputed
    BY <1>7 DEF maskvars, masks, Disputed
  <2>2. SameAsUsed' <=> SameAsUsed
    BY <1>7 DEF maskvars, masks, SameAsUsed, Skipped, Spread, SpreadSites, SpreadTypes,
                SiteMaskOf, TypeMaskOf, Covering, OrderedIn
  <2> QED BY <1>7, <2>1, <2>2 DEF maskvars, FreshMaskIsUsed
<1> QED BY <1>1, <1>2, <1>3, <1>4, <1>5, <1>6, <1>7 DEF MaskNext

(***************************************************************************)
(* As long as the ticker has not clicked, the mask that the removal loop   *)
(* reads and the mask spread for the addition loop are the one the value   *)
(* was computed with (PQEvaluator.cpp:233, PairQuantity.cpp:183-330).  The *)
(* hypothesis that no masks are in dispute cannot be dropped: see the run  *)
(* mask_click.                                                             *)
(***************************************************************************)
THEOREM FreshMaskIsUsedAlways == MaskSpec => []FreshMaskIsUsed
<1>1. MaskInit => FreshMaskIsUsed
  BY DEF MaskInit, FreshMaskIsUsed
<1> QED BY InitTInv, StepTInv, StepFresh, <1>1, PTL DEF MaskSpec

-----------------------------------------------------------------------------
(* What the masks of types and the last setter say.                        *)

(* A pair of sites of s that a mask covers in t, it covers in s too. *)
LEMMA CoveredInBoth ==
  ASSUME NEW s, NEW t, NEW p \in PairsOf(Sites(s))
  PROVE  Covering(t, p) # {} => Covering(s, p) # {}
<1> SUFFICES ASSUME NEW n \in DOMAIN siteorder, NEW j \in Sites(t), p = Pair(siteorder[n], j)
             PROVE  Covering(s, p) # {}
  BY DEF Covering
<1>1. PICK a \in Sites(s), b \in Sites(s) : p = Pair(a, b)
  BY DEF PairsOf
<1>2. Pair(siteorder[n], j) = Pair(a, b)
  BY <1>1
<1>3. j = a \/ j = b
  BY <1>2 DEF Pair
<1>4. j \in Sites(s)
  BY <1>3
<1>5. n \in Covering(s, p)
  BY <1>4 DEF Covering
<1> QED BY <1>5

(* A pair of s is inverted after t was evaluated as it was before. *)
LEMMA SpreadTwice ==
  ASSUME NEW s, NEW t, EvaluateMasked(t), NEW p \in PairsOf(Sites(s))
  PROVE  p \in Spread(s)' <=> p \in Spread(s)
<1>1. /\ minvertpairmask' = Spread(t)
      /\ UNCHANGED <<mdefaultpairmask, msiteallmask, siteorder, mtypemask, typeorder>>
  BY DEF EvaluateMasked
<1>2. CASE mtypemask # Nothing
  <2>1. SpreadTypes(s)' = SpreadTypes(s)
    BY <1>1 DEF SpreadTypes, TypeMaskOf, OrderedIn
  <2> QED BY <1>1, <1>2, <2>1 DEF Spread
<1>3. CASE mtypemask = Nothing
  <2>1. p \in PairsOf(Indices \cup Sites(s))
    BY PairsOfSubset
  <2>2. /\ \A r : Covering(r, p)' = Covering(r, p)
        /\ \A r : SiteMaskOf(r, p)' = SiteMaskOf(r, p)
    BY <1>1 DEF Covering, SiteMaskOf
  <2>3. p \in Spread(s) <=> IF Covering(s, p) = {} THEN p \in minvertpairmask
                            ELSE SiteMaskOf(s, p) # mdefaultpairmask
    BY <1>3, <2>1 DEF Spread, SpreadSites
  <2>4. p \in Spread(s)' <=> IF Covering(s, p) = {} THEN p \in Spread(t)
                             ELSE SiteMaskOf(s, p) # mdefaultpairmask
    BY <1>1, <1>3, <2>1, <2>2 DEF Spread, SpreadSites
  <2>5. CASE Covering(s, p) # {}
    BY <2>3, <2>4, <2>5
  <2>6. CASE Covering(s, p) = {}
    <3>1. Covering(t, p) = {}
      BY <2>6, CoveredInBoth
    <3>2. p \in SpreadSites(t) => p \in minvertpairmask
      BY <3>1 DEF SpreadSites
    <3>3. p \in minvertpairmask => p \in SpreadSites(t)
      BY <3>1 DEF SpreadSites
    <3>4. Spread(t) = SpreadSites(t)
      BY <1>3 DEF Spread
    <3> QED BY <2>3, <2>4, <2>6, <3>2, <3>3, <3>4
  <2> QED BY <2>5, <2>6
<1> QED BY <1>2, <1>3

(***************************************************************************)
(* An evaluation changes no pair that a structure, evaluated next, would   *)
(* skip: not the pairs left over from a larger one, and not those in       *)
(* dispute (PairQuantity.cpp:426-436, 438-477).                            *)
(***************************************************************************)
THEOREM EvaluationKeepsMasksAlways == MaskSpec => EvaluationKeepsMasks
<1>1. ASSUME TInv, NEW t \in Structures, EvaluateMasked(t), NEW s \in Structures
      PROVE  Skipped(s, Spread(s))' = Skipped(s, Spread(s))
  <2>1. mdefaultpairmask \in BOOLEAN /\ mdefaultpairmask' = mdefaultpairmask
    BY <1>1 DEF TInv, MaskTypeOK, EvaluateMasked
  <2>2. \A p \in PairsOf(Sites(s)) : p \in Spread(s)' <=> p \in Spread(s)
    BY <1>1, SpreadTwice
  <2>3. Skipped(s, Spread(s))' = Skipped(s, Spread(s)')
    BY <2>1 DEF Skipped
  <2>4. /\ PairsOf(Sites(s)) \cap Spread(s)' = PairsOf(Sites(s)) \cap Spread(s)
        /\ PairsOf(Sites(s)) \ Spread(s)' = PairsOf(Sites(s)) \ Spread(s)
    BY <2>2
  <2>5. \A inverted :
          Skipped(s, inverted) = IF mdefaultpairmask THEN PairsOf(Sites(s)) \cap inverted
                                 ELSE PairsOf(Sites(s)) \ inverted
    BY <2>1, SkippedPairs
  <2>6. Skipped(s, Spread(s)') = Skipped(s, Spread(s))
    BY <2>4, <2>5
  <2> QED BY <2>3, <2>6
<1>2. TInv => (\A t \in Structures : EvaluateMasked(t) =>
                \A s \in Structures : Skipped(s, Spread(s))' = Skipped(s, Spread(s)))
  BY <1>1
<1> QED BY InitTInv, StepTInv, <1>2, PTL DEF MaskSpec, EvaluationKeepsMasks

(***************************************************************************)
(* getTypeMask and updateMaskData agree on the pairs of any two types      *)
(* (PairQuantity.cpp:333-346, 438-477).                                    *)
(***************************************************************************)
THEOREM TypeMaskIsSpreadAlways == MaskSpec => []TypeMaskIsSpread
<1>1. TInv => TypeMaskIsSpread
  <2> SUFFICES ASSUME TInv, mtypemask # Nothing, ~Disputed,
                      NEW s \in Structures, NEW i \in Sites(s), NEW j \in Sites(s)
               PROVE  Pair(i, j) \in Spread(s)
                        <=> GetTypeMask(TypeOf(s, i), TypeOf(s, j)) # mdefaultpairmask
    BY DEF TypeMaskIsSpread
  <2> DEFINE p == Pair(i, j)
             a == TypeOf(s, i)
             b == TypeOf(s, j)
  <2>1. TypesDecide /\ TypesAgree
    BY OneTypeMaskDecides, Undisputed
  <2>2. a \in AtomTypes /\ b \in AtomTypes
    <3>1. s \in Seq(AtomTypes) /\ i + 1 \in 1..Len(s) /\ j + 1 \in 1..Len(s)
      BY MaskAssumption DEF Sites
    <3> QED BY <3>1 DEF TypeOf
  <2>3. TypesOf(s, p) = Pair(a, b)
    BY DEF TypesOf, Pair
  <2>4. p \in Spread(s) <=> TypeMaskOf(s, p) # mdefaultpairmask
    BY DEF Spread, SpreadTypes, PairsOf
  <2>5. Concerned(s, p) = {c \in {a, b} : AllKey(c) \in DOMAIN mtypemask}
    BY <2>2, <2>3, PairMembers DEF Concerned, AllTypes
  <2> HIDE DEF p, a, b
  <2>6. TypeMaskOf(s, p) = GetTypeMask(a, b)
    <3>1. CASE Pair(a, b) \in DOMAIN mtypemask
      BY <2>1, <2>3, <3>1 DEF TypesDecide, GetTypeMask
    <3>2. CASE Pair(a, b) \notin DOMAIN mtypemask /\ Concerned(s, p) = {}
      BY <2>1, <2>3, <2>5, <3>2 DEF TypesDecide, GetTypeMask
    <3>3. CASE Pair(a, b) \notin DOMAIN mtypemask /\ Concerned(s, p) # {}
      <4>1. PICK c \in Concerned(s, p) : GetTypeMask(a, b) = mtypemask[AllKey(c)]
        BY <2>5, <3>3 DEF GetTypeMask
      <4> QED BY <2>1, <2>3, <3>3, <4>1 DEF TypesAgree
    <3> QED BY <3>1, <3>2, <3>3
  <2> QED BY <2>4, <2>6 DEF p, a, b
<1> QED BY InitTInv, StepTInv, <1>1, PTL DEF MaskSpec

(* After setPairMask no mask of all pairs of a site contradicts it. *)
LEMMA LastWordOnPair ==
  ASSUME TInv, TInv', NEW i \in Indices, NEW j \in Indices, NEW m \in BOOLEAN,
         SetPairMask(i, j, m)
  PROVE  /\ PairMaskOf(i, j)' = m
         /\ \A s \in Structures : Pair(i, j) \in Spread(s)' <=> m # mdefaultpairmask
<1> DEFINE contrary == {k \in {i, j} \cap DOMAIN msiteallmask : msiteallmask[k] # m}
<1>1. /\ mtypemask' = Nothing /\ msiteallmask' = Without(msiteallmask, contrary)
      /\ minvertpairmask' = Marked({Pair(i, j)}, m)
      /\ mdefaultpairmask' = mdefaultpairmask
  BY DEF SetPairMask
<1>2. mdefaultpairmask \in BOOLEAN /\ IsMaskMap(msiteallmask)
  BY DEF TInv, MaskTypeOK
<1>3. Pair(i, j) \in minvertpairmask' <=> m # mdefaultpairmask
  BY <1>1 DEF Marked
<1>4. PairMaskOf(i, j)' = m
  <2>1. CASE m = mdefaultpairmask
    BY <1>1, <1>3, <2>1 DEF PairMaskOf
  <2>2. CASE m # mdefaultpairmask
    <3>1. m = ~mdefaultpairmask
      BY <1>2, <2>2
    <3> QED BY <1>1, <1>3, <2>2, <3>1 DEF PairMaskOf
  <2> QED BY <2>1, <2>2
<1>5. ASSUME NEW k \in DOMAIN msiteallmask', k \in {i, j}
      PROVE  msiteallmask'[k] = m
  <2>1. k \in DOMAIN msiteallmask \ contrary /\ msiteallmask'[k] = msiteallmask[k]
    <3> HIDE DEF contrary
    <3>1. /\ DOMAIN Without(msiteallmask, contrary) = DOMAIN msiteallmask \ contrary
          /\ \A x \in DOMAIN msiteallmask \ contrary :
               Without(msiteallmask, contrary)[x] = msiteallmask[x]
      BY <1>2, MaskMapWithout
    <3> QED BY <1>1, <3>1
  <2> QED BY <1>5, <2>1
<1>6. ASSUME NEW s \in Structures
      PROVE  Pair(i, j) \in Spread(s)' <=> m # mdefaultpairmask
  <2> DEFINE p == Pair(i, j)
  <2>1. p \in PairsOf(Indices \cup Sites(s))
    BY DEF PairsOf
  <2>2. p \in Spread(s)'
          <=> IF Covering(s, p)' = {} THEN p \in minvertpairmask'
              ELSE SiteMaskOf(s, p)' # mdefaultpairmask'
    BY <1>1, <2>1 DEF Spread, SpreadSites
  <2>3. CASE Covering(s, p)' = {}
    BY <1>3, <2>2, <2>3
  <2>4. CASE Covering(s, p)' # {}
    <3>1. SitesDecide'
      BY OneMaskDecidesNext
    <3>2. PICK k \in DOMAIN msiteallmask' :
            Claims(k, s, p) /\ SiteMaskOf(s, p)' = msiteallmask'[k]
      BY <2>4, <3>1 DEF SitesDecide
    <3>3. k \in {i, j}
      BY <3>2, PairMembers DEF Claims
    <3> QED BY <1>1, <1>5, <2>2, <2>4, <3>2, <3>3
  <2> QED BY <2>3, <2>4
<1> QED BY <1>4, <1>6

(* After setTypeMask of two types their mask precedes those with All. *)
LEMMA LastWordOnTypes ==
  ASSUME NEW a \in AtomTypes, NEW b \in AtomTypes, NEW m \in BOOLEAN, SetTypeMask(a, b, m),
         NEW s \in Structures
  PROVE  {p \in Spread(s)' : TypesOf(s, p) = Pair(a, b)}
           = IF m = mdefaultpairmask THEN {}
             ELSE {p \in PairsOf(Sites(s)) : TypesOf(s, p) = Pair(a, b)}
<1>1. /\ mtypemask' = With(Without(mtypemask, Erased(a, b)), Pair(a, b), m)
      /\ mdefaultpairmask' = mdefaultpairmask
  BY SetTypeMaskIs
<1>2. Pair(a, b) \in DOMAIN mtypemask' /\ mtypemask'[Pair(a, b)] = m
  BY <1>1 DEF With
<1>3. mtypemask' # Nothing
  BY <1>2, NothingIsMaskMap
<1>4. Spread(s)' = {p \in PairsOf(Sites(s)) : TypeMaskOf(s, p)' # mdefaultpairmask}
  BY <1>1, <1>3 DEF Spread, SpreadTypes
<1>5. \A p : TypesOf(s, p) = Pair(a, b) => TypeMaskOf(s, p)' = m
  BY <1>2 DEF TypeMaskOf
<1> QED BY <1>4, <1>5

(***************************************************************************)
(* The last word on a pair of indices or of types is kept, whatever masks  *)
(* "for all" there are, also those in dispute, and in every structure      *)
(* (PairQuantity.cpp:247).                                                 *)
(***************************************************************************)
THEOREM LastWordIsKeptAlways == MaskSpec => LastWordIsKept
<1> DEFINE kept ==
      \A m \in BOOLEAN :
        /\ \A i, j \in Indices : SetPairMask(i, j, m) =>
             /\ PairMaskOf(i, j)' = m
             /\ \A s \in Structures : Pair(i, j) \in Spread(s)' <=> m # mdefaultpairmask
        /\ \A a, b \in AtomTypes : SetTypeMask(a, b, m) =>
             \A s \in Structures :
               {p \in Spread(s)' : TypesOf(s, p) = Pair(a, b)}
                 = IF m = mdefaultpairmask THEN {}
                   ELSE {p \in PairsOf(Sites(s)) : TypesOf(s, p) = Pair(a, b)}
<1>1. TInv /\ TInv' => kept
  <2> SUFFICES ASSUME TInv, TInv', NEW m \in BOOLEAN
               PROVE  /\ \A i, j \in Indices : SetPairMask(i, j, m) =>
                           /\ PairMaskOf(i, j)' = m
                           /\ \A s \in Structures :
                                Pair(i, j) \in Spread(s)' <=> m # mdefaultpairmask
                      /\ \A a, b \in AtomTypes : SetTypeMask(a, b, m) =>
                           \A s \in Structures :
                             {p \in Spread(s)' : TypesOf(s, p) = Pair(a, b)}
                               = IF m = mdefaultpairmask THEN {}
                                 ELSE {p \in PairsOf(Sites(s)) : TypesOf(s, p) = Pair(a, b)}
    OBVIOUS
  <2>1. ASSUME NEW i \in Indices, NEW j \in Indices, SetPairMask(i, j, m)
        PROVE  /\ PairMaskOf(i, j)' = m
               /\ \A s \in Structures : Pair(i, j) \in Spread(s)' <=> m # mdefaultpairmask
    BY <2>1, LastWordOnPair
  <2>2. ASSUME NEW a \in AtomTypes, NEW b \in AtomTypes, SetTypeMask(a, b, m),
               NEW s \in Structures
        PROVE  {p \in Spread(s)' : TypesOf(s, p) = Pair(a, b)}
                 = IF m = mdefaultpairmask THEN {}
                   ELSE {p \in PairsOf(Sites(s)) : TypesOf(s, p) = Pair(a, b)}
    BY <2>2, LastWordOnTypes
  <2> QED BY <2>1, <2>2
<1> HIDE DEF kept
<1>2. MaskSpec => [][kept]_maskvars
  BY InitTInv, StepTInv, <1>1, PTL DEF MaskSpec
<1> QED BY <1>2 DEF LastWordIsKept, kept
=============================================================================
