---------------------------- MODULE ScatteringData ----------------------------
(***************************************************************************)
(* The static tables of scattering factors: the files they are read from   *)
(* on first use, the directory those are looked up in, and the three       *)
(* searches for a symbol that is not listed as it is written.              *)
(*                                                                         *)
(* A symbol is [mass, el, digit, sign], the "2-H" of an isotope or the     *)
(* "Na1+" of an ion; a file is a sequence of lines, each reduced to what   *)
(* its reader makes of it: a comment or a line without data is "#", one    *)
(* that is not well formed is "?".  Factors are numbers by symbol, without *)
(* their dependence on Q.                                                  *)
(***************************************************************************)
EXTENDS Integers, FiniteSets, SequencesExt, TLC

CONSTANTS
  Directories,    \* directory -> file -> lines; a file may be missing
  Installed,      \* the directory found beside the library
  RealPath,       \* string -> directory or what does not exist
  Unset,          \* no DIFFPYRUNTIME
  Symbols,        \* what a user may look up
  NoDigit,
  MinTableSize    \* 447 in the code

Files == {"f0_WaasKirf", "ionlist", "nsftable"}

ScatteringDataAssumption ==
  /\ Installed \in DOMAIN Directories /\ Unset \notin DOMAIN RealPath
  /\ \A d \in DOMAIN Directories : DOMAIN Directories[d] \subseteq Files
  /\ MinTableSize \in Nat

VARIABLES
  env,        \* DIFFPYRUNTIME
  envrt,      \* [did, dprt, path]: the statics of diffpyruntime
  tables      \* file -> [loaded, items, origin, torn]; the last two are history

vars == <<env, envrt, tables>>

-----------------------------------------------------------------------------
(* The directory of the data.                                              *)

Exists(d) == d \in DOMAIN Directories

(* Slip: an environment that has changed is not noticed. *)
CachedOnce(old) ==
  IF env = Unset \/ old.did THEN old
  ELSE [did |-> Exists(RealPath[env]), dprt |-> env, path |-> RealPath[env]]

(* The statics after a call.  A directory that does not exist leaves its   *)
(* name behind but not the flag.                                           *)
Cached(old) ==
  IF env = Unset \/ (old.did /\ old.dprt = env) THEN old
  ELSE [did |-> Exists(RealPath[env]), dprt |-> env, path |-> RealPath[env]]

(* The call throws if it returns what it has not found. *)
DiffpyRuntimeThrows == env /= Unset /\ ~Cached(envrt).did

DiffpyRuntime == IF env = Unset THEN Installed ELSE Cached(envrt).path

-----------------------------------------------------------------------------
(* Reading.  A reader folds the lines of its file; once it has thrown, the *)
(* rest is not read and what has been stored remains.                      *)

Start == [items |-> <<>>, pending |-> <<>>, thrown |-> FALSE]

Throw(r) == [r EXCEPT !.thrown = TRUE]

Store(r, symbol, x) ==
  IF symbol \in DOMAIN r.items THEN Throw(r)
  ELSE [r EXCEPT !.items = (symbol :> x) @@ @]

(* An insert that leaves an earlier entry alone. *)
Insert(r, symbol, x) == [r EXCEPT !.items = @ @@ (symbol :> x)]

(* "#S" names the symbol that the values after the next "#L" are for; all  *)
(* other lines are skipped.                                                *)
WKLine(r, line) ==
  CASE r.thrown -> r
    [] line.mark = "#S" -> [r EXCEPT !.pending = line.symbol]
    [] line.mark = "#L" -> IF r.pending = <<>> THEN Throw(r)
                           ELSE [Store(r, r.pending, line.value) EXCEPT !.pending = <<>>]
    [] line.mark = "?" -> Throw(r)
    [] OTHER -> r

Element(el) == [mass |-> 0, el |-> el, digit |-> NoDigit, sign |-> 0]

Ion(el, v) ==
  [Element(el) EXCEPT !.digit = IF v > 0 THEN v ELSE -v, !.sign = IF v > 0 THEN 1 ELSE -1]

IonLine(r, line) ==
  CASE r.thrown \/ line.mark = "#" -> r
    [] line.mark = "?" -> Throw(r)
    [] OTHER -> FoldLeft(LAMBDA s, v : Insert(s, Ion(line.el, v), line.value - v),
                         Insert(r, Element(line.el), line.value), line.ions)

(* Slip: an element is added for each of its unstable isotopes. *)
NeutronLineEachIsotope(r, line) ==
  CASE r.thrown \/ line.mark = "#" -> r
    [] line.mark = "?" -> Throw(r)
    [] OTHER ->
         LET stored == Store(r, line.symbol, line.value)
             el == Element(line.symbol.el)
         IN  IF stored.thrown \/ line.symbol.mass = 0 THEN stored
             ELSE IF line.chlf = "100"
                  THEN Store(stored, el, line.value)
                  ELSE IF line.chlf = "Y"
                       THEN [stored EXCEPT !.items = (el :> line.value) @@ @] ELSE stored

(* The element is not listed if it has one isotope or none that is stable: *)
(* it takes the length of that one, or of the first.                       *)
NeutronLine(r, line) ==
  CASE r.thrown \/ line.mark = "#" -> r
    [] line.mark = "?" -> Throw(r)
    [] OTHER ->
         LET stored == Store(r, line.symbol, line.value)
             el == Element(line.symbol.el)
             addel == \/ line.chlf = "100"
                      \/ line.chlf = "Y" /\ el \notin DOMAIN stored.items
         IN  IF stored.thrown \/ line.symbol.mass = 0 \/ ~addel THEN stored
             ELSE Store(stored, el, line.value)

Aliased == <<<<"n", "n", 1>>, <<"D", "H", 2>>, <<"T", "H", 3>>>>

Alias(r, a) ==
  LET isotope == [Element(a[2]) EXCEPT !.mass = a[3]]
  IN  IF r.thrown THEN r
      ELSE IF isotope \notin DOMAIN r.items THEN Throw(r)
      ELSE Insert(r, Element(a[1]), r.items[isotope])

(* What a reader makes of a file, complete or not. *)
Read(file, lines) ==
  CASE file = "f0_WaasKirf" -> FoldLeft(WKLine, Start, lines)
    [] file = "ionlist" ->
         LET r == FoldLeft(IonLine, Start, lines)
         IN  IF ~r.thrown /\ Cardinality(DOMAIN r.items) < MinTableSize THEN Throw(r) ELSE r
    [] file = "nsftable" -> FoldLeft(Alias, FoldLeft(NeutronLine, Start, lines), Aliased)

(* A table is created before its file is looked for, and is not taken back. *)
Loaded(file) ==
  LET d == DiffpyRuntime
      r == IF DiffpyRuntimeThrows \/ file \notin DOMAIN Directories[d]
           THEN Throw(Start) ELSE Read(file, Directories[d][file])
  IN  [loaded |-> TRUE, items |-> r.items, torn |-> r.thrown, origin |-> d]

-----------------------------------------------------------------------------
(* Searching.  Each yields the entry found, or <<>> where it throws.       *)

BareSymbol(s) == [s EXCEPT !.mass = 0, !.sign = 0, !.digit = IF @ = 9 THEN 9 ELSE NoDigit]

Valence(s) == IF s.digit \in 0..8 THEN s.sign * s.digit ELSE s.sign

FirstOf(items, symbols) ==
  LET found == SelectSeq(symbols, LAMBDA s : s \in DOMAIN items)
  IN  IF found = <<>> THEN <<>> ELSE Head(found)

WithCharge(s, v) ==
  IF v = 0 THEN BareSymbol(s)
  ELSE [BareSymbol(s) EXCEPT !.digit = IF v > 0 THEN v ELSE -v, !.sign = IF v > 0 THEN 1 ELSE -1]

(* Slip: an ion that is not listed is taken for its element. *)
FindWKFormulaOrElement(items, s) ==
  LET v == Valence(s)
  IN  FirstOf(items, <<s, IF v \in {-1, 1} THEN WithCharge(s, v) ELSE BareSymbol(s)>>)

(* "Na+" is listed as "Na1+"; a charge that is not one is written the same. *)
FindWKFormula(items, s) ==
  LET v == Valence(s)
  IN  FirstOf(items, <<s>> \o IF v \in {-1, 0, 1} THEN <<WithCharge(s, v)>> ELSE <<>>)

ElectronNumber(items, s) == FirstOf(items, <<s, WithCharge(s, Valence(s))>>)

(* Charges are cut off, and the mass of an isotope stays. *)
BCNeutron(items, s) == FirstOf(items, <<s, [BareSymbol(s) EXCEPT !.mass = s.mass]>>)

Find(file, items, s) ==
  CASE file = "f0_WaasKirf" -> FindWKFormula(items, s)
    [] file = "ionlist" -> ElectronNumber(items, s)
    [] file = "nsftable" -> BCNeutron(items, s)

-----------------------------------------------------------------------------
(* Actions.                                                                *)

Init ==
  /\ env = Unset
  /\ envrt = [did |-> FALSE, dprt |-> Unset, path |-> Unset]
  /\ tables = [f \in Files |-> [loaded |-> FALSE, items |-> <<>>, torn |-> FALSE, origin |-> Unset]]

SetEnv(e) == e /= env /\ env' = e /\ UNCHANGED <<envrt, tables>>

Datapath == envrt' = Cached(envrt) /\ UNCHANGED <<env, tables>>

(* A lookup in a table that has not been used. *)
FirstLookup(file) ==
  /\ ~tables[file].loaded
  /\ envrt' = Cached(envrt)
  /\ tables' = [tables EXCEPT ![file] = Loaded(file)]
  /\ UNCHANGED env

Next ==
  \/ \E e \in DOMAIN RealPath \cup {Unset} : SetEnv(e)
  \/ Datapath
  \/ \E f \in Files : FirstLookup(f)

Spec == Init /\ [][Next]_vars

-----------------------------------------------------------------------------
(* Properties.                                                             *)

TypeOK ==
  /\ env \in DOMAIN RealPath \cup {Unset}
  /\ envrt.did \in BOOLEAN /\ envrt.did => Exists(envrt.path)
  /\ \A f \in Files : /\ {tables[f].loaded, tables[f].torn} \subseteq BOOLEAN
                      /\ tables[f].items /= <<>> => tables[f].loaded

(* The directory that diffpyruntime remembers is the one that the          *)
(* environment names now, whatever it named, and failed to name, before    *)
(* (runtimepath.cpp:80).                                                   *)
PathIsCurrent ==
  ~DiffpyRuntimeThrows =>
    /\ Exists(DiffpyRuntime)
    /\ DiffpyRuntime = IF env = Unset THEN Installed ELSE RealPath[env]

(* A table whose reading was cut short by an exception stays in use        *)
(* (scatteringfactordata.cpp:136, 230, 278): what it finds for a symbol is *)
(* then still what the whole file would give.                              *)
TornTablesAreRight ==
  \A f \in Files : tables[f].torn /\ tables[f].items /= <<>> =>
    LET whole == Read(f, SelectSeq(Directories[tables[f].origin][f], LAMBDA l : l.mark /= "?"))
    IN  \A s \in Symbols :
          LET found == Find(f, tables[f].items, s)
          IN  found /= <<>> => /\ found = Find(f, whole.items, s)
                               /\ tables[f].items[found] = whole.items[found]

(* The three searches take a symbol for the same element, and those of     *)
(* X-ray factors and electron numbers for the same ion                     *)
(* (scatteringfactordata.cpp:189, 382, 408).                               *)
TablesResolveAlike ==
  (\A f \in Files : tables[f].loaded) =>
    \A s \in Symbols :
      LET x == FindWKFormula(tables["f0_WaasKirf"].items, s)
          e == ElectronNumber(tables["ionlist"].items, s)
          n == BCNeutron(tables["nsftable"].items, s)
      IN  /\ x /= <<>> /\ e /= <<>> => x = e
          /\ e /= <<>> /\ n /= <<>> => e.el = n.el
=============================================================================
