----------------------------- MODULE ClassRegistry -----------------------------
(***************************************************************************)
(* HasClassRegistry: prototypes of the classes derived from one base       *)
(* class, by the names of their types and by aliases.  A name holds a      *)
(* pointer, and names with equal pointers are aliases of each other.       *)
(*                                                                         *)
(* A prototype is its type and the number that tells it from others of     *)
(* its type, made before or after it has been deregistered.                *)
(***************************************************************************)
EXTENDS Integers

CONSTANTS
  Types,      \* names that classes give for their type
  Aliases,    \* other names
  RadiationType, \* type of a scattering factor table -> its radiation type
  Generations \* bound on the prototypes of one type

ASSUME RegistryAssumption ==
  /\ Generations \in Nat \ {0}
  /\ RadiationType \in [DOMAIN RadiationType -> Types \cup Aliases]
  /\ DOMAIN RadiationType \subseteq Types

VARIABLES
  registry,   \* name -> prototype
  made        \* type -> number of its prototypes so far

regvars == <<registry, made>>

Names == Types \cup Aliases

Prototypes == [type : Types, number : 1..Generations]

-----------------------------------------------------------------------------
(* reg[name] = p *)
Entered(reg, name, p) ==
  [n \in DOMAIN reg \cup {name} |-> IF n = name THEN p ELSE reg[n]]

CanAlias(reg, tp, al) ==
  /\ tp \in DOMAIN reg
  /\ al \in DOMAIN reg => reg[al] = reg[tp]

NewPrototype(tp) == [type |-> tp, number |-> made[tp] + 1]

(* Slip: an alias is removed without the type it stands for. *)
OthersOfName(tp) == DOMAIN registry \ {tp}

(* Names left without those that have the pointer of tp. *)
Others(tp) == {n \in DOMAIN registry : registry[n] # registry[tp]}

(* Type that createByType makes for a name; an unknown name throws. *)
TypeByName(name) == registry[name].type

AliasedTypes == {n \in DOMAIN registry : TypeByName(n) # n}

RegisteredTypes == {TypeByName(n) : n \in DOMAIN registry}

-----------------------------------------------------------------------------
(* A second class with a type that is registered throws. *)
RegisterThisType(tp) ==
  /\ tp \notin DOMAIN registry
  /\ made[tp] < Generations
  /\ registry' = Entered(registry, tp, NewPrototype(tp))
  /\ made' = [made EXCEPT ![tp] = @ + 1]

(* ScatteringFactorTable: if its radiation type is taken, the type stays without it. *)
RegisterTable(tp) ==
  /\ tp \in DOMAIN RadiationType
  /\ tp \notin DOMAIN registry
  /\ made[tp] < Generations
  /\ LET own == Entered(registry, tp, NewPrototype(tp))
         al == RadiationType[tp]
     IN  registry' = IF CanAlias(own, tp, al) THEN Entered(own, al, own[tp]) ELSE own
  /\ made' = [made EXCEPT ![tp] = @ + 1]

AliasType(tp, al) ==
  /\ CanAlias(registry, tp, al)
  /\ registry' = Entered(registry, al, registry[tp])
  /\ UNCHANGED made

DeregisterType(tp) ==
  /\ tp \in DOMAIN registry
  /\ registry' = [n \in Others(tp) |-> registry[n]]
  /\ UNCHANGED made

RegistryInit ==
  /\ registry = [n \in {} |-> [type |-> n, number |-> 1]]
  /\ made = [tp \in Types |-> 0]

RegistryNext ==
  \/ \E tp \in Types : RegisterThisType(tp) \/ RegisterTable(tp)
  \/ \E tp \in Names, al \in Names : AliasType(tp, al)
  \/ \E tp \in Names : DeregisterType(tp)

RegistrySpec == RegistryInit /\ [][RegistryNext]_regvars

-----------------------------------------------------------------------------
(* Properties.                                                             *)

RegistryTypeOK ==
  /\ DOMAIN registry \subseteq Names
  /\ registry \in [DOMAIN registry -> Prototypes]
  /\ made \in [Types -> 0..Generations]

(***************************************************************************)
(* Whatever has been registered, aliased and deregistered in between, a    *)
(* name leads to the prototype that the type of that prototype leads to:   *)
(* getRegisteredTypes lists types that createByType knows, and             *)
(* deregisterType leaves no alias behind (HasClassRegistry.ipp:78).        *)
(***************************************************************************)
TypesKnowThemselves ==
  /\ RegisteredTypes \subseteq DOMAIN registry
  /\ \A n \in AliasedTypes : registry[TypeByName(n)] = registry[n]
=============================================================================
