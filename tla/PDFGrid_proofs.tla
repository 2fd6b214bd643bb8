---------------------------- MODULE PDFGrid_proofs ----------------------------
(***************************************************************************)
(* What updates carry from one array of PDFCalculator to another, for any  *)
(* structures, ranges, steps and extensions.                               *)
(***************************************************************************)
EXTENDS PDFGrid, FiniteSetTheorems, WellFoundedInduction, TLAPS

-----------------------------------------------------------------------------
(* Steps and distances.                                                    *)

LEMMA DivBounds ==
  ASSUME NEW a \in Int, NEW n \in Nat \ {0}
  PROVE  /\ a \div n \in Int
         /\ (a \div n) * n =< a /\ a < (a \div n) * n + n
OBVIOUS

LEMMA Times ==
  ASSUME NEW k \in Int, NEW l \in Int, NEW n \in Nat, k =< l
  PROVE  k * n \in Int /\ l * n \in Int /\ k * n =< l * n
OBVIOUS

LEMMA CeilBounds ==
  ASSUME NEW a \in Int, NEW n \in Nat \ {0}
  PROVE  /\ CeilDiv(a, n) \in Int
         /\ a =< CeilDiv(a, n) * n /\ CeilDiv(a, n) * n < a + n
<1> DEFINE q == (-a) \div n
<1>1. q \in Int /\ q * n =< -a /\ -a < q * n + n
  BY DivBounds
<1>2. (-q) * n = -(q * n)
  BY <1>1
<1>3. CeilDiv(a, n) = -q
  BY DEF CeilDiv
<1> HIDE DEF q
<1> QED BY <1>1, <1>2, <1>3

(* The steps from which on a distance is reached. *)
LEMMA CeilReaches ==
  ASSUME NEW a \in Int, NEW n \in Nat \ {0}, NEW k \in Int
  PROVE  CeilDiv(a, n) =< k <=> a =< k * n
<1> DEFINE c == CeilDiv(a, n)
<1>1. c \in Int /\ a =< c * n /\ c * n < a + n
  BY CeilBounds
<1> HIDE DEF c
<1>2. ASSUME c =< k PROVE a =< k * n
  BY <1>1, <1>2, Times
<1>3. ASSUME a =< k * n, ~(c =< k) PROVE FALSE
  <2>1. k + 1 =< c
    BY <1>1, <1>3
  <2>2. (k + 1) * n =< c * n
    BY <1>1, <2>1, Times
  <2>3. (k + 1) * n = k * n + n
    OBVIOUS
  <2> QED BY <1>1, <1>3, <2>2, <2>3
<1> QED BY <1>2, <1>3 DEF c

LEMMA MinOfTwo ==
  ASSUME NEW a \in Int, NEW c \in Int
  PROVE  Min({a, c}) = IF a =< c THEN a ELSE c
<1> DEFINE m == IF a =< c THEN a ELSE c
<1>1. m \in {a, c} /\ \A y \in {a, c} : m =< y
  OBVIOUS
<1>2. \A x \in {a, c} : (\A y \in {a, c} : x =< y) => x = m
  OBVIOUS
<1> QED BY <1>1, <1>2 DEF Min

LEMMA MaxOfTwo ==
  ASSUME NEW a \in Int, NEW c \in Int
  PROVE  Max({a, c}) = IF a =< c THEN c ELSE a
<1> DEFINE m == IF a =< c THEN c ELSE a
<1>1. m \in {a, c} /\ \A y \in {a, c} : m >= y
  OBVIOUS
<1>2. \A x \in {a, c} : (\A y \in {a, c} : x >= y) => x = m
  OBVIOUS
<1> QED BY <1>1, <1>2 DEF Max

-----------------------------------------------------------------------------
(* Limits.                                                                 *)

ConfigOK ==
  /\ mrmin \in Nat /\ mrmax \in Nat /\ mrstep \in Nat \ {0} /\ mqmax \in Nat
  /\ mmaxextension \in Nat /\ mhalfboundrel \in Nat

Half(b) == b.fwhm * mhalfboundrel

Nonempty == CeilDiv(mrmin, mrstep) < CeilDiv(mrmax, mrstep)

(* Limits of the array whose range is extended by room. *)
Lo(room) == Max({0, CeilDiv(mrmin - room, mrstep)})
Hi(room) == CeilDiv(mrmax + room, mrstep)

(* The room that is made for the peaks of s. *)
RoomFor(s) == Min({ExtFromTerminationRipples + ExtFromPeakTails(s), mmaxextension})

Within(b, room) == Lo(room) * mrstep =< b.d /\ b.d =< Hi(room) * mrstep

(* Points that are in the arrays of all structures. *)
Core(p) ==
  /\ p \in Nat
  /\ mrmin - Min({ExtFromTerminationRipples, mmaxextension}) =< p * mrstep
  /\ p * mrstep < mrmax + Min({ExtFromTerminationRipples, mmaxextension})

LEMMA RipplesType ==
  ASSUME GridAssumption, ConfigOK
  PROVE  ExtFromTerminationRipples \in Nat
  BY DEF GridAssumption, ConfigOK, ExtFromTerminationRipples

LEMMA HalfType ==
  ASSUME GridAssumption, ConfigOK, NEW b \in Bonds
  PROVE  Half(b) \in Nat /\ b.d \in Nat /\ b.fwhm \in Nat
<1>1. b.d \in Nat /\ b.fwhm \in Nat
  BY DEF GridAssumption
<1> QED BY <1>1 DEF ConfigOK, Half

LEMMA TailsType ==
  ASSUME GridAssumption, ConfigOK, NEW s \in Structures
  PROVE  /\ ExtFromPeakTails(s) \in Nat
         /\ \A b \in s.bonds : b \in Bonds /\ Half(b) =< ExtFromPeakTails(s)
<1>1. s.widest \in Nat /\ ExtFromPeakTails(s) \in Nat
  BY DEF GridAssumption, ConfigOK, ExtFromPeakTails
<1>2. ASSUME NEW b \in s.bonds PROVE b \in Bonds /\ Half(b) =< ExtFromPeakTails(s)
  <2>1. b \in Bonds /\ b.fwhm \in Nat /\ b.fwhm =< s.widest
    BY DEF GridAssumption
  <2>2. b.fwhm * mhalfboundrel =< s.widest * mhalfboundrel
    BY <1>1, <2>1, Times DEF ConfigOK
  <2> QED BY <2>1, <2>2 DEF Half, ExtFromPeakTails
<1> QED BY <1>1, <1>2

LEMMA RoomType ==
  ASSUME GridAssumption, ConfigOK, NEW s \in Structures
  PROVE  /\ RoomFor(s) \in Nat /\ RoomFor(s) =< mmaxextension
         /\ Min({ExtFromTerminationRipples, mmaxextension}) =< RoomFor(s)
         /\ Min({ExtFromTerminationRipples, mmaxextension}) \in Nat
  BY RipplesType, TailsType, MinOfTwo DEF RoomFor, ConfigOK

LEMMA LoHi ==
  ASSUME ConfigOK, NEW room \in Nat
  PROVE  /\ Lo(room) \in Nat /\ Hi(room) \in Int
         /\ Lo(room) = 0 \/ Lo(room) * mrstep < mrmin - room + mrstep
         /\ mrmax + room =< Hi(room) * mrstep
         /\ \A k \in Nat : Lo(room) =< k <=> mrmin - room =< k * mrstep
         /\ \A k \in Int : Hi(room) =< k <=> mrmax + room =< k * mrstep
<1>1. /\ mrmin - room \in Int /\ mrmax + room \in Int /\ mrstep \in Nat \ {0}
  BY DEF ConfigOK
<1> DEFINE c == CeilDiv(mrmin - room, mrstep)
<1>2. c \in Int /\ c * mrstep < mrmin - room + mrstep
  BY <1>1, CeilBounds
<1>3. \A k \in Int : c =< k <=> mrmin - room =< k * mrstep
  BY <1>1, CeilReaches
<1>4. Lo(room) = IF 0 =< c THEN c ELSE 0
  BY <1>2, MaxOfTwo DEF Lo
<1>5. Hi(room) \in Int /\ mrmax + room =< Hi(room) * mrstep
  BY <1>1, CeilBounds DEF Hi
<1>6. \A k \in Int : Hi(room) =< k <=> mrmax + room =< k * mrstep
  BY <1>1, CeilReaches DEF Hi
<1> HIDE DEF c
<1> QED BY <1>2, <1>3, <1>4, <1>5, <1>6

(* Core points are in any array with room for the ripples. *)
LEMMA CoreIsInside ==
  ASSUME ConfigOK, NEW room \in Nat, NEW p, Core(p),
         Min({ExtFromTerminationRipples, mmaxextension}) \in Nat,
         Min({ExtFromTerminationRipples, mmaxextension}) =< room
  PROVE  p \in Nat /\ Lo(room) =< p /\ p < Hi(room)
<1> DEFINE r == Min({ExtFromTerminationRipples, mmaxextension})
<1>1. /\ p \in Nat /\ r \in Nat /\ r =< room
      /\ mrmin - r =< p * mrstep /\ p * mrstep < mrmax + r
  BY DEF Core
<1> HIDE DEF r
<1>2. p * mrstep \in Int /\ mrmin \in Nat /\ mrmax \in Nat
  BY <1>1 DEF ConfigOK
<1>3. Lo(room) =< p
  BY <1>1, <1>2, LoHi
<1>4. ~(Hi(room) =< p)
  BY <1>1, <1>2, LoHi
<1> QED BY <1>1, <1>3, <1>4, LoHi

(* Bonds that are not marginal are in any array with room for them. *)
LEMMA ReachIsInside ==
  ASSUME GridAssumption, ConfigOK, NEW b \in Bonds, ~Marginal(b),
         NEW room \in Nat, Reach(b) =< room, Reach(b) \in Nat
  PROVE  Within(b, room)
<1>1. b.d \in Nat /\ mrmin \in Nat /\ mrmax \in Nat /\ mrstep \in Nat
  BY HalfType DEF ConfigOK
<1>2. /\ ~(mrmin > Reach(b) /\ b.d < mrmin - Reach(b) + mrstep)
      /\ ~(b.d > mrmax + Reach(b))
  BY DEF Marginal
<1>3. b.d =< Hi(room) * mrstep
  <2>1. Hi(room) * mrstep \in Int
    BY <1>1, LoHi
  <2> QED BY <1>1, <1>2, <2>1, LoHi
<1>4. Lo(room) * mrstep =< b.d
  <2>1. CASE Lo(room) = 0
    BY <1>1, <2>1
  <2>2. CASE Lo(room) # 0
    <3>1. Lo(room) * mrstep < mrmin - room + mrstep /\ Lo(room) * mrstep \in Nat
      BY <1>1, <2>2, LoHi
    <3>2. ~(mrmin - room =< 0 * mrstep)
      BY <2>2, LoHi
    <3> QED BY <1>1, <1>2, <3>1, <3>2
  <2> QED BY <2>1, <2>2
<1> QED BY <1>3, <1>4 DEF Within

(* Structures with one bond have as much room for it, or all there is. *)
LEMMA RoomForBond ==
  ASSUME GridAssumption, ConfigOK, NEW s \in Structures, NEW b \in s.bonds,
         NEW room \in Nat, RoomFor(s) =< room, room =< mmaxextension
  PROVE  IF Cut(b) THEN room = mmaxextension ELSE Reach(b) =< room
<1>1. /\ b \in Bonds /\ Half(b) \in Nat /\ Half(b) =< ExtFromPeakTails(s)
      /\ ExtFromPeakTails(s) \in Nat /\ ExtFromTerminationRipples \in Nat
      /\ mmaxextension \in Nat
  BY TailsType, HalfType, RipplesType DEF ConfigOK
<1> QED BY <1>1, MinOfTwo DEF Cut, Reach, RoomFor, Half

Ordered(limits) ==
  /\ limits.rcalclo \in Nat /\ limits.extendedrmin \in Nat
  /\ limits.extendedrmax \in Int /\ limits.rcalchi \in Int
  /\ limits.rcalclo =< limits.extendedrmin /\ limits.extendedrmin =< limits.extendedrmax
  /\ limits.extendedrmax =< limits.rcalchi
  /\ limits.extendedrmin < limits.extendedrmax \/ limits.extendedrmax = 0

(* What cacheRlimitsData makes of room, and of the ripples in it. *)
LEMMA LimitsAre ==
  ASSUME GridAssumption, ConfigOK, NEW s \in Structures, Nonempty
  PROVE  \E num \in Nat, den \in Nat \ {0} :
           /\ ExtFromTerminationRipples * num \in Nat
           /\ ExtFromTerminationRipples * num
                =< Min({ExtFromTerminationRipples, mmaxextension}) * den
           /\ Limits(s) =
                [extendedrmin |-> Max({0, CeilDiv(mrmin * den - ExtFromTerminationRipples * num,
                                                  mrstep * den)}),
                 extendedrmax |-> CeilDiv(mrmax * den + ExtFromTerminationRipples * num, mrstep * den),
                 rcalclo |-> Lo(RoomFor(s)), rcalchi |-> Hi(RoomFor(s))]
<1> DEFINE ripples == ExtFromTerminationRipples
           wanted == ripples + ExtFromPeakTails(s)
           num == IF wanted > mmaxextension THEN mmaxextension ELSE 1
           den == IF wanted > mmaxextension THEN wanted ELSE 1
           r == Min({ripples, mmaxextension})
<1>1. ~(CeilDiv(mrmin, mrstep) >= CeilDiv(mrmax, mrstep))
  <2>1. CeilDiv(mrmin, mrstep) \in Int /\ CeilDiv(mrmax, mrstep) \in Int
    BY CeilBounds DEF ConfigOK
  <2> QED BY <2>1 DEF Nonempty
<1>2. Limits(s) =
        [extendedrmin |-> Max({0, CeilDiv(mrmin * den - ripples * num, mrstep * den)}),
         extendedrmax |-> CeilDiv(mrmax * den + ripples * num, mrstep * den),
         rcalclo |-> Lo(RoomFor(s)), rcalchi |-> Hi(RoomFor(s))]
  BY <1>1 DEF Limits, Lo, Hi, RoomFor
<1>3. ripples \in Nat /\ ExtFromPeakTails(s) \in Nat /\ mmaxextension \in Nat
  BY RipplesType, TailsType DEF ConfigOK
<1>4. num \in Nat /\ den \in Nat \ {0} /\ wanted \in Nat
  BY <1>3
<1>5. r = IF ripples =< mmaxextension THEN ripples ELSE mmaxextension
  BY <1>3, MinOfTwo
<1>6. ripples * num \in Nat /\ ripples * num =< r * den
  <2>1. CASE wanted > mmaxextension
    <3>1. num = mmaxextension /\ den = wanted
      BY <2>1
    <3>2. CASE ripples =< mmaxextension
      <4>1. mmaxextension * ripples =< wanted * ripples
        BY <1>3, <1>4, <2>1, Times
      <4> QED BY <1>3, <1>4, <1>5, <3>1, <3>2, <4>1
    <3>3. CASE ~(ripples =< mmaxextension)
      <4>1. ripples * mmaxextension =< wanted * mmaxextension
        BY <1>3, <1>4, Times
      <4> QED BY <1>3, <1>4, <1>5, <3>1, <3>3, <4>1
    <3> QED BY <3>2, <3>3
  <2>2. CASE ~(wanted > mmaxextension)
    BY <1>3, <1>5, <2>2
  <2> QED BY <2>1, <2>2
<1> HIDE DEF wanted, num, den
<1> QED BY <1>2, <1>4, <1>6

(* A multiple of a factor is compared without it. *)
LEMMA WithoutFactor ==
  ASSUME NEW k \in Int, NEW l \in Int, NEW n \in Nat \ {0}
  PROVE  k * n =< l * n <=> k =< l
<1>1. ASSUME ~(k =< l) PROVE ~(k * n =< l * n)
  <2>1. (l + 1) * n =< k * n /\ (l + 1) * n = l * n + n
    BY <1>1, Times
  <2>2. l * n \in Int /\ k * n \in Int
    OBVIOUS
  <2> QED BY <2>1, <2>2
<1> QED BY <1>1, Times

(* Where the limits of the extended grid lie. *)
LEMMA ExtendedLimits ==
  ASSUME GridAssumption, ConfigOK, NEW s \in Structures, Nonempty
  PROVE  \E low \in Int :
           /\ Limits(s).extendedrmin = (IF 0 =< low THEN low ELSE 0)
           /\ Limits(s).extendedrmax \in Int
           /\ \A k \in Int :
                /\ low =< k =>
                     mrmin - Min({ExtFromTerminationRipples, mmaxextension}) =< k * mrstep
                /\ mrmin =< k * mrstep => low =< k
                /\ mrmax + Min({ExtFromTerminationRipples, mmaxextension}) =< k * mrstep =>
                     Limits(s).extendedrmax =< k
                /\ Limits(s).extendedrmax =< k => mrmax =< k * mrstep
<1> DEFINE r == Min({ExtFromTerminationRipples, mmaxextension})
<1>1. PICK num \in Nat, den \in Nat \ {0} :
        /\ ExtFromTerminationRipples * num \in Nat
        /\ ExtFromTerminationRipples * num =< r * den
        /\ Limits(s) =
             [extendedrmin |-> Max({0, CeilDiv(mrmin * den - ExtFromTerminationRipples * num,
                                               mrstep * den)}),
              extendedrmax |-> CeilDiv(mrmax * den + ExtFromTerminationRipples * num, mrstep * den),
              rcalclo |-> Lo(RoomFor(s)), rcalchi |-> Hi(RoomFor(s))]
  BY LimitsAre
<1> DEFINE rippled == ExtFromTerminationRipples * num
           low == CeilDiv(mrmin * den - rippled, mrstep * den)
           high == CeilDiv(mrmax * den + rippled, mrstep * den)
<1>2. /\ mrmin \in Nat /\ mrmax \in Nat /\ mrstep \in Nat \ {0} /\ r \in Nat
      /\ rippled \in Nat /\ rippled =< r * den
  BY <1>1, RoomType DEF ConfigOK
<1> HIDE DEF r, rippled
<1>3. /\ mrmin * den - rippled \in Int /\ mrmax * den + rippled \in Int
      /\ mrstep * den \in Nat \ {0}
      /\ mrmin * den \in Nat /\ mrmax * den \in Nat /\ r * den \in Nat
  BY <1>2
<1>4. low \in Int /\ high \in Int
  BY <1>3, CeilBounds
<1>5. Limits(s).extendedrmin = (IF 0 =< low THEN low ELSE 0) /\ Limits(s).extendedrmax = high
  BY <1>1, <1>4, MaxOfTwo DEF rippled
<1>6. ASSUME NEW k \in Int
      PROVE  /\ low =< k => mrmin - r =< k * mrstep
             /\ mrmin =< k * mrstep => low =< k
             /\ mrmax + r =< k * mrstep => high =< k
             /\ high =< k => mrmax =< k * mrstep
  <2> DEFINE x == k * mrstep
  <2>1. /\ low =< k <=> mrmin * den - rippled =< k * (mrstep * den)
        /\ high =< k <=> mrmax * den + rippled =< k * (mrstep * den)
    BY <1>3, CeilReaches
  <2>2. x \in Int /\ k * (mrstep * den) = x * den /\ x * den \in Int
    BY <1>2
  <2> HIDE DEF x, low, high
  <2>3. (mrmin - r) * den = mrmin * den - r * den /\ (mrmax + r) * den = mrmax * den + r * den
    BY <1>2
  <2>4. low =< k => (mrmin - r) * den =< x * den
    BY <1>2, <1>3, <2>1, <2>2, <2>3
  <2>5. mrmin * den =< x * den => low =< k
    BY <1>2, <1>3, <2>1, <2>2
  <2>6. (mrmax + r) * den =< x * den => high =< k
    BY <1>2, <1>3, <2>1, <2>2, <2>3
  <2>7. high =< k => mrmax * den =< x * den
    BY <1>2, <1>3, <2>1, <2>2
  <2>8. /\ (mrmin - r) * den =< x * den <=> mrmin - r =< x
        /\ mrmin * den =< x * den <=> mrmin =< x
        /\ (mrmax + r) * den =< x * den <=> mrmax + r =< x
        /\ mrmax * den =< x * den <=> mrmax =< x
    BY <1>2, <2>2, WithoutFactor
  <2> QED BY <2>4, <2>5, <2>6, <2>7, <2>8 DEF x
<1> HIDE DEF low, high
<1> QED BY <1>4, <1>5, <1>6 DEF r

LEMMA LimitsRecord ==
  ASSUME GridAssumption, ConfigOK, NEW s \in Structures, Nonempty
  PROVE  \E lo \in Nat, hi \in Int :
           Limits(s) = [extendedrmin |-> lo, extendedrmax |-> hi,
                        rcalclo |-> Lo(RoomFor(s)), rcalchi |-> Hi(RoomFor(s))]
<1>1. PICK num \in Nat, den \in Nat \ {0} :
        Limits(s) =
          [extendedrmin |-> Max({0, CeilDiv(mrmin * den - ExtFromTerminationRipples * num,
                                            mrstep * den)}),
           extendedrmax |-> CeilDiv(mrmax * den + ExtFromTerminationRipples * num, mrstep * den),
           rcalclo |-> Lo(RoomFor(s)), rcalchi |-> Hi(RoomFor(s))]
  BY LimitsAre
<1>2. PICK low \in Int : /\ Limits(s).extendedrmin = (IF 0 =< low THEN low ELSE 0)
                         /\ Limits(s).extendedrmax \in Int
  BY ExtendedLimits
<1>3. Limits(s).extendedrmin \in Nat
  BY <1>2
<1>4. Limits(s) = [extendedrmin |-> Limits(s).extendedrmin, extendedrmax |-> Limits(s).extendedrmax,
                   rcalclo |-> Lo(RoomFor(s)), rcalchi |-> Hi(RoomFor(s))]
  BY <1>1
<1> QED BY <1>2, <1>3, <1>4

LEMMA LimitsOf ==
  ASSUME GridAssumption, ConfigOK, NEW s \in Structures, Nonempty
  PROVE  /\ Limits(s).rcalclo = Lo(RoomFor(s)) /\ Limits(s).rcalchi = Hi(RoomFor(s))
         /\ Limits(s).extendedrmin \in Nat /\ Limits(s).extendedrmax \in Int
         /\ \A p \in Limits(s).extendedrmin..(Limits(s).extendedrmax - 1) : Core(p)
<1> DEFINE r == Min({ExtFromTerminationRipples, mmaxextension})
           high == Limits(s).extendedrmax
<1>1. Limits(s).rcalclo = Lo(RoomFor(s)) /\ Limits(s).rcalchi = Hi(RoomFor(s))
  <2>1. \E lo \in Nat, hi \in Int :
          Limits(s) = [extendedrmin |-> lo, extendedrmax |-> hi,
                       rcalclo |-> Lo(RoomFor(s)), rcalchi |-> Hi(RoomFor(s))]
    BY LimitsRecord
  <2> QED BY <2>1
<1>2. PICK low \in Int :
        /\ Limits(s).extendedrmin = (IF 0 =< low THEN low ELSE 0) /\ high \in Int
        /\ \A k \in Int : /\ low =< k => mrmin - r =< k * mrstep
                          /\ mrmax + r =< k * mrstep => high =< k
  BY ExtendedLimits
<1> HIDE DEF r, high
<1>3. ASSUME NEW p \in Limits(s).extendedrmin..(high - 1) PROVE Core(p)
  <2>1. p \in Nat /\ low =< p /\ ~(high =< p)
    BY <1>2
  <2>2. mrmin - r =< p * mrstep /\ ~(mrmax + r =< p * mrstep)
    BY <1>2, <2>1
  <2>3. mrmax + r \in Int /\ p * mrstep \in Int
    BY <2>1, RoomType DEF r, ConfigOK
  <2> QED BY <2>1, <2>2, <2>3 DEF Core, r
<1> QED BY <1>1, <1>2, <1>3 DEF high

(* The order of limits, and of the r-range asked for. *)
LEMMA LimitsOrdered ==
  ASSUME GridAssumption, ConfigOK, NEW s \in Structures, Nonempty
  PROVE  /\ Ordered(Limits(s))
         /\ CeilDiv(mrmin, mrstep) \in Nat /\ CeilDiv(mrmax, mrstep) \in Int
         /\ Limits(s).extendedrmin =< CeilDiv(mrmin, mrstep)
         /\ CeilDiv(mrmax, mrstep) =< Limits(s).extendedrmax
<1> DEFINE r == Min({ExtFromTerminationRipples, mmaxextension})
           from == CeilDiv(mrmin, mrstep)
           to == CeilDiv(mrmax, mrstep)
           high == Limits(s).extendedrmax
           room == RoomFor(s)
<1>1. /\ mrmin \in Nat /\ mrmax \in Nat /\ mrstep \in Nat \ {0}
      /\ r \in Nat /\ room \in Nat /\ r =< room
  BY RoomType DEF ConfigOK
<1>2. PICK low \in Int :
        /\ Limits(s).extendedrmin = (IF 0 =< low THEN low ELSE 0) /\ high \in Int
        /\ \A k \in Int :
             /\ low =< k => mrmin - r =< k * mrstep
             /\ mrmin =< k * mrstep => low =< k
             /\ mrmax + r =< k * mrstep => high =< k
             /\ high =< k => mrmax =< k * mrstep
  BY ExtendedLimits
<1> DEFINE first == Limits(s).extendedrmin
<1>3. first \in Nat /\ low =< first /\ (first = 0 \/ first = low)
  BY <1>2
<1>4. from \in Int /\ to \in Int /\ from < to /\ mrmin =< from * mrstep
  BY <1>1, CeilBounds DEF Nonempty
<1>5. from \in Nat
  <2>1. ASSUME from =< -1 PROVE FALSE
    <3>1. from * mrstep =< (-1) * mrstep /\ (-1) * mrstep < 0
      BY <1>1, <1>4, <2>1, Times
    <3>2. from * mrstep \in Int
      BY <1>1, <1>4
    <3> HIDE DEF from
    <3> QED BY <1>1, <1>4, <3>1, <3>2
  <2> QED BY <1>4, <2>1
<1>6. first =< from
  <2>1. low =< from
    BY <1>2, <1>4
  <2> QED BY <1>3, <1>5, <2>1
<1>7. to =< high
  <2>1. mrmax =< high * mrstep
    BY <1>2
  <2> QED BY <1>1, <1>2, <2>1, CeilReaches
<1>8. Limits(s).rcalclo = Lo(room) /\ Limits(s).rcalchi = Hi(room)
  BY LimitsOf
<1> HIDE DEF r, from, to, high, first, room
<1>9. Lo(room) \in Nat /\ Lo(room) =< first
  <2>1. mrmin - r =< first * mrstep
    BY <1>2, <1>3
  <2>2. mrmin - room =< first * mrstep
    BY <1>1, <1>3, <2>1
  <2> QED BY <1>1, <1>3, <2>2, LoHi
<1>10. Hi(room) \in Int /\ high =< Hi(room)
  <2>1. Hi(room) \in Int /\ mrmax + room =< Hi(room) * mrstep
    BY <1>1, LoHi
  <2>2. mrmax + r =< Hi(room) * mrstep
    BY <1>1, <2>1
  <2> QED BY <1>2, <2>1, <2>2
<1>11. first < high
  BY <1>2, <1>3, <1>4, <1>5, <1>6, <1>7
<1> QED BY <1>2, <1>3, <1>4, <1>5, <1>6, <1>7, <1>8, <1>9, <1>10, <1>11
       DEF Ordered, from, to, high, first

(* An empty r-range has no points. *)
LEMMA LimitsOfNothing ==
  ASSUME ConfigOK, NEW s, ~Nonempty
  PROVE  /\ Limits(s).extendedrmin..(Limits(s).extendedrmax - 1) = {}
         /\ Ordered(Limits(s))
<1>1. CeilDiv(mrmin, mrstep) >= CeilDiv(mrmax, mrstep)
  <2>1. CeilDiv(mrmin, mrstep) \in Int /\ CeilDiv(mrmax, mrstep) \in Int
    BY CeilBounds DEF ConfigOK
  <2> QED BY <2>1 DEF Nonempty
<1>2. Limits(s) = [extendedrmin |-> 0, extendedrmax |-> 0, rcalclo |-> 0, rcalchi |-> 0]
  BY <1>1 DEF Limits
<1> QED BY <1>2 DEF Ordered

-----------------------------------------------------------------------------
(* Points.                                                                 *)

(***************************************************************************)
(* What a point that is in all arrays holds of bond b.  A bond whose tails *)
(* are cut has the same room in all structures that have it.  Others are   *)
(* in every array unless they are marginal.                                *)
(***************************************************************************)
Holds(x, b, p, s) ==
  /\ x \in Int
  /\ x # 0 => Covers(b, p)
  /\ IF Cut(b)
     THEN x = IF b \in s.bonds /\ Covers(b, p) /\ Within(b, mmaxextension) THEN 1 ELSE 0
     ELSE ~Marginal(b) => x = IF b \in s.bonds /\ Covers(b, p) THEN 1 ELSE 0

LEMMA ReachType ==
  ASSUME GridAssumption, ConfigOK, NEW b \in Bonds
  PROVE  /\ Reach(b) \in Nat /\ Reach(b) =< mmaxextension /\ Cut(b) \in BOOLEAN
         /\ IF Cut(b) THEN Reach(b) = mmaxextension
            ELSE Reach(b) = ExtFromTerminationRipples + Half(b)
<1>1. Half(b) \in Nat /\ ExtFromTerminationRipples \in Nat /\ mmaxextension \in Nat
  BY HalfType, RipplesType DEF ConfigOK
<1> QED BY <1>1, MinOfTwo DEF Cut, Reach, Half

(* Of a marginal bond a core point is covered by the last step at most. *)
LEMMA MarginalTail ==
  ASSUME GridAssumption, ConfigOK, NEW b \in Bonds, NEW p, Core(p), Marginal(b), ~Cut(b)
  PROVE  Abs(p * mrstep - b.d) > Half(b) - mrstep
<1> DEFINE ripples == ExtFromTerminationRipples
           r == Min({ripples, mmaxextension})
           x == p * mrstep
<1>1. /\ Half(b) \in Nat /\ b.d \in Nat /\ ripples \in Nat /\ mmaxextension \in Nat
      /\ mrmin \in Nat /\ mrmax \in Nat /\ mrstep \in Nat \ {0}
  BY HalfType, RipplesType DEF ConfigOK
<1>2. r \in Nat /\ r =< ripples
  BY <1>1, MinOfTwo
<1>3. Reach(b) = ripples + Half(b)
  BY ReachType
<1>4. x \in Nat /\ mrmin - r =< x /\ x < mrmax + r
  BY <1>1 DEF Core
<1>5. Abs(x - b.d) = IF x - b.d < 0 THEN -(x - b.d) ELSE x - b.d
  BY DEF Abs
<1> HIDE DEF x, r, ripples
<1>6. ASSUME b.d < mrmin - Reach(b) + mrstep
      PROVE  Abs(x - b.d) > Half(b) - mrstep
  BY <1>1, <1>2, <1>3, <1>4, <1>5, <1>6
<1>7. ASSUME b.d > mrmax + Reach(b)
      PROVE  Abs(x - b.d) > Half(b) - mrstep
  BY <1>1, <1>2, <1>3, <1>4, <1>5, <1>7
<1>8. Abs(x - b.d) > Half(b) - mrstep
  BY <1>6, <1>7 DEF Marginal
<1> QED BY <1>8 DEF x

LEMMA PointsHold ==
  ASSUME GridAssumption, ConfigOK, NEW point, NEW p, Core(p), NEW s,
         \A b \in Bonds : Holds(point[b], b, p, s)
  PROVE  PointIsSum(point, p, s)
<1> SUFFICES ASSUME NEW b \in Bonds,
                    point[b] # (IF b \in s.bonds /\ Covers(b, p) THEN 1 ELSE 0)
             PROVE  /\ Marginal(b)
                    /\ IF Cut(b) THEN point[b] = 0
                       ELSE Abs(p * mrstep - b.d) > b.fwhm * mhalfboundrel - mrstep
  BY DEF PointIsSum, Holds
<1>1. Holds(point[b], b, p, s)
  OBVIOUS
<1>2. CASE Cut(b)
  <2>1. point[b] = 0 /\ ~Within(b, mmaxextension)
    BY <1>1, <1>2 DEF Holds
  <2>2. Marginal(b)
    BY <2>1, ReachIsInside, ReachType DEF ConfigOK
  <2> QED BY <1>2, <2>1, <2>2
<1>3. CASE ~Cut(b)
  <2>1. Marginal(b)
    BY <1>1, <1>3 DEF Holds
  <2> QED BY <1>3, <2>1, MarginalTail DEF Half
<1> QED BY <1>2, <1>3

(* A point after bonds have been removed and added within the room for each. *)
LEMMA PointUpdated ==
  ASSUME GridAssumption, ConfigOK, NEW b \in Bonds, NEW p,
         NEW last \in Structures, NEW s \in Structures,
         NEW room \in Nat, RoomFor(last) =< room, room =< mmaxextension,
         NEW after \in Nat, RoomFor(s) =< after, after =< mmaxextension,
         NEW x, Holds(x, b, p, last),
         NEW y, y = x + (IF b \in last.bonds \ s.bonds /\ Within(b, room) /\ Covers(b, p)
                         THEN -1 ELSE 0)
                      + (IF b \in s.bonds \ last.bonds /\ Within(b, after) /\ Covers(b, p)
                         THEN 1 ELSE 0)
  PROVE  Holds(y, b, p, s)
<1>1. x \in Int /\ y \in Int
  BY DEF Holds
<1>2. y # 0 => Covers(b, p)
  BY <1>1 DEF Holds
<1>3. ASSUME b \in last.bonds PROVE IF Cut(b) THEN room = mmaxextension ELSE Reach(b) =< room
  BY <1>3, RoomForBond
<1>4. ASSUME b \in s.bonds PROVE IF Cut(b) THEN after = mmaxextension ELSE Reach(b) =< after
  BY <1>4, RoomForBond
<1>5. CASE Cut(b)
  <2>1. x = IF b \in last.bonds /\ Covers(b, p) /\ Within(b, mmaxextension) THEN 1 ELSE 0
    BY <1>5 DEF Holds
  <2>2. y = IF b \in s.bonds /\ Covers(b, p) /\ Within(b, mmaxextension) THEN 1 ELSE 0
    BY <1>3, <1>4, <1>5, <2>1
  <2> QED BY <1>1, <1>2, <1>5, <2>2 DEF Holds
<1>6. CASE ~Cut(b)
  <2>1. ASSUME ~Marginal(b) PROVE y = IF b \in s.bonds /\ Covers(b, p) THEN 1 ELSE 0
    <3>1. x = IF b \in last.bonds /\ Covers(b, p) THEN 1 ELSE 0
      BY <1>6, <2>1 DEF Holds
    <3>2. b \in last.bonds => Within(b, room)
      BY <1>3, <1>6, <2>1, ReachIsInside, ReachType
    <3>3. b \in s.bonds => Within(b, after)
      BY <1>4, <1>6, <2>1, ReachIsInside, ReachType
    <3> QED BY <3>1, <3>2, <3>3
  <2> QED BY <1>1, <1>2, <1>6, <2>1 DEF Holds
<1> QED BY <1>5, <1>6

-----------------------------------------------------------------------------
(* Arrays.                                                                 *)

(* An array with some room holds the sum of s at the core points. *)
Carries(value, limits, s, room) ==
  /\ RoomFor(s) =< room /\ room =< mmaxextension
  /\ limits.rcalclo = Lo(room) /\ limits.rcalchi = Hi(room)
  /\ limits.extendedrmin \in Nat /\ limits.extendedrmax \in Int
  /\ value \in [1..CountCalcPoints(limits) -> [Bonds -> Int]]
  /\ \A p : Core(p) =>
       \A b \in Bonds : Holds(value[p - Lo(room) + 1][b], b, p, s)

LEMMA CoreEntry ==
  ASSUME GridAssumption, ConfigOK, NEW s \in Structures, NEW limits, NEW room \in Nat,
         RoomFor(s) =< room, limits.rcalclo = Lo(room), limits.rcalchi = Hi(room),
         NEW p, Core(p)
  PROVE  /\ p \in Nat /\ Lo(room) \in Nat
         /\ p - Lo(room) + 1 \in 1..CountCalcPoints(limits)
         /\ StepsAt(limits, p - Lo(room) + 1) = p
<1>1. p \in Nat /\ Lo(room) =< p /\ p < Hi(room)
  BY CoreIsInside, RoomType
<1>2. Lo(room) \in Nat /\ Hi(room) \in Int
  BY LoHi
<1> QED BY <1>1, <1>2 DEF CountCalcPoints, StepsAt

LEMMA Contributions ==
  ASSUME NEW value, NEW limits, NEW bonds, NEW sign \in {-1, 1}, NEW k \in DOMAIN value,
         NEW b \in Bonds
  PROVE  /\ DOMAIN WithContributions(value, limits, bonds, sign) = DOMAIN value
         /\ WithContributions(value, limits, bonds, sign)[k][b] =
              value[k][b] + (IF b \in bonds /\ InRange(limits, b) /\ Covers(b, StepsAt(limits, k))
                             THEN sign ELSE 0)
  BY DEF WithContributions

LEMMA ContributionsType ==
  ASSUME NEW set, NEW value \in [set -> [Bonds -> Int]], NEW limits, NEW bonds, NEW sign \in {-1, 1}
  PROVE  WithContributions(value, limits, bonds, sign) \in [set -> [Bonds -> Int]]
<1>1. ASSUME NEW k \in set, NEW b \in Bonds
      PROVE  value[k][b] + (IF b \in bonds /\ InRange(limits, b) /\ Covers(b, StepsAt(limits, k))
                            THEN sign ELSE 0) \in Int
  OBVIOUS
<1> QED BY <1>1 DEF WithContributions

LEMMA ZerosType ==
  ASSUME NEW limits
  PROVE  /\ Zeros(limits) \in [1..CountCalcPoints(limits) -> [Bonds -> Int]]
         /\ \A k \in 1..CountCalcPoints(limits), b \in Bonds : Zeros(limits)[k][b] = 0
  BY DEF Zeros, Nothing

LEMMA RestoredType ==
  ASSUME NEW set, NEW stash \in [set -> [Bonds -> Int]], NEW before, NEW after
  PROVE  Restored(stash, before, after) \in [1..CountCalcPoints(after) -> [Bonds -> Int]]
<1>1. \A j \in DOMAIN stash : stash[j] \in [Bonds -> Int]
  OBVIOUS
<1>2. Nothing \in [Bonds -> Int]
  BY DEF Nothing
<1>3. ASSUME NEW j PROVE (IF j \in DOMAIN stash THEN stash[j] ELSE Nothing) \in [Bonds -> Int]
  BY <1>1, <1>2
<1> QED BY <1>3 DEF Restored

(* Zeros are the sum of the empty structure. *)
LEMMA ZerosCarry ==
  ASSUME GridAssumption, ConfigOK, Nonempty, NEW s \in Structures
  PROVE  \A p : Core(p) =>
           \A b \in Bonds :
             /\ Zeros(Limits(s))[p - Lo(RoomFor(s)) + 1][b] = 0
             /\ Holds(0, b, p, NoStructure)
<1> SUFFICES ASSUME NEW p, Core(p), NEW b \in Bonds
             PROVE  /\ Zeros(Limits(s))[p - Lo(RoomFor(s)) + 1][b] = 0
                    /\ Holds(0, b, p, NoStructure)
  OBVIOUS
<1>1. p - Lo(RoomFor(s)) + 1 \in 1..CountCalcPoints(Limits(s))
  BY CoreEntry, LimitsOf, RoomType
<1>2. b \notin NoStructure.bonds
  BY DEF GridAssumption
<1> QED BY <1>1, <1>2, ZerosType DEF Holds

(* A complete sum. *)
LEMMA CompleteCarries ==
  ASSUME GridAssumption, ConfigOK, Nonempty, NEW s \in Structures
  PROVE  Carries(WithContributions(Zeros(Limits(s)), Limits(s), s.bonds, 1), Limits(s), s, RoomFor(s))
<1> DEFINE limits == Limits(s)
           room == RoomFor(s)
           zeros == Zeros(limits)
           value == WithContributions(zeros, limits, s.bonds, 1)
<1>1. /\ limits.rcalclo = Lo(room) /\ limits.rcalchi = Hi(room)
      /\ limits.extendedrmin \in Nat /\ limits.extendedrmax \in Int
  BY LimitsOf
<1>2. room \in Nat /\ room =< mmaxextension
  BY RoomType
<1>3. zeros \in [1..CountCalcPoints(limits) -> [Bonds -> Int]]
  BY ZerosType
<1>4. value \in [1..CountCalcPoints(limits) -> [Bonds -> Int]]
  BY <1>3, ContributionsType
<1>5. NoStructure \in Structures /\ NoStructure.bonds = {}
  BY DEF GridAssumption
<1>6. RoomFor(NoStructure) =< room
  <2>1. ExtFromPeakTails(NoStructure) = 0
    BY DEF GridAssumption, ExtFromPeakTails, ConfigOK
  <2>2. ExtFromPeakTails(s) \in Nat /\ ExtFromTerminationRipples \in Nat
    BY TailsType, RipplesType
  <2> QED BY <2>1, <2>2, MinOfTwo DEF RoomFor, ConfigOK
<1>7. ASSUME NEW p, Core(p), NEW b \in Bonds
      PROVE  Holds(value[p - Lo(room) + 1][b], b, p, s)
  <2> DEFINE k == p - Lo(room) + 1
  <2>1. k \in 1..CountCalcPoints(limits) /\ StepsAt(limits, k) = p
    BY <1>1, <1>2, <1>7, CoreEntry
  <2>2. zeros[k][b] = 0 /\ Holds(0, b, p, NoStructure)
    BY <1>7, ZerosCarry
  <2>3. DOMAIN zeros = 1..CountCalcPoints(limits)
    BY <1>3
  <2>4. value[k][b] = zeros[k][b] + (IF b \in s.bonds /\ InRange(limits, b) /\ Covers(b, StepsAt(limits, k))
                                     THEN 1 ELSE 0)
    <3>1. k \in DOMAIN zeros
      BY <2>1, <2>3
    <3> HIDE DEF k, zeros, limits
    <3> QED BY <3>1, Contributions
  <2>5. InRange(limits, b) <=> Within(b, room)
    BY <1>1 DEF InRange, Within
  <2> HIDE DEF value, k, zeros, limits, room
  <2>6. value[k][b] = 0 + (IF b \in NoStructure.bonds \ s.bonds /\ Within(b, room) /\ Covers(b, p)
                           THEN -1 ELSE 0)
                        + (IF b \in s.bonds \ NoStructure.bonds /\ Within(b, room) /\ Covers(b, p)
                           THEN 1 ELSE 0)
    BY <1>5, <2>1, <2>2, <2>4, <2>5
  <2>7. RoomFor(s) =< room
    BY <1>2 DEF room
  <2>8. Holds(value[k][b], b, p, s)
    BY <1>2, <1>5, <1>6, <2>2, <2>6, <2>7, PointUpdated
  <2> QED BY <2>8 DEF k
<1>8. RoomFor(s) =< room
  BY <1>2
<1> QED BY <1>1, <1>2, <1>4, <1>7, <1>8 DEF Carries

(* An update, which removes, carries over and adds. *)
LEMMA UpdateCarries ==
  ASSUME GridAssumption, ConfigOK, Nonempty, NEW last \in Structures, NEW s \in Structures,
         NEW value, NEW before, NEW room \in Nat, Carries(value, before, last, room)
  PROVE  LET popped == WithContributions(value, before, last.bonds \ s.bonds, -1)
             kept == Restored(popped, before, Limits(s))
             new == WithContributions(kept, Limits(s), s.bonds \ last.bonds, 1)
         IN  Carries(new, Limits(s), s, RoomFor(s))
<1> DEFINE after == RoomFor(s)
           limits == Limits(s)
           popped == WithContributions(value, before, last.bonds \ s.bonds, -1)
           kept == Restored(popped, before, limits)
           new == WithContributions(kept, limits, s.bonds \ last.bonds, 1)
<1>1. /\ limits.rcalclo = Lo(after) /\ limits.rcalchi = Hi(after)
      /\ limits.extendedrmin \in Nat /\ limits.extendedrmax \in Int
  BY LimitsOf
<1>2. after \in Nat /\ after =< mmaxextension /\ RoomFor(s) =< after
  BY RoomType
<1>3. /\ before.rcalclo = Lo(room) /\ before.rcalchi = Hi(room)
      /\ RoomFor(last) =< room /\ room =< mmaxextension
      /\ value \in [1..CountCalcPoints(before) -> [Bonds -> Int]]
  BY DEF Carries
<1>4. popped \in [1..CountCalcPoints(before) -> [Bonds -> Int]]
  BY <1>3, ContributionsType
<1>5. kept \in [1..CountCalcPoints(limits) -> [Bonds -> Int]]
  BY <1>4, RestoredType
<1>6. new \in [1..CountCalcPoints(limits) -> [Bonds -> Int]]
  BY <1>5, ContributionsType
<1>7. ASSUME NEW p, Core(p), NEW b \in Bonds
      PROVE  Holds(new[p - Lo(after) + 1][b], b, p, s)
  <2> DEFINE i == p - Lo(room) + 1
             k == p - Lo(after) + 1
  <2>1. /\ p \in Nat /\ Lo(room) \in Nat
        /\ i \in 1..CountCalcPoints(before) /\ StepsAt(before, i) = p
    BY <1>3, <1>7, CoreEntry
  <2>2. /\ Lo(after) \in Nat
        /\ k \in 1..CountCalcPoints(limits) /\ StepsAt(limits, k) = p
    BY <1>1, <1>2, <1>7, CoreEntry
  <2>3. Holds(value[i][b], b, p, last)
    BY <1>7 DEF Carries
  <2>4. popped[i][b] = value[i][b] + (IF b \in last.bonds \ s.bonds /\ InRange(before, b)
                                         /\ Covers(b, StepsAt(before, i)) THEN -1 ELSE 0)
    <3>1. i \in DOMAIN value
      BY <1>3, <2>1
    <3> HIDE DEF i
    <3> QED BY <3>1, Contributions
  <2>5. kept[k] = popped[i]
    <3>1. k + (limits.rcalclo - before.rcalclo) = i
      BY <1>1, <1>3, <2>1, <2>2
    <3>2. i \in DOMAIN popped
      BY <1>4, <2>1
    <3> HIDE DEF i, k, popped, limits
    <3> QED BY <2>2, <3>1, <3>2 DEF Restored
  <2>6. new[k][b] = kept[k][b] + (IF b \in s.bonds \ last.bonds /\ InRange(limits, b)
                                     /\ Covers(b, StepsAt(limits, k)) THEN 1 ELSE 0)
    <3>1. k \in DOMAIN kept
      BY <1>5, <2>2
    <3> QED BY <3>1, Contributions
  <2>7. /\ InRange(before, b) <=> Within(b, room)
        /\ InRange(limits, b) <=> Within(b, after)
    BY <1>1, <1>3 DEF InRange, Within
  <2> HIDE DEF i, k, popped, kept, new, limits, after
  <2>8. new[k][b] = value[i][b] + (IF b \in last.bonds \ s.bonds /\ Within(b, room) /\ Covers(b, p)
                                   THEN -1 ELSE 0)
                                + (IF b \in s.bonds \ last.bonds /\ Within(b, after) /\ Covers(b, p)
                                   THEN 1 ELSE 0)
    BY <2>1, <2>2, <2>4, <2>5, <2>6, <2>7
  <2>9. Holds(new[k][b], b, p, s)
    BY <1>2, <1>3, <2>3, <2>8, PointUpdated
  <2> QED BY <2>9 DEF k
<1> HIDE DEF popped, kept, limits, after
<1>8. Carries(new, limits, s, after)
  BY <1>1, <1>2, <1>6, <1>7 DEF Carries
<1> QED BY <1>8 DEF popped, kept, limits, after, new

-----------------------------------------------------------------------------
(* Behaviours.                                                             *)

GridInv ==
  /\ ConfigOK
  /\ mstructure \in Structures /\ mlast_structure \in Structures \cup {NoLast}
  /\ ~clicked /\ mlast_structure # NoLast =>
       /\ mstructure = mlast_structure
       /\ Nonempty => \E room \in Nat : Carries(mvalue, mrlimits_cache, mlast_structure, room)

RangeUnchanged == UNCHANGED <<mrmin, mrmax, mrstep, mmaxextension, mhalfboundrel>>

LEMMA HoldsWithFewerRipples ==
  ASSUME GridAssumption, ConfigOK, ConfigOK', RangeUnchanged,
         ExtFromTerminationRipples' \in Nat,
         ExtFromTerminationRipples' =< ExtFromTerminationRipples,
         NEW b \in Bonds, NEW p, NEW s, NEW x, Holds(x, b, p, s)
  PROVE  /\ x \in Int
         /\ x # 0 => Covers(b, p)'
         /\ IF Cut(b)'
            THEN x = IF b \in s.bonds /\ Covers(b, p)' /\ Within(b, mmaxextension)' THEN 1 ELSE 0
            ELSE ~Marginal(b)' => x = IF b \in s.bonds /\ Covers(b, p)' THEN 1 ELSE 0
<1> DEFINE e == ExtFromTerminationRipples
           f == ExtFromTerminationRipples'
           reach == Min({f + Half(b), mmaxextension})
<1>1. /\ mrmin' = mrmin /\ mrmax' = mrmax /\ mrstep' = mrstep
      /\ mmaxextension' = mmaxextension /\ mhalfboundrel' = mhalfboundrel
  BY DEF RangeUnchanged
<1>2. Covers(b, p)' <=> Covers(b, p)
  BY <1>1 DEF Covers
<1>3. Within(b, mmaxextension)' <=> Within(b, mmaxextension)
  BY <1>1 DEF Within, Lo, Hi
<1>4. Cut(b)' <=> f + Half(b) > mmaxextension
  BY <1>1 DEF Cut, Half
<1>5. Marginal(b)' <=> \/ mrmin > reach /\ b.d < mrmin - reach + mrstep
                       \/ b.d > mrmax + reach
  BY <1>1 DEF Marginal, Reach, Half
<1>6. /\ e \in Nat /\ f \in Nat /\ f =< e /\ Half(b) \in Nat /\ b.d \in Nat
      /\ mmaxextension \in Nat /\ mrmin \in Nat /\ mrmax \in Nat /\ mrstep \in Nat
  BY RipplesType, HalfType DEF ConfigOK
<1>7. Cut(b) <=> e + Half(b) > mmaxextension
  BY DEF Cut, Half
<1>8. /\ Reach(b) \in Nat /\ Reach(b) =< mmaxextension
      /\ Reach(b) = Min({e + Half(b), mmaxextension})
  BY ReachType DEF Reach, Half
<1>9. reach \in Nat /\ reach =< Reach(b)
  BY <1>6, <1>8, MinOfTwo
<1> HIDE DEF reach, e, f
<1>10. ASSUME ~Marginal(b)' PROVE ~Marginal(b)
  BY <1>5, <1>6, <1>8, <1>9, <1>10 DEF Marginal
<1>11. ASSUME ~Marginal(b)' PROVE Within(b, mmaxextension)
  BY <1>6, <1>8, <1>10, <1>11, ReachIsInside
<1>12. CASE Cut(b)'
  <2>1. Cut(b)
    BY <1>4, <1>6, <1>7, <1>12
  <2> QED BY <1>2, <1>3, <1>12, <2>1 DEF Holds
<1>13. CASE ~Cut(b)'
  BY <1>2, <1>10, <1>11, <1>13 DEF Holds
<1> QED BY <1>12, <1>13 DEF Holds

(* A step that leaves the array as it should be and makes ripples no wider. *)
LEMMA CarriedOver ==
  ASSUME GridAssumption, ConfigOK, ConfigOK', RangeUnchanged,
         ExtFromTerminationRipples' =< ExtFromTerminationRipples,
         NEW value, NEW limits, NEW s \in Structures, NEW room \in Nat,
         Carries(value, limits, s, room),
         mvalue' = value, mrlimits_cache' = limits, mlast_structure' = s
  PROVE  Carries(mvalue, mrlimits_cache, mlast_structure, room)'
<1>1. /\ mrmin' = mrmin /\ mrmax' = mrmax /\ mrstep' = mrstep
      /\ mmaxextension' = mmaxextension /\ mhalfboundrel' = mhalfboundrel
  BY DEF RangeUnchanged
<1>2. ExtFromTerminationRipples \in Nat /\ ExtFromTerminationRipples' \in Nat
  BY RipplesType DEF ConfigOK, ExtFromTerminationRipples, GridAssumption
<1>3. Lo(room)' = Lo(room) /\ Hi(room)' = Hi(room)
  BY <1>1 DEF Lo, Hi
<1>4. RoomFor(s)' =< room
  <2>1. RoomFor(s)' = Min({ExtFromTerminationRipples' + ExtFromPeakTails(s), mmaxextension})
    BY <1>1 DEF RoomFor, ExtFromPeakTails
  <2>2. ExtFromPeakTails(s) \in Nat /\ mmaxextension \in Nat
    BY TailsType DEF ConfigOK
  <2>3. RoomFor(s) =< room
    BY DEF Carries
  <2> QED BY <1>2, <2>1, <2>2, <2>3, MinOfTwo DEF RoomFor
<1>5. ASSUME NEW p, Core(p)' PROVE Core(p)
  <2>1. /\ p \in Nat
        /\ mrmin - Min({ExtFromTerminationRipples', mmaxextension}) =< p * mrstep
        /\ p * mrstep < mrmax + Min({ExtFromTerminationRipples', mmaxextension})
    BY <1>1, <1>5 DEF Core
  <2>2. mrmin \in Nat /\ mrmax \in Nat /\ mrstep \in Nat /\ mmaxextension \in Nat
    BY DEF ConfigOK
  <2>3. p * mrstep \in Nat
    BY <2>1, <2>2
  <2> QED BY <1>2, <2>1, <2>2, <2>3, MinOfTwo DEF Core
<1>6. ASSUME NEW p, Core(p)', NEW b \in Bonds
      PROVE  Holds(mvalue[p - Lo(room) + 1][b], b, p, mlast_structure)'
  <2> DEFINE x == value[p - Lo(room) + 1][b]
  <2>1. Holds(x, b, p, s)
    BY <1>5, <1>6 DEF Carries
  <2>2. mvalue'[p - Lo(room)' + 1][b] = x
    BY <1>3
  <2> HIDE DEF x
  <2> QED BY <1>2, <2>1, <2>2, HoldsWithFewerRipples DEF Holds
<1>7. CountCalcPoints(mrlimits_cache)' = CountCalcPoints(limits)
  BY DEF CountCalcPoints
<1> QED BY <1>1, <1>3, <1>4, <1>6, <1>7 DEF Carries

(* The array that a setter makes anew for the empty structure. *)
LEMMA EmptyCarries ==
  GridAssumption /\ ConfigOK /\ Nonempty =>
    /\ RoomFor(NoStructure) \in Nat
    /\ Carries(Zeros(Limits(NoStructure)), Limits(NoStructure), NoStructure, RoomFor(NoStructure))
<1> SUFFICES ASSUME GridAssumption, ConfigOK, Nonempty
             PROVE  /\ RoomFor(NoStructure) \in Nat
                    /\ Carries(Zeros(Limits(NoStructure)), Limits(NoStructure), NoStructure,
                               RoomFor(NoStructure))
  OBVIOUS
<1>1. NoStructure \in Structures
  BY DEF GridAssumption
<1>2. RoomFor(NoStructure) \in Nat /\ RoomFor(NoStructure) =< mmaxextension
  BY <1>1, RoomType
<1>3. /\ Limits(NoStructure).rcalclo = Lo(RoomFor(NoStructure))
      /\ Limits(NoStructure).rcalchi = Hi(RoomFor(NoStructure))
      /\ Limits(NoStructure).extendedrmin \in Nat /\ Limits(NoStructure).extendedrmax \in Int
  BY <1>1, LimitsOf
<1>4. \A p : Core(p) => \A b \in Bonds :
        Holds(Zeros(Limits(NoStructure))[p - Lo(RoomFor(NoStructure)) + 1][b], b, p, NoStructure)
  BY <1>1, ZerosCarry
<1> QED BY <1>2, <1>3, <1>4, ZerosType DEF Carries

LEMMA EmptyCarriesNext ==
  GridAssumption /\ ConfigOK' /\ Nonempty' =>
    \E room \in Nat :
      Carries(Zeros(Limits(NoStructure)), Limits(NoStructure), NoStructure, room)'
<1>1. (GridAssumption /\ ConfigOK /\ Nonempty =>
        /\ RoomFor(NoStructure) \in Nat
        /\ Carries(Zeros(Limits(NoStructure)), Limits(NoStructure), NoStructure, RoomFor(NoStructure)))'
  BY EmptyCarries, PTL
<1> QED BY <1>1

LEMMA InitGrid ==
  ASSUME GridAssumption, Init
  PROVE  GridInv
  BY DEF GridAssumption, Init, GridInv, ConfigOK

(* Any step keeps the types of the configuration and of the structures. *)
LEMMA StepTypes ==
  ASSUME GridAssumption, GridInv, Next
  PROVE  /\ ConfigOK' /\ mstructure' \in Structures
         /\ mlast_structure' \in Structures \cup {NoLast}
<1>0. /\ ConfigOK /\ mstructure \in Structures /\ mlast_structure \in Structures \cup {NoLast}
  BY DEF GridInv
<1>1. ASSUME NEW s \in Structures, EvalCompletely(s) \/ EvalUpdated(s)
      PROVE  /\ ConfigOK' /\ mstructure' \in Structures
             /\ mlast_structure' \in Structures \cup {NoLast}
  BY <1>0, <1>1 DEF EvalCompletely, EvalUpdated, config, ConfigOK
<1>2. ASSUME NEW r \in Rmins, SetRmin(r)
      PROVE  /\ ConfigOK' /\ mstructure' \in Structures
             /\ mlast_structure' \in Structures \cup {NoLast}
  BY <1>0, <1>2 DEF SetRmin, ConfigOK, GridAssumption
<1>3. ASSUME NEW r \in Rmaxes, SetRmax(r)
      PROVE  /\ ConfigOK' /\ mstructure' \in Structures
             /\ mlast_structure' \in Structures \cup {NoLast}
  BY <1>0, <1>3 DEF SetRmax, ConfigOK, GridAssumption
<1>4. ASSUME NEW r \in Rsteps, SetRstep(r)
      PROVE  /\ ConfigOK' /\ mstructure' \in Structures
             /\ mlast_structure' \in Structures \cup {NoLast}
  BY <1>0, <1>4 DEF SetRstep, ConfigOK, GridAssumption
<1>5. ASSUME NEW q \in Ripples, SetQmax(q)
      PROVE  /\ ConfigOK' /\ mstructure' \in Structures
             /\ mlast_structure' \in Structures \cup {NoLast}
  BY <1>0, <1>5 DEF SetQmax, ConfigOK, GridAssumption
<1>6. ASSUME NEW x \in Extensions, SetMaxExtension(x)
      PROVE  /\ ConfigOK' /\ mstructure' \in Structures
             /\ mlast_structure' \in Structures \cup {NoLast}
  BY <1>0, <1>6 DEF SetMaxExtension, ConfigOK, GridAssumption
<1>7. ASSUME NEW x \in Bounds, SetPeakProfile(x)
      PROVE  /\ ConfigOK' /\ mstructure' \in Structures
             /\ mlast_structure' \in Structures \cup {NoLast}
  BY <1>0, <1>7 DEF SetPeakProfile, ConfigOK, GridAssumption
<1> QED BY <1>1, <1>2, <1>3, <1>4, <1>5, <1>6, <1>7 DEF Next

LEMMA EvalCompletelyGrid ==
  ASSUME GridAssumption, GridInv, ConfigOK', NEW s \in Structures, EvalCompletely(s)
  PROVE  GridInv'
<1>1. /\ mstructure' = s /\ mlast_structure' = s
      /\ mrlimits_cache' = Limits(s)
      /\ mvalue' = WithContributions(Zeros(Limits(s)), Limits(s), s.bonds, 1)
  BY DEF EvalCompletely
<1>2. RangeUnchanged /\ ExtFromTerminationRipples' = ExtFromTerminationRipples
  BY DEF EvalCompletely, config, RangeUnchanged, ExtFromTerminationRipples
<1>3. ConfigOK /\ ExtFromTerminationRipples \in Nat
  BY RipplesType DEF GridInv
<1>4. ASSUME Nonempty'
      PROVE  \E room \in Nat : Carries(mvalue, mrlimits_cache, mlast_structure, room)'
  <2>1. Nonempty
    BY <1>2, <1>4 DEF Nonempty, RangeUnchanged
  <2>2. Carries(WithContributions(Zeros(Limits(s)), Limits(s), s.bonds, 1), Limits(s), s, RoomFor(s))
    BY <1>3, <2>1, CompleteCarries
  <2>3. RoomFor(s) \in Nat
    BY <1>3, RoomType
  <2> QED BY <1>1, <1>2, <1>3, <2>2, <2>3, CarriedOver
<1> QED BY <1>1, <1>4 DEF GridInv

LEMMA EvalUpdatedGrid ==
  ASSUME GridAssumption, GridInv, ConfigOK', NEW s \in Structures, EvalUpdated(s)
  PROVE  GridInv'
<1> DEFINE last == mlast_structure
           popped == WithContributions(mvalue, mrlimits_cache, last.bonds \ s.bonds, -1)
           kept == Restored(popped, mrlimits_cache, Limits(s))
           new == WithContributions(kept, Limits(s), s.bonds \ last.bonds, 1)
<1>1. /\ mstructure' = s /\ mlast_structure' = s
      /\ mrlimits_cache' = Limits(s) /\ mvalue' = new
      /\ ~clicked /\ mlast_structure # NoLast
  BY DEF EvalUpdated
<1>2. RangeUnchanged /\ ExtFromTerminationRipples' = ExtFromTerminationRipples
  BY DEF EvalUpdated, config, RangeUnchanged, ExtFromTerminationRipples
<1>3. /\ ConfigOK /\ ExtFromTerminationRipples \in Nat /\ last \in Structures
  BY <1>1, RipplesType DEF GridInv
<1>4. ASSUME Nonempty'
      PROVE  \E room \in Nat : Carries(mvalue, mrlimits_cache, mlast_structure, room)'
  <2>1. Nonempty
    BY <1>2, <1>4 DEF Nonempty, RangeUnchanged
  <2>2. PICK room \in Nat : Carries(mvalue, mrlimits_cache, mlast_structure, room)
    BY <1>1, <2>1 DEF GridInv
  <2>3. Carries(new, Limits(s), s, RoomFor(s))
    BY <1>3, <2>1, <2>2, UpdateCarries
  <2>4. RoomFor(s) \in Nat
    BY <1>3, RoomType
  <2> HIDE DEF new
  <2> QED BY <1>1, <1>2, <1>3, <2>3, <2>4, CarriedOver
<1> QED BY <1>1, <1>4 DEF GridInv

(* Of the setters only that of Qmax may leave the value fresh. *)
LEMMA SetQmaxGrid ==
  ASSUME GridAssumption, GridInv, ConfigOK', NEW q \in Ripples, SetQmax(q),
         mstructure' \in Structures, mlast_structure' \in Structures \cup {NoLast}
  PROVE  GridInv'
<1> SUFFICES ASSUME ~clicked', mlast_structure' # NoLast
             PROVE  /\ mstructure' = mlast_structure'
                    /\ Nonempty' =>
                         \E room \in Nat : Carries(mvalue, mrlimits_cache, mlast_structure, room)'
  BY DEF GridInv
<1>1. /\ ~clicked /\ mlast_structure # NoLast /\ mlast_structure' = mlast_structure
      /\ mstructure' = mstructure /\ mstructure = mlast_structure
      /\ mqmax' = q /\ ~(q > mqmax) /\ Refreshed
  BY DEF SetQmax, GridInv
<1>2. /\ RangeUnchanged /\ ConfigOK /\ mlast_structure \in Structures
  BY <1>1 DEF SetQmax, RangeUnchanged, GridInv
<1>3. /\ ExtFromTerminationRipples' =< ExtFromTerminationRipples
  <2>1. /\ q \in Nat /\ mqmax \in Nat /\ q =< mqmax
    BY <1>1, <1>2 DEF ConfigOK, GridAssumption
  <2>2. Nyquist * mrstep \in Nat /\ (Nyquist * mrstep)' = Nyquist * mrstep
    BY <1>2 DEF ConfigOK, GridAssumption, RangeUnchanged
  <2> QED BY <1>1, <2>1, <2>2 DEF ExtFromTerminationRipples
<1>4. ASSUME Nonempty'
      PROVE  \E room \in Nat : Carries(mvalue, mrlimits_cache, mlast_structure, room)'
  <2>1. CASE mstructure = NoStructure
    <3>1. mrlimits_cache' = Limits(NoStructure)' /\ mvalue' = Zeros(Limits(NoStructure))'
      BY <1>1, <2>1 DEF Refreshed
    <3>2. \E room \in Nat :
            Carries(Zeros(Limits(NoStructure)), Limits(NoStructure), NoStructure, room)'
      BY <1>4, EmptyCarriesNext
    <3> QED BY <1>1, <2>1, <3>1, <3>2 DEF Carries
  <2>2. CASE mstructure # NoStructure
    <3>1. mrlimits_cache' = mrlimits_cache /\ mvalue' = mvalue
      BY <1>1, <2>2 DEF Refreshed
    <3>2. Nonempty
      BY <1>2, <1>4 DEF Nonempty, RangeUnchanged
    <3>3. PICK room \in Nat : Carries(mvalue, mrlimits_cache, mlast_structure, room)
      BY <1>1, <3>2 DEF GridInv
    <3> QED BY <1>1, <1>2, <1>3, <3>1, <3>3, CarriedOver
  <2> QED BY <2>1, <2>2
<1> QED BY <1>1, <1>4

LEMMA NextGrid ==
  ASSUME GridAssumption
  PROVE  GridInv /\ [Next]_vars => GridInv'
<1> SUFFICES ASSUME GridInv, [Next]_vars
             PROVE  GridInv'
  OBVIOUS
<1>1. CASE UNCHANGED vars
  <2>1. /\ RangeUnchanged /\ mqmax' = mqmax
        /\ mvalue' = mvalue /\ mrlimits_cache' = mrlimits_cache
        /\ mstructure' = mstructure /\ mlast_structure' = mlast_structure /\ clicked' = clicked
    BY <1>1 DEF vars, config, RangeUnchanged
  <2>2. ConfigOK /\ ConfigOK' /\ ExtFromTerminationRipples' = ExtFromTerminationRipples
    BY <2>1 DEF GridInv, ConfigOK, RangeUnchanged, ExtFromTerminationRipples
  <2>3. ExtFromTerminationRipples \in Nat
    BY <2>2, RipplesType
  <2>4. ASSUME ~clicked, mlast_structure # NoLast, Nonempty'
        PROVE  \E room \in Nat : Carries(mvalue, mrlimits_cache, mlast_structure, room)'
    <3>1. Nonempty /\ mlast_structure \in Structures
      BY <2>1, <2>4 DEF Nonempty, RangeUnchanged, GridInv
    <3>2. PICK room \in Nat : Carries(mvalue, mrlimits_cache, mlast_structure, room)
      BY <2>4, <3>1 DEF GridInv
    <3> QED BY <2>1, <2>2, <2>3, <3>1, <3>2, CarriedOver
  <2> QED BY <2>1, <2>2, <2>4 DEF GridInv
<1>2. CASE Next
  <2>0. /\ ConfigOK' /\ mstructure' \in Structures
        /\ mlast_structure' \in Structures \cup {NoLast}
    BY <1>2, StepTypes
  <2>1. ASSUME NEW s \in Structures, EvalCompletely(s) \/ EvalUpdated(s) PROVE GridInv'
    BY <2>0, <2>1, EvalCompletelyGrid, EvalUpdatedGrid
  <2>2. ASSUME NEW r \in Rmins, SetRmin(r) PROVE GridInv'
    BY <2>0, <2>2 DEF SetRmin, GridInv
  <2>3. ASSUME NEW r \in Rmaxes, SetRmax(r) PROVE GridInv'
    BY <2>0, <2>3 DEF SetRmax, GridInv
  <2>4. ASSUME NEW r \in Rsteps, SetRstep(r) PROVE GridInv'
    BY <2>0, <2>4 DEF SetRstep, GridInv
  <2>5. ASSUME NEW q \in Ripples, SetQmax(q) PROVE GridInv'
    BY <2>0, <2>5, SetQmaxGrid
  <2>6. ASSUME NEW x \in Extensions, SetMaxExtension(x) PROVE GridInv'
    BY <2>0, <2>6 DEF SetMaxExtension, GridInv
  <2>7. ASSUME NEW x \in Bounds, SetPeakProfile(x) PROVE GridInv'
    BY <2>0, <2>7 DEF SetPeakProfile, GridInv
  <2> QED BY <1>2, <2>1, <2>2, <2>3, <2>4, <2>5, <2>6, <2>7 DEF Next
<1> QED BY <1>1, <1>2

(* The point of the extended array at some steps from the origin. *)
LEMMA ExtendedPoint ==
  ASSUME GridAssumption, GridInv, ~clicked, mlast_structure # NoLast,
         NEW k \in DOMAIN ExtendedRDF,
         Core(mrlimits_cache.extendedrmin + k - 1), Nonempty
  PROVE  PointIsSum(ExtendedRDF[k], mrlimits_cache.extendedrmin + k - 1, mlast_structure)
<1> DEFINE steps == mrlimits_cache.extendedrmin + k - 1
           first == mrlimits_cache.extendedrmin - mrlimits_cache.rcalclo
           last == mrlimits_cache.extendedrmax - mrlimits_cache.rcalclo
<1>1. ConfigOK /\ mlast_structure \in Structures
  BY DEF GridInv
<1>2. PICK room \in Nat : Carries(mvalue, mrlimits_cache, mlast_structure, room)
  BY DEF GridInv
<1>3. /\ mrlimits_cache.extendedrmin \in Nat /\ mrlimits_cache.extendedrmax \in Int
      /\ mrlimits_cache.rcalclo = Lo(room) /\ mrlimits_cache.rcalchi = Hi(room)
      /\ RoomFor(mlast_structure) =< room
      /\ mvalue \in [1..CountCalcPoints(mrlimits_cache) -> [Bonds -> Int]]
  BY <1>2 DEF Carries
<1>4. Lo(room) \in Nat /\ Hi(room) \in Int
  BY <1>1, LoHi
<1>5. steps - Lo(room) + 1 \in 1..CountCalcPoints(mrlimits_cache)
  BY <1>1, <1>3, CoreEntry
<1>6. ExtendedRDF = SubSeq(mvalue, first + 1, last)
  BY DEF ExtendedRDF
<1>7. mvalue \in Seq([Bonds -> Int])
  <2>1. CountCalcPoints(mrlimits_cache) \in Nat
    BY <1>3, <1>4, <1>5 DEF CountCalcPoints
  <2> QED BY <1>3, <2>1
<1>8. first \in Int /\ last \in Int
  BY <1>3, <1>4
<1>9. k \in 1..(last - first) /\ ExtendedRDF[k] = mvalue[first + k]
  BY <1>6, <1>7, <1>8
<1>10. first + k = steps - Lo(room) + 1
  BY <1>3, <1>4, <1>9
<1>11. \A b \in Bonds : Holds(ExtendedRDF[k][b], b, steps, mlast_structure)
  BY <1>2, <1>9, <1>10 DEF Carries
<1> HIDE DEF steps
<1>12. PointIsSum(ExtendedRDF[k], steps, mlast_structure)
  BY <1>1, <1>11, PointsHold DEF steps
<1> QED BY <1>12 DEF steps

-----------------------------------------------------------------------------
(* Powers of two.                                                          *)

(* Numbers have a least one among them. *)
LEMMA MinOfNaturals ==
  ASSUME NEW D \in SUBSET Nat, D # {}
  PROVE  Min(D) \in D /\ \A y \in D : Min(D) =< y
<1> DEFINE R == OpToRel(<, Nat)
<1>1. IsWellFoundedOn(R, Nat)
  BY NatLessThanWellFounded
<1>2. \A a, b \in Nat : a < b => <<a, b>> \in R
  BY DEF OpToRel
<1> HIDE DEF R
<1>3. PICK x \in D : \A y \in D : ~(<<y, x>> \in R)
  BY <1>1, WFMin
<1>4. \A y \in D : ~(y < x)
  BY <1>2, <1>3
<1>5. \A y \in D : x =< y
  BY <1>4
<1> QED
  BY <1>5 DEF Min

(* A number is below its power of two: n points have 2 ^ n sets of points. *)
LEMMA PowerExceeds ==
  ASSUME NEW n \in Nat
  PROVE  2 ^ n \in Nat /\ n =< 2 ^ n
<1> DEFINE points == 1..n
           single == [x \in points |-> {x}]
<1>1. IsFiniteSet(points) /\ Cardinality(points) = n
  BY FS_Interval
<1> HIDE DEF points
<1>2. IsFiniteSet(SUBSET points) /\ Cardinality(SUBSET points) = 2 ^ n
  BY <1>1, FS_SUBSET
<1>3. 2 ^ n \in Nat
  BY <1>2, FS_CardinalityType
<1>4. single \in Injection(points, SUBSET points)
  BY DEF Injection, IsInjective
<1>5. Cardinality(points) =< Cardinality(SUBSET points)
  BY <1>2, <1>4, FS_Injection
<1> QED
  BY <1>1, <1>2, <1>3, <1>5

(* Transforms are padded, never cut. *)
LEMMA PaddedBounds ==
  ASSUME NEW n \in Nat
  PROVE  Padded(n) \in Nat /\ n =< Padded(n)
<1> DEFINE powers == {2 ^ k : k \in {m \in 0..n : 2 ^ m >= n}}
<1>1. \A k \in Nat : 2 ^ k \in Nat
  BY PowerExceeds
<1>2. powers \in SUBSET Nat /\ \A x \in powers : n =< x
  BY <1>1
<1>3. 2 ^ n \in powers
  BY PowerExceeds
<1>4. Min(powers) \in powers
  BY <1>2, <1>3, MinOfNaturals
<1> HIDE DEF powers
<1>5. Min(powers) \in Nat /\ n =< Min(powers)
  BY <1>2, <1>4
<1>6. Padded(n) = IF n = 0 THEN 0 ELSE Min(powers)
  BY DEF Padded, powers
<1> QED BY <1>5, <1>6

-----------------------------------------------------------------------------
(* The extents of arrays, and of the results that are cut from them.       *)

LEMMA Piece ==
  ASSUME NEW set, NEW n \in Nat, NEW x \in [1..n -> set],
         NEW i \in Nat, NEW j \in Nat, NEW l \in Nat, i + l = j, j =< n
  PROVE  /\ Len(x) = n
         /\ Len(SubSeq(x, i + 1, j)) = l
         /\ SubSeq(x, i + 1, j) \in [1..l -> set]
         /\ \A k \in 1..l : SubSeq(x, i + 1, j)[k] = x[i + k]
<1> DEFINE piece == SubSeq(x, i + 1, j)
<1>1. x \in Seq(set) /\ Len(x) = n
  OBVIOUS
<1>2. Len(piece) = l /\ (\A k \in 1..l : piece[k] = x[i + k]) /\ piece \in Seq(set)
  BY <1>1
<1> HIDE DEF piece
<1>3. piece \in [1..l -> set]
  BY <1>2
<1> QED BY <1>1, <1>2, <1>3 DEF piece

(* The limits are those of the structure from an evaluation to the next setter. *)
ArrayInv ==
  /\ Ordered(mrlimits_cache)
  /\ mvalue \in [1..CountCalcPoints(mrlimits_cache) -> [Bonds -> Int]]
  /\ settled \in BOOLEAN
  /\ settled => mrlimits_cache = Limits(mstructure)

LEMMA LimitsType ==
  GridAssumption /\ ConfigOK => \A s \in Structures : Ordered(Limits(s))
BY LimitsOrdered, LimitsOfNothing

LEMMA LimitsTypeNext ==
  GridAssumption /\ ConfigOK' => Ordered(Limits(NoStructure))'
<1>1. GridAssumption /\ ConfigOK => Ordered(Limits(NoStructure))
  BY LimitsType DEF GridAssumption
<1>2. (GridAssumption /\ ConfigOK => Ordered(Limits(NoStructure)))'
  BY <1>1, PTL
<1> QED BY <1>2

LEMMA SameLimits ==
  ASSUME UNCHANGED config, NEW s
  PROVE  Limits(s)' = Limits(s)
BY DEF config, Limits, ExtFromTerminationRipples, ExtFromPeakTails

(* What a setter leaves of the array. *)
LEMMA RefreshedArray ==
  ASSUME GridAssumption, ArrayInv, ConfigOK', UNCHANGED mstructure, Refreshed
  PROVE  ArrayInv'
<1>1. CASE mstructure = NoStructure
  <2>1. mrlimits_cache' = Limits(NoStructure)' /\ mvalue' = Zeros(Limits(NoStructure))' /\ settled'
    BY <1>1 DEF Refreshed
  <2>2. Ordered(Limits(NoStructure))'
    BY LimitsTypeNext
  <2>3. Zeros(Limits(NoStructure))' \in [1..CountCalcPoints(Limits(NoStructure))' -> [Bonds -> Int]]
    BY ZerosType DEF Zeros, Nothing, CountCalcPoints
  <2> QED BY <1>1, <2>1, <2>2, <2>3 DEF ArrayInv, Ordered, CountCalcPoints, Refreshed
<1>2. CASE mstructure # NoStructure
  BY <1>2 DEF Refreshed, ArrayInv, Ordered, CountCalcPoints
<1> QED BY <1>1, <1>2

LEMMA EvaluatedArray ==
  ASSUME GridAssumption, GridInv, ArrayInv, NEW s \in Structures,
         EvalCompletely(s) \/ EvalUpdated(s)
  PROVE  ArrayInv'
<1>1. /\ mrlimits_cache' = Limits(s) /\ mstructure' = s /\ settled' /\ UNCHANGED config
      /\ settled' \in BOOLEAN
  BY DEF EvalCompletely, EvalUpdated
<1>2. Limits(s)' = Limits(s) /\ Ordered(Limits(s))
  BY <1>1, SameLimits, LimitsType DEF GridInv
<1>3. mvalue' \in [1..CountCalcPoints(Limits(s)) -> [Bonds -> Int]]
  <2>1. CASE EvalCompletely(s)
    BY <2>1, ZerosType, ContributionsType DEF EvalCompletely
  <2>2. CASE EvalUpdated(s)
    <3> DEFINE popped == WithContributions(mvalue, mrlimits_cache, mlast_structure.bonds \ s.bonds, -1)
               kept == Restored(popped, mrlimits_cache, Limits(s))
    <3>1. mvalue' = WithContributions(kept, Limits(s), s.bonds \ mlast_structure.bonds, 1)
      BY <2>2 DEF EvalUpdated
    <3>2. popped \in [1..CountCalcPoints(mrlimits_cache) -> [Bonds -> Int]]
      BY ContributionsType DEF ArrayInv
    <3>3. kept \in [1..CountCalcPoints(Limits(s)) -> [Bonds -> Int]]
      BY <3>2, RestoredType
    <3> QED BY <3>1, <3>3, ContributionsType
  <2> QED BY <2>1, <2>2
<1>4. (Limits(mstructure))' = Limits(s)
  BY <1>1 DEF config, Limits, ExtFromTerminationRipples, ExtFromPeakTails
<1> QED BY <1>1, <1>2, <1>3, <1>4 DEF ArrayInv, Ordered, CountCalcPoints

LEMMA NextArray ==
  ASSUME GridAssumption, GridInv, ArrayInv, [Next]_vars
  PROVE  ArrayInv'
<1>1. CASE UNCHANGED vars
  <2>1. Limits(mstructure)' = Limits(mstructure)
    BY <1>1 DEF vars, config, Limits, ExtFromTerminationRipples, ExtFromPeakTails
  <2> QED BY <1>1, <2>1 DEF vars, ArrayInv, Ordered, CountCalcPoints
<1>2. CASE Next
  <2>0. ConfigOK'
    BY <1>2, StepTypes
  <2>1. ASSUME NEW s \in Structures, EvalCompletely(s) \/ EvalUpdated(s) PROVE ArrayInv'
    BY <2>1, EvaluatedArray
  <2>2. ASSUME NEW r \in Rmins, SetRmin(r) PROVE ArrayInv'
    BY <2>2 DEF SetRmin, ArrayInv, Ordered, CountCalcPoints
  <2>3. ASSUME NEW r \in Rmaxes, SetRmax(r) PROVE ArrayInv'
    BY <2>0, <2>3, RefreshedArray DEF SetRmax
  <2>4. ASSUME NEW r \in Rsteps, SetRstep(r) PROVE ArrayInv'
    BY <2>0, <2>4, RefreshedArray DEF SetRstep
  <2>5. ASSUME NEW q \in Ripples, SetQmax(q) PROVE ArrayInv'
    BY <2>0, <2>5, RefreshedArray DEF SetQmax
  <2>6. ASSUME NEW x \in Extensions, SetMaxExtension(x) PROVE ArrayInv'
    BY <2>6 DEF SetMaxExtension, ArrayInv, Ordered, CountCalcPoints
  <2>7. ASSUME NEW x \in Bounds, SetPeakProfile(x) PROVE ArrayInv'
    BY <2>7 DEF SetPeakProfile, ArrayInv, Ordered, CountCalcPoints
  <2> QED BY <1>2, <2>1, <2>2, <2>3, <2>4, <2>5, <2>6, <2>7 DEF Next
<1> QED BY <1>1, <1>2

LEMMA InitArray ==
  ASSUME GridAssumption, Init
  PROVE  ArrayInv
<1>1. ConfigOK /\ NoStructure \in Structures
  BY InitGrid DEF GridInv, GridAssumption
<1> QED BY <1>1, LimitsType, ZerosType DEF Init, ArrayInv

(* The RDF that both ends are cut off. *)
LEMMA SettledResults ==
  ASSUME GridAssumption, GridInv, ArrayInv, settled, Rgrid # <<>>
  PROVE  RDFIsSum
<1> DEFINE from == CeilDiv(mrmin, mrstep)
           to == CeilDiv(mrmax, mrstep)
           low == mrlimits_cache.extendedrmin
           high == mrlimits_cache.extendedrmax
           lo == mrlimits_cache.rcalclo
           hi == mrlimits_cache.rcalchi
           point == [Bonds -> Int]
<1>1. /\ ConfigOK /\ mstructure \in Structures /\ mrlimits_cache = Limits(mstructure)
      /\ Ordered(mrlimits_cache)
  BY DEF GridInv, ArrayInv
<1>2. from \in Int /\ to \in Int
  BY <1>1, CeilBounds DEF ConfigOK
<1>3. Nonempty
  <2>1. ASSUME ~Nonempty PROVE Rgrid = <<>>
    <3>1. 1..(to - from) = {}
      BY <1>2, <2>1 DEF Nonempty
    <3> HIDE DEF from, to
    <3> QED BY <3>1 DEF Rgrid, from, to
  <2> QED BY <2>1
<1>4. from \in Nat /\ low =< from /\ to =< high
  BY <1>1, <1>3, LimitsOrdered
<1>5. lo \in Nat /\ low \in Nat /\ high \in Int /\ hi \in Int /\ lo =< low /\ high =< hi
  BY <1>1 DEF Ordered
<1>6. from < to
  BY <1>3 DEF Nonempty
<1>7. mvalue \in [1..(hi - lo) -> point]
  BY DEF ArrayInv, CountCalcPoints
<1>8. /\ ExtendedRDF = SubSeq(mvalue, low - lo + 1, high - lo)
      /\ Cuts = [low |-> from - low, high |-> high - to]
      /\ DOMAIN Rgrid = 1..(to - from) /\ \A k \in 1..(to - from) : Rgrid[k] = from + k - 1
      /\ Rgrid = [k \in 1..(to - from) |-> Rgrid[k]]
  BY DEF ExtendedRDF, Cuts, Rgrid
<1>9. RDF = SubSeq(ExtendedRDF, from - low + 1, Len(ExtendedRDF) - (high - to))
  BY <1>8 DEF RDF
<1>10. \A p \in low..(high - 1) : Core(p)
  BY <1>1, <1>3, LimitsOf
<1> HIDE DEF from, to, low, high, lo, hi, point
<1>11. /\ Len(ExtendedRDF) = high - low
       /\ ExtendedRDF \in [1..(high - low) -> point]
  <2> DEFINE n == hi - lo
             i == low - lo
             j == high - lo
             l == high - low
  <2>1. n \in Nat /\ i \in Nat /\ j \in Nat /\ l \in Nat /\ i + l = j /\ j =< n
    BY <1>2, <1>4, <1>5, <1>6
  <2>2. mvalue \in [1..n -> point] /\ ExtendedRDF = SubSeq(mvalue, i + 1, j)
    BY <1>7, <1>8
  <2> HIDE DEF n, i, j, l
  <2>3. Len(ExtendedRDF) = l /\ ExtendedRDF \in [1..l -> point]
    BY <2>1, <2>2, Piece
  <2> QED BY <2>3 DEF l
<1>12. /\ Len(RDF) = to - from
       /\ \A k \in 1..(to - from) : RDF[k] = ExtendedRDF[from - low + k]
  <2> DEFINE n == high - low
             i == from - low
             j == to - low
             l == to - from
  <2>1. /\ n \in Nat /\ i \in Nat /\ j \in Nat /\ l \in Nat /\ i + l = j /\ j =< n
        /\ n - (high - to) = j
    BY <1>2, <1>4, <1>5, <1>6
  <2>2. ExtendedRDF \in [1..n -> point] /\ Len(ExtendedRDF) = n
    BY <1>11
  <2>3. RDF = SubSeq(ExtendedRDF, i + 1, Len(ExtendedRDF) - (high - to))
    BY <1>9
  <2> HIDE DEF n, i, j, l
  <2>4. RDF = SubSeq(ExtendedRDF, i + 1, j)
    BY <2>1, <2>2, <2>3
  <2>5. Len(RDF) = l /\ \A k \in 1..l : RDF[k] = ExtendedRDF[i + k]
    BY <2>1, <2>2, <2>4, Piece
  <2> QED BY <2>5 DEF i, l
<1>13. ASSUME NEW k \in 1..(to - from), ~clicked, mlast_structure # NoLast
       PROVE  PointIsSum(RDF[k], Rgrid[k], mlast_structure)
  <2> DEFINE e == from - low + k
  <2>1. /\ e \in 1..(high - low) /\ low + e - 1 = from + k - 1
        /\ low + e - 1 \in low..(high - 1)
    BY <1>2, <1>4, <1>5, <1>6
  <2>2. RDF[k] = ExtendedRDF[e] /\ Rgrid[k] = low + e - 1
    BY <1>8, <1>12, <2>1
  <2> HIDE DEF e
  <2>3. e \in DOMAIN ExtendedRDF /\ Core(low + e - 1)
    BY <1>10, <1>11, <2>1
  <2>4. PointIsSum(ExtendedRDF[e], low + e - 1, mlast_structure)
    BY <1>3, <1>13, <2>3, ExtendedPoint DEF low
  <2> QED BY <2>2, <2>4
<1>14. Len(Rgrid) = to - from
  <2>1. to - from \in Nat
    BY <1>2, <1>4, <1>6
  <2> DEFINE l == to - from
  <2>2. l \in Nat /\ DOMAIN Rgrid = 1..l /\ Rgrid \in [1..l -> {Rgrid[k] : k \in 1..l}]
    BY <1>8, <2>1
  <2> HIDE DEF l
  <2>3. Len(Rgrid) = l
    BY <2>2
  <2> QED BY <2>3 DEF l
<1>15. Cuts.low >= 0 /\ Cuts.high >= 0
  BY <1>2, <1>4, <1>5, <1>8
<1> QED BY <1>8, <1>12, <1>13, <1>14, <1>15 DEF RDFIsSum

(***************************************************************************)
(* The points of transforms.  Both pads reach the end of the extended      *)
(* grid, from the origin.                                                  *)
(***************************************************************************)
LEMMA TransformsFit ==
  ASSUME GridAssumption, GridInv, ArrayInv
  PROVE  /\ ExtendedF = QstepsToNyquist
         /\ QmaxSteps =< ExtendedF
         /\ mrlimits_cache.extendedrmax =< Fftgtof(0, ExtendedF)
         /\ TransformedPDF = CountExtendedPoints
<1> DEFINE low == mrlimits_cache.extendedrmin
           high == mrlimits_cache.extendedrmax
           lo == mrlimits_cache.rcalclo
           hi == mrlimits_cache.rcalchi
<1>1. /\ low \in Nat /\ high \in Nat /\ lo \in Nat /\ hi \in Nat
      /\ lo =< low /\ low =< high /\ high =< hi /\ (low < high \/ high = 0)
  BY DEF ArrayInv, Ordered
<1>2. mvalue \in [1..(hi - lo) -> [Bonds -> Int]]
  BY DEF ArrayInv, CountCalcPoints
<1>3. ExtendedRDF = SubSeq(mvalue, low - lo + 1, high - lo)
  BY DEF ExtendedRDF
<1> HIDE DEF low, high, lo, hi
<1>4. Len(ExtendedRDF) = high - low
  <2> DEFINE n == hi - lo
             i == low - lo
             j == high - lo
             l == high - low
  <2>1. n \in Nat /\ i \in Nat /\ j \in Nat /\ l \in Nat /\ i + l = j /\ j =< n
    BY <1>1
  <2>2. mvalue \in [1..n -> [Bonds -> Int]] /\ ExtendedRDF = SubSeq(mvalue, i + 1, j)
    BY <1>2, <1>3
  <2> HIDE DEF n, i, j, l
  <2>3. Len(ExtendedRDF) = l
    BY <2>1, <2>2, Piece
  <2> QED BY <2>3 DEF l
<1>5. ExtendedF = Padded(high)
  <2>1. ExtendedF = IF high - low = 0 THEN 0 ELSE Padded(low + (high - low))
    BY <1>4 DEF ExtendedF, Fftgtof, low
  <2>2. low + (high - low) = high
    BY <1>1
  <2>3. Padded(0) = 0
    BY DEF Padded
  <2> QED BY <1>1, <2>1, <2>2, <2>3
<1> DEFINE F == Padded(high)
           back == Fftgtof(0, F)
<1>6. F \in Nat /\ high =< F /\ Padded(F) \in Nat /\ F =< Padded(F)
  BY <1>1, PaddedBounds
<1>7. back = (IF F = 0 THEN 0 ELSE Padded(0 + F)) /\ 0 + F = F
  BY <1>6 DEF Fftgtof
<1> HIDE DEF F
<1>8. back \in Nat /\ high =< back
  BY <1>1, <1>6, <1>7
<1>9. QstepsToNyquist = F
  BY DEF QstepsToNyquist, high, F
<1>10. QmaxSteps =< F
  <2>1. CASE mqmax = 0 \/ F = 0
    BY <1>6, <1>9, <2>1 DEF QmaxSteps
  <2>2. CASE mqmax # 0 /\ F # 0
    <3> DEFINE steps == CeilDiv(Nyquist * mrstep * F, mqmax)
    <3>1. mqmax \in Nat \ {0} /\ Nyquist \in Nat /\ mrstep \in Nat
      BY <2>2 DEF GridInv, ConfigOK, GridAssumption
    <3>2. Nyquist * mrstep \in Nat
      BY <3>1
    <3>3. Nyquist * mrstep * F \in Int
      BY <1>6, <3>2
    <3>4. steps \in Int
      BY <3>1, <3>3, CeilBounds
    <3>5. QmaxSteps = Min({F, steps})
      BY <1>9, <2>2 DEF QmaxSteps
    <3> HIDE DEF steps
    <3> QED BY <1>6, <3>4, <3>5, MinOfTwo
  <2> QED BY <2>1, <2>2
<1>11. TransformedPDF = high - low
  <2>1. TransformedPDF = Min({back, high}) - low
    BY <1>5 DEF TransformedPDF, low, high, F
  <2> HIDE DEF back
  <2>2. Min({back, high}) = high
    BY <1>1, <1>8, MinOfTwo
  <2> QED BY <2>1, <2>2
<1>12. CountExtendedPoints = high - low
  BY DEF CountExtendedPoints, low, high
<1> QED BY <1>5, <1>8, <1>9, <1>10, <1>11, <1>12 DEF F, high

-----------------------------------------------------------------------------
(* Theorems.                                                               *)

(***************************************************************************)
(* The array always covers the extended grid, whatever setters and         *)
(* evaluations have made of the one and of the other; for any values of    *)
(* the constants (PDFCalculator.cpp:654).                                  *)
(***************************************************************************)
THEOREM TypeCorrect ==
  ASSUME GridAssumption
  PROVE  Spec => []TypeOK
<1>1. Init => GridInv /\ ArrayInv
  BY InitGrid, InitArray
<1>2. GridInv /\ ArrayInv /\ [Next]_vars => (GridInv /\ ArrayInv)'
  BY NextGrid, NextArray
<1>3. GridInv /\ ArrayInv => TypeOK
  <2> SUFFICES ASSUME GridInv, ArrayInv PROVE TypeOK
    OBVIOUS
  <2>1. CountCalcPoints(mrlimits_cache) \in Nat
    BY DEF ArrayInv, Ordered, CountCalcPoints
  <2>2. Len(mvalue) = CountCalcPoints(mrlimits_cache)
    BY <2>1 DEF ArrayInv
  <2>3. \A k \in DOMAIN mvalue : mvalue[k] \in [Bonds -> Int]
    BY DEF ArrayInv
  <2>4. mstructure \in Structures /\ mlast_structure \in Structures \cup {NoLast}
    BY DEF GridInv
  <2>5. /\ 0 =< mrlimits_cache.rcalclo
        /\ mrlimits_cache.rcalclo =< mrlimits_cache.extendedrmin
        /\ mrlimits_cache.extendedrmin =< mrlimits_cache.extendedrmax
        /\ mrlimits_cache.extendedrmax =< mrlimits_cache.rcalchi
    BY DEF ArrayInv, Ordered
  <2> QED BY <2>2, <2>3, <2>4, <2>5 DEF TypeOK
<1> QED BY <1>1, <1>2, <1>3, PTL DEF Spec

(***************************************************************************)
(* A fresh array holds the sum at each point of the extended grid that is  *)
(* asked for, whatever arrays it has been carried over; for any            *)
(* structures, ranges, steps, profiles and extensions                      *)
(* (PDFCalculator.cpp:547, 728).                                           *)
(***************************************************************************)
THEOREM GridIsAlwaysSum ==
  ASSUME GridAssumption
  PROVE  Spec => []GridIsSum
<1>1. Init => GridInv
  BY InitGrid
<1>2. GridInv /\ [Next]_vars => GridInv'
  BY NextGrid
<1>3. GridInv => GridIsSum
  <2> SUFFICES ASSUME GridInv, ~clicked, mlast_structure # NoLast,
                      NEW k \in DOMAIN ExtendedRDF,
                      mrlimits_cache.extendedrmin + k - 1 \in
                        Limits(mlast_structure).extendedrmin..(Limits(mlast_structure).extendedrmax - 1)
               PROVE  PointIsSum(ExtendedRDF[k], mrlimits_cache.extendedrmin + k - 1, mlast_structure)
    BY DEF GridIsSum
  <2>1. ConfigOK /\ mlast_structure \in Structures
    BY DEF GridInv
  <2>2. Nonempty
    BY <2>1, LimitsOfNothing
  <2>3. Core(mrlimits_cache.extendedrmin + k - 1)
    BY <2>1, <2>2, LimitsOf
  <2> QED BY <2>2, <2>3, ExtendedPoint
<1> QED BY <1>1, <1>2, <1>3, PTL DEF Spec

(***************************************************************************)
(* From an evaluation to the next setter, the RDF that both ends are cut   *)
(* off is the sum at the points of getRgrid, as many as they are; whatever *)
(* setters are called, the transforms have the points of their grids; for  *)
(* any values of the constants (PDFCalculator.cpp:145, 179, 233, 654).     *)
(***************************************************************************)
THEOREM ResultsAlwaysFitGrids ==
  ASSUME GridAssumption
  PROVE  Spec => []ResultsFitGrids
<1>1. Init => GridInv /\ ArrayInv
  BY InitGrid, InitArray
<1>2. GridInv /\ ArrayInv /\ [Next]_vars => (GridInv /\ ArrayInv)'
  BY NextGrid, NextArray
<1>3. GridInv /\ ArrayInv => ResultsFitGrids
  BY SettledResults, TransformsFit DEF ResultsFitGrids
<1> QED BY <1>1, <1>2, <1>3, PTL DEF Spec
=============================================================================
