----------------------------- MODULE NumericConv -----------------------------
(***************************************************************************)
(* castClamped of NumericConv.h for the integer types.  The comparisons    *)
(* are made in the common type of source and target, and a conversion to   *)
(* it changes a value it cannot hold: what has to be shown is that no such *)
(* value is ever compared.  The sockets convert byte counts with it:       *)
(* size_t to int on Windows.                                               *)
(*                                                                         *)
(* A type is its signedness and its largest value.  The floating types are *)
(* not modelled.                                                           *)
(***************************************************************************)
EXTENDS Integers, TLAPS

Types == [signed : BOOLEAN, max : Nat \ {0}]

lowest(t) == IF t.signed THEN -t.max - 1 ELSE 0
Values(t) == lowest(t) .. t.max

\* A conversion keeps the value modulo 2^width of the target.
Size(t) == t.max - lowest(t) + 1
static_cast(t, x) == lowest(t) + ((x - lowest(t)) % Size(t))

\* std::common_type: types shorter than int are promoted, and then the one with
\* the larger largest value wins: an unsigned type over the signed one of its
\* width, a wider signed type over an unsigned one.
int == [signed |-> TRUE, max |-> 2^31 - 1]
Promoted(t) == IF t.max < int.max THEN int ELSE t
common_type(t, u) == IF Promoted(t).max < Promoted(u).max THEN Promoted(u) ELSE Promoted(t)

\* static_cast<max_type>(src) > static_cast<max_type>(trgMaxVal)
AboveMax(trg, src, x) ==
  LET max_type == common_type(trg, src)
  IN  static_cast(max_type, x) > static_cast(max_type, trg.max)

AtLeastMax(trg, src, x) ==
  LET max_type == common_type(trg, src)
  IN  static_cast(max_type, x) >= static_cast(max_type, trg.max)

AtMostMin(trg, src, x) ==
  LET max_type == common_type(trg, src)
  IN  static_cast(max_type, x) <= static_cast(max_type, lowest(trg))

\* NumericCastImpl, by the signedness of target and source.
clampedAlike(trg, src, x) ==
  IF AtLeastMax(trg, src, x) THEN trg.max
  ELSE IF AtMostMin(trg, src, x) THEN lowest(trg)
  ELSE static_cast(trg, x)

clampedToMax(trg, src, x) ==
  IF AboveMax(trg, src, x) THEN trg.max ELSE static_cast(trg, x)

clampedToUnsigned(trg, src, x) ==
  IF x < 0 THEN lowest(trg) ELSE clampedToMax(trg, src, x)

clamped(trg, src, x) ==
  IF trg.signed = src.signed THEN clampedAlike(trg, src, x)
  ELSE IF src.signed THEN clampedToUnsigned(trg, src, x)
  ELSE clampedToMax(trg, src, x)

castClamped(trg, src, x) == IF trg = src THEN x ELSE clamped(trg, src, x)

\* "values outside the destination types range will be clamped to lie within the
\* target types value range" (NumericConv.h:97).
Nearest(t, x) == IF x < lowest(t) THEN lowest(t) ELSE IF x > t.max THEN t.max ELSE x

-----------------------------------------------------------------------------
(* Proofs *)

LEMMA ModuloOfSmall == ASSUME NEW m \in Nat \ {0}, NEW x \in 0 .. m - 1 PROVE x % m = x
  OBVIOUS

\* A conversion keeps a value that the target has.
LEMMA Kept == ASSUME NEW t \in Types, NEW x \in Values(t) PROVE static_cast(t, x) = x
<1>1. lowest(t) \in Int /\ t.max \in Nat \ {0} /\ lowest(t) <= 0
  BY DEF Types, lowest
<1>2. Size(t) \in Nat \ {0} /\ x - lowest(t) \in 0 .. Size(t) - 1 /\ x \in Int
  BY <1>1 DEF Size, Values
<1>3. (x - lowest(t)) % Size(t) = x - lowest(t)
  BY <1>2, ModuloOfSmall
<1> QED  BY <1>1, <1>2, <1>3 DEF static_cast

\* The common type has every value of both types that it is asked to hold: those
\* from 0, and all of them where the types are of one signedness.
LEMMA CommonHolds ==
  ASSUME NEW t \in Types, NEW u \in Types
  PROVE  /\ common_type(t, u) \in Types
         /\ 0 .. t.max \subseteq Values(common_type(t, u))
         /\ 0 .. u.max \subseteq Values(common_type(t, u))
         /\ t.signed = u.signed => /\ Values(t) \subseteq Values(common_type(t, u))
                                   /\ Values(u) \subseteq Values(common_type(t, u))
<1>1. Promoted(t) \in Types /\ t.max <= Promoted(t).max /\ Values(t) \subseteq Values(Promoted(t))
      /\ (Promoted(t) = t \/ Promoted(t) = int)
  BY DEF Promoted, Types, int, Values, lowest
<1>2. Promoted(u) \in Types /\ u.max <= Promoted(u).max /\ Values(u) \subseteq Values(Promoted(u))
      /\ (Promoted(u) = u \/ Promoted(u) = int)
  BY DEF Promoted, Types, int, Values, lowest
<1> DEFINE c == common_type(t, u)
<1>3. c \in Types /\ t.max <= c.max /\ u.max <= c.max /\ (c = Promoted(t) \/ c = Promoted(u))
  BY <1>1, <1>2 DEF common_type, Types
<1> HIDE DEF c
<1>4. t.max \in Nat /\ u.max \in Nat /\ c.max \in Nat /\ lowest(c) \in Int /\ lowest(c) <= 0
  BY <1>3 DEF Types, lowest
<1>5. 0 .. t.max \subseteq Values(c) /\ 0 .. u.max \subseteq Values(c)
  BY <1>3, <1>4 DEF Values
<1>6. ASSUME t.signed = u.signed
      PROVE  Values(t) \subseteq Values(c) /\ Values(u) \subseteq Values(c)
  <2>1. CASE t.signed
    <3>1. c.signed
      <4>1. int.signed
        BY DEF int
      <4>2. Promoted(t).signed /\ Promoted(u).signed
        BY <1>1, <1>2, <1>6, <2>1, <4>1
      <4> QED  BY <1>3, <4>2
    <3> QED  BY <1>3, <1>4, <1>6, <2>1, <3>1 DEF Values, lowest
  <2>2. CASE ~t.signed
    <3>1. Values(t) = 0 .. t.max /\ Values(u) = 0 .. u.max
      BY <1>6, <2>2 DEF Values, lowest
    <3> QED  BY <1>5, <3>1
  <2> QED  BY <2>1, <2>2
<1> QED  BY <1>3, <1>5, <1>6 DEF c

\* castClamped returns the value of the target type that is nearest to its
\* argument, for any two integer types (NumericConv.h:117): no comparison is made
\* with a value that the common type has changed.
THEOREM ClampsToNearest ==
  ASSUME NEW trg \in Types, NEW src \in Types, NEW x \in Values(src)
  PROVE  castClamped(trg, src, x) = Nearest(trg, x) /\ castClamped(trg, src, x) \in Values(trg)
<1>1. /\ trg.max \in Nat \ {0} /\ src.max \in Nat \ {0} /\ lowest(trg) \in Int /\ lowest(src) \in Int
      /\ lowest(trg) <= 0 /\ x \in Int /\ lowest(src) <= x /\ x <= src.max
      /\ trg.signed \in BOOLEAN /\ src.signed \in BOOLEAN
  BY DEF Types, lowest, Values
<1> DEFINE c == common_type(trg, src)
<1>2. c \in Types
  BY CommonHolds
<1>3. static_cast(c, trg.max) = trg.max
  <2>1. trg.max \in 0 .. trg.max
    BY <1>1
  <2> QED  BY <1>2, <2>1, CommonHolds, Kept
<1>4. x \in Values(trg) => static_cast(trg, x) = x
  BY Kept
<1>5. CASE trg = src
  BY <1>1, <1>5 DEF castClamped, Nearest, Values
<1>6. CASE trg # src /\ trg.signed = src.signed
  <2>1. static_cast(c, x) = x /\ static_cast(c, lowest(trg)) = lowest(trg)
    <3>1. lowest(trg) \in Values(trg)
      BY <1>1 DEF Values
    <3> QED  BY <1>2, <1>6, <3>1, CommonHolds, Kept
  <2>2. (AtLeastMax(trg, src, x) <=> x >= trg.max) /\ (AtMostMin(trg, src, x) <=> x <= lowest(trg))
    BY <1>3, <2>1 DEF AtLeastMax, AtMostMin
  <2>3. castClamped(trg, src, x) = clampedAlike(trg, src, x)
    BY <1>6 DEF castClamped, clamped
  <2>4. clampedAlike(trg, src, x) =
          IF x >= trg.max THEN trg.max ELSE IF x <= lowest(trg) THEN lowest(trg) ELSE static_cast(trg, x)
    BY <2>2 DEF clampedAlike
  <2> QED  BY <1>1, <1>4, <2>3, <2>4 DEF Nearest, Values
<1>7. CASE trg.signed # src.signed
  <2>1. ASSUME x >= 0
        PROVE  clampedToMax(trg, src, x) = Nearest(trg, x) /\ Nearest(trg, x) \in Values(trg)
    <3>1. x \in 0 .. src.max
      BY <1>1, <2>1
    <3>2. static_cast(c, x) = x
      BY <1>2, <3>1, CommonHolds, Kept
    <3>3. AboveMax(trg, src, x) <=> x > trg.max
      BY <1>3, <3>2 DEF AboveMax
    <3>4. x <= trg.max => x \in Values(trg)
      BY <1>1, <2>1 DEF Values
    <3>5. clampedToMax(trg, src, x) = IF x > trg.max THEN trg.max ELSE x
      BY <1>1, <1>4, <3>3, <3>4 DEF clampedToMax
    <3> QED  BY <1>1, <2>1, <3>5 DEF Nearest, Values
  <2>2. castClamped(trg, src, x) =
          IF src.signed THEN clampedToUnsigned(trg, src, x) ELSE clampedToMax(trg, src, x)
    BY <1>7 DEF castClamped, clamped
  <2>3. CASE src.signed /\ x < 0
    <3>1. lowest(trg) = 0
      BY <1>1, <1>7, <2>3 DEF lowest
    <3>2. castClamped(trg, src, x) = 0
      BY <2>2, <2>3, <3>1 DEF clampedToUnsigned
    <3> QED  BY <1>1, <2>3, <3>1, <3>2 DEF Nearest, Values
  <2>4. CASE src.signed /\ x >= 0
    <3>1. ~(x < 0)
      BY <1>1, <2>4
    <3> QED  BY <2>1, <2>2, <2>4, <3>1 DEF clampedToUnsigned
  <2>5. CASE ~src.signed
    <3>1. x >= 0
      BY <1>1, <2>5 DEF lowest
    <3> QED  BY <2>1, <2>2, <2>5, <3>1
  <2> QED  BY <1>1, <2>3, <2>4, <2>5
<1> QED  BY <1>5, <1>6, <1>7
==============================================================================
