----------------------------- MODULE BlendProofs -----------------------------
(***************************************************************************)
(* How much a stack of layers can lose, for channels of every width, any   *)
(* values and any number of layers.                                        *)
(***************************************************************************)
EXTENDS Blend, TLAPS

-----------------------------------------------------------------------------
(* Products and whole parts *)

LEMMA TimesMonotone ==
  ASSUME NEW a \in Int, NEW b \in Int, NEW c \in Nat, a <= b
  PROVE  a * c <= b * c
OBVIOUS

LEMMA WholePart ==
  ASSUME NEW m \in Nat, NEW F \in Nat \ {0}
  PROVE  /\ m \div F \in Nat
         /\ (m \div F) * F <= m
         /\ m <= (m \div F + 1) * F
BY SMT

(* Nothing is truncated from a whole number of units.                      *)
LEMMA WholeQuotient ==
  ASSUME NEW v \in Nat, NEW F \in Nat \ {0}
  PROVE  (F * v) \div F = v /\ (F * v) % F = 0
BY SMT

(* A weighted mean lies between 0 and Full.                                *)
LEMMA MeanInRange ==
  ASSUME NEW F \in Nat \ {0}, NEW old \in 0..F, NEW new \in 0..F, NEW a \in 0..F
  PROVE  /\ (F - a) * old + a * new \in Nat
         /\ (F - a) * old + a * new <= F * F
<1>1. F - a \in Nat /\ old \in Nat /\ new \in Nat /\ a \in Nat
  OBVIOUS
<1>2. (F - a) * old \in Nat /\ a * new \in Nat
  BY <1>1
<1>3. old * (F - a) <= F * (F - a) /\ new * a <= F * a
  BY <1>1, TimesMonotone
<1>4. (F - a) * old = old * (F - a) /\ a * new = new * a
  BY <1>1
<1>5. F * (F - a) + F * a = F * F
  BY <1>1
<1> QED BY <1>2, <1>3, <1>4, <1>5

-----------------------------------------------------------------------------
(* One channel of one layer *)

(***************************************************************************)
(* What the code puts into a channel: a byte that is the exact mean or     *)
(* less, by at most one, and that is the layer's own value, or the old     *)
(* one, when the layer is opaque or not there at all.                      *)
(***************************************************************************)
LEMMA MixedFacts ==
  ASSUME NEW old \in 0..Full, NEW new \in 0..Full, NEW a \in 0..Full,
         NEW c \in Mixed(old, new, a)
  PROVE  /\ c \in 0..Full
         /\ c * Full <= (Full - a) * old + a * new
         /\ (Full - a) * old + a * new <= (c + 1) * Full
         /\ a = Full => c = new
         /\ a = 0 => c = old
<1> DEFINE num == (Full - a) * old + a * new
           q == num \div Full
<1>1. Full \in Nat \ {0}
  BY BlendAssumption DEF BlendAssumption
<1>2. num \in Nat /\ num <= Full * Full
  BY <1>1, MeanInRange
<1>3. PICK p \in Truncated(num, a) : c = Clamped(p)
  BY DEF Mixed
<1> HIDE DEF num
<1>4. q \in Nat /\ q * Full <= num /\ num <= (q + 1) * Full
  BY <1>1, <1>2, WholePart
<1>5. q <= Full
  <2>1. CASE q >= Full + 1
    <3>1. (Full + 1) * Full <= q * Full
      BY <1>1, <1>4, <2>1, TimesMonotone
    <3>2. (Full + 1) * Full = Full * Full + Full
      BY <1>1
    <3> QED BY <1>1, <1>2, <1>4, <3>1, <3>2
  <2> QED BY <1>1, <1>4, <2>1
<1>6. CASE num % Full = 0 /\ num # 0 /\ a \notin {0, Full} /\ p = q - 1
  <2>1. num = q * Full
    BY <1>1, <1>2, <1>6
  <2>2. q # 0
    BY <1>1, <1>6, <2>1
  <2>3. p \in 0..Full /\ c = p
    BY <1>1, <1>3, <1>4, <1>5, <1>6, <2>2 DEF Clamped
  <2>4. p * Full <= q * Full
    BY <1>1, <1>4, <1>6, <2>3, TimesMonotone
  <2>5. (c + 1) * Full = q * Full
    BY <1>1, <1>4, <1>6, <2>3
  <2>6. c * Full <= num /\ num <= (c + 1) * Full
    <3> HIDE DEF q
    <3> QED BY <1>1, <1>2, <2>1, <2>3, <2>4, <2>5
  <2>7. a # 0 /\ a # Full
    BY <1>6
  <2> QED BY <2>3, <2>6, <2>7 DEF num
<1>7. CASE p = q
  <2>1. c = q /\ c \in 0..Full
    BY <1>1, <1>3, <1>4, <1>5, <1>7 DEF Clamped
  <2>2. a = Full => q = new
    <3> SUFFICES ASSUME a = Full PROVE q = new
      OBVIOUS
    <3>1. num = Full * new
      BY <1>1 DEF num
    <3> QED BY <1>1, <3>1, WholeQuotient
  <2>3. a = 0 => q = old
    <3> SUFFICES ASSUME a = 0 PROVE q = old
      OBVIOUS
    <3>1. num = Full * old
      BY <1>1 DEF num
    <3> QED BY <1>1, <3>1, WholeQuotient
  <2> QED BY <1>4, <2>1, <2>2, <2>3 DEF num
<1> QED BY <1>3, <1>6, <1>7 DEF Truncated

-----------------------------------------------------------------------------
(* The stack *)

IInv == TypeOK /\ ErrorBounded

LEMMA StartIInv ==
  ASSUME pixel' = [colour |-> 0, alpha |-> 0], painted' = 0, exact' = 0, scale' = 1,
         rounded' = 0
  PROVE  IInv'
BY BlendAssumption DEF BlendAssumption, IInv, TypeOK, ErrorBounded, Pixel

(* A layer takes from the error of those below it and adds one of its own. *)
LEMMA PaintIInv ==
  ASSUME IInv, NEW layer \in [colour : Value, alpha : Value], Paint(layer)
  PROVE  IInv'
<1> DEFINE F == Full
           a == layer.alpha
           v == layer.colour
           o == pixel.colour
           num == (F - a) * o + a * v
<1>1. /\ F \in Nat \ {0} /\ a \in 0..F /\ v \in 0..F
      /\ o \in 0..F /\ pixel.alpha \in 0..F
      /\ exact \in Nat /\ scale \in Nat \ {0} /\ rounded \in Nat
      /\ painted \in 0..(MaxLayers - 1) /\ rounded <= painted /\ MaxLayers \in Nat
  <2>1. F \in Nat \ {0} /\ a \in 0..F /\ v \in 0..F /\ MaxLayers \in Nat
    BY BlendAssumption DEF BlendAssumption
  <2>2. o \in 0..F /\ pixel.alpha \in 0..F
    BY DEF IInv, TypeOK, Pixel
  <2>3. exact \in Nat /\ scale \in Nat \ {0} /\ painted \in 0..MaxLayers
        /\ rounded \in 0..painted
    BY DEF IInv, TypeOK
  <2>4. painted < MaxLayers
    BY DEF Paint
  <2> HIDE DEF F, a, v, o
  <2> QED BY <2>1, <2>2, <2>3, <2>4
<1>2. PICK c \in Mixed(o, v, a), t \in Mixed(pixel.alpha, a, a) :
        pixel' = [colour |-> c, alpha |-> t]
  BY DEF Paint
<1>3. /\ exact' = (F - a) * exact + a * v * scale
      /\ scale' = scale * F
      /\ painted' = painted + 1
      /\ rounded' = IF a = F THEN 0 ELSE IF a = 0 THEN rounded ELSE rounded + 1
  BY DEF Paint
<1>4. /\ c \in 0..F /\ c * F <= num /\ num <= (c + 1) * F
      /\ a = F => c = v
      /\ a = 0 => c = o
  BY <1>1, MixedFacts
<1>5. t \in 0..F
  BY <1>1, MixedFacts
<1>6. o * scale <= exact /\ exact <= (o + rounded) * scale
  BY DEF IInv, ErrorBounded
<1>7. pixel'.colour = c /\ pixel' \in Pixel
  BY <1>2, <1>4, <1>5 DEF Pixel
<1> HIDE DEF F, a, v, o
<1>8. F - a \in Nat /\ v \in Nat /\ o \in Nat /\ c \in Nat /\ a \in Nat /\ num \in Nat
  <2>1. F - a \in Nat /\ v \in Nat /\ o \in Nat /\ c \in Nat /\ a \in Nat
    BY <1>1, <1>4
  <2>2. (F - a) * o \in Nat /\ a * v \in Nat
    BY <2>1
  <2> QED BY <2>1, <2>2
<1>9. TypeOK'
  <2>1. (F - a) * exact \in Nat /\ a * v * scale \in Nat
    BY <1>1, <1>8
  <2>2. scale' \in Nat \ {0}
    BY <1>1, <1>3
  <2>3. rounded' \in 0..painted'
    BY <1>1, <1>3
  <2> QED BY <1>1, <1>3, <1>7, <2>1, <2>2, <2>3 DEF TypeOK
<1> DEFINE low == (F - a) * o * scale
<1>10. /\ num * scale = low + a * v * scale
       /\ low \in Nat
  <2>1. (F - a) * o \in Nat /\ a * v \in Nat
    BY <1>8
  <2> QED BY <1>1, <2>1
<1>11. low <= (F - a) * exact
  <2>1. (o * scale) * (F - a) <= exact * (F - a)
    BY <1>1, <1>6, <1>8, TimesMonotone
  <2>2. low = (o * scale) * (F - a) /\ (F - a) * exact = exact * (F - a)
    BY <1>1, <1>8
  <2> QED BY <2>1, <2>2
<1>12. c * scale' <= exact'
  <2>1. (c * F) * scale <= num * scale
    BY <1>1, <1>4, <1>8, TimesMonotone
  <2>2. c * scale' = (c * F) * scale
    BY <1>1, <1>3, <1>8
  <2> HIDE DEF num, low
  <2> QED BY <1>1, <1>3, <1>8, <1>10, <1>11, <2>1, <2>2
<1>13. exact' <= (c + rounded') * scale'
  <2>1. CASE a = F
    <3>1. exact' = F * v * scale /\ rounded' = 0 /\ c = v
      BY <1>1, <1>3, <1>4, <1>8, <2>1
    <3> QED BY <1>1, <1>3, <1>8, <3>1
  <2>2. CASE a = 0 /\ a # F
    <3>1. exact' = exact * F /\ rounded' = rounded /\ c = o
      BY <1>1, <1>3, <1>4, <1>8, <2>2
    <3>2. exact * F <= ((o + rounded) * scale) * F
      BY <1>1, <1>6, <1>8, TimesMonotone
    <3>3. ((o + rounded) * scale) * F = (o + rounded) * scale'
      BY <1>1, <1>3, <1>8
    <3> QED BY <3>1, <3>2, <3>3
  <2>3. CASE a # 0 /\ a # F
    <3> DEFINE err == rounded * scale
    <3>1. exact * (F - a) <= (o * scale + err) * (F - a)
      <4>1. (o + rounded) * scale = o * scale + err
        BY <1>1, <1>8
      <4>2. o * scale + err \in Nat
        BY <1>1, <1>8
      <4> HIDE DEF err
      <4> QED BY <1>1, <1>6, <1>8, <4>1, <4>2, TimesMonotone
    <3>2. (o * scale + err) * (F - a) = low + err * (F - a)
      BY <1>1, <1>8
    <3>3. err * (F - a) <= err * F
      <4>1. err \in Nat
        BY <1>1
      <4>2. (F - a) * err <= F * err
        BY <1>1, <1>8, <4>1, TimesMonotone
      <4> QED BY <1>1, <1>8, <4>1, <4>2
    <3>4. num * scale <= ((c + 1) * F) * scale
      <4>1. (c + 1) * F \in Nat
        BY <1>1, <1>8
      <4> QED BY <1>1, <1>4, <1>8, <4>1, TimesMonotone
    <3>5. rounded' = rounded + 1
      BY <1>3, <2>3
    <3>6. (c + rounded') * scale' = ((c + 1) * F) * scale + err * F
      BY <1>1, <1>3, <1>8, <3>5
    <3>7. (F - a) * exact = exact * (F - a)
      BY <1>1, <1>8
    <3>8. err * F \in Nat /\ err * (F - a) \in Nat /\ exact * (F - a) \in Nat
          /\ a * v * scale \in Nat /\ ((c + 1) * F) * scale \in Nat /\ num * scale \in Nat
      BY <1>1, <1>8
    <3>9. exact' = (F - a) * exact + a * v * scale
      BY <1>3
    <3> DEFINE s1 == (F - a) * exact
               s2 == exact * (F - a)
               s3 == a * v * scale
               s4 == err * (F - a)
               s5 == err * F
               s6 == num * scale
               s7 == ((c + 1) * F) * scale
               s8 == (c + rounded') * scale'
               s9 == (o * scale + err) * (F - a)
    <3>10. /\ exact' = s1 + s3 /\ s1 = s2 /\ s2 <= s9 /\ s9 = low + s4 /\ s4 <= s5
           /\ s6 = low + s3 /\ s6 <= s7 /\ s8 = s7 + s5
      BY <1>10, <3>1, <3>2, <3>3, <3>4, <3>6, <3>7, <3>9
    <3>11. /\ s2 \in Nat /\ s3 \in Nat /\ s4 \in Nat /\ s5 \in Nat
           /\ s6 \in Nat /\ s7 \in Nat /\ low \in Nat
      BY <1>10, <3>8
    <3>12. exact' <= s8
      <4> HIDE DEF num, low, err, s1, s2, s3, s4, s5, s6, s7, s8, s9
      <4> QED BY <3>10, <3>11
    <3> QED BY <3>12
  <2> QED BY <2>1, <2>2, <2>3
<1> QED BY <1>7, <1>9, <1>12, <1>13 DEF IInv, ErrorBounded

LEMMA NextIInv == IInv /\ [Next]_vars => IInv'
<1> SUFFICES ASSUME IInv, [Next]_vars PROVE IInv'
  OBVIOUS
<1>1. CASE Zero
  BY <1>1, StartIInv DEF Zero
<1>2. ASSUME NEW layer \in [colour : Value, alpha : Value], Paint(layer)
      PROVE  IInv'
  BY <1>2, PaintIInv
<1>3. CASE UNCHANGED vars
  BY <1>3 DEF vars, IInv, TypeOK, ErrorBounded
<1> QED BY <1>1, <1>2, <1>3 DEF Next

LEMMA InitIInv == Init => IInv
BY BlendAssumption DEF BlendAssumption, Init, IInv, TypeOK, ErrorBounded, Pixel

(***************************************************************************)
(* A channel stays a byte however many layers are painted: the clamps of   *)
(* Server.cpp:299-305 are never needed.                                    *)
(***************************************************************************)
THEOREM TypeCorrect == Spec => []TypeOK
<1>1. IInv => TypeOK
  BY DEF IInv
<1> QED BY <1>1, InitIInv, NextIInv, PTL DEF Spec

(***************************************************************************)
(* The picture is never brighter than the exact blend, and darker by at    *)
(* most one for each translucent layer above the last opaque one, for all  *)
(* channel widths, values and numbers of clients (Server.cpp:293-306).     *)
(***************************************************************************)
THEOREM ErrorsDoNotBuildUp == Spec => []ErrorBounded
<1>1. IInv => ErrorBounded
  BY DEF IInv
<1> QED BY <1>1, InitIInv, NextIInv, PTL DEF Spec
=============================================================================
