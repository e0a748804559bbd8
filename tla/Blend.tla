-------------------------------- MODULE Blend --------------------------------
(***************************************************************************)
(* What painting the layers of a mix does to one window (or segment) of    *)
(* Server::frame, lines 261-330 of src/frameserver/Server.cpp.             *)
(*                                                                         *)
(* All channels but the last are blended alike, so one colour stands for   *)
(* the three; the last channel is the opacity.  The exact blend of old and *)
(* new at opacity a is ((Full - a) * old + a * new) / Full.  The code      *)
(* computes it in floats and truncates: the result is the whole part, or,  *)
(* when the exact value is a whole number and both summands count, what    *)
(* the rounding of the two products makes of it: that number or one less.  *)
(* (For Full = 255 single precision yields one less for 15467 of the       *)
(* 16777216 combinations, and more than the whole part for none.)          *)
(***************************************************************************)
EXTENDS Integers

CONSTANTS
  Full,       \* the largest channel value, 255
  Value,      \* the channel values that occur
  MaxLayers   \* bound: the number of layers painted in one mix

ASSUME BlendAssumption ==
  /\ Full \in Nat \ {0}
  /\ Value \subseteq 0..Full
  /\ MaxLayers \in Nat

VARIABLES
  pixel,      \* [colour, alpha] in Server::frame
  painted,    \* how many layers were painted since the frame was zeroed
  \* history: the colour without any truncation is exact / scale
  exact, scale,
  rounded     \* how many translucent layers there are above the last opaque one

vars == <<pixel, painted, exact, scale, rounded>>

Pixel == [colour : 0..Full, alpha : 0..Full]

\* The values `pixel` can get from the exact value num / Full.
\* Slip: rounding to the nearest.
Truncated_Nearest(num, a) == {(num + Full \div 2 + 1) \div Full}
Truncated(num, a) ==
  IF num % Full = 0 /\ num # 0 /\ a \notin {0, Full}
  THEN {num \div Full, num \div Full - 1}
  ELSE {num \div Full}

Clamped(p) == IF p >= Full THEN Full ELSE IF p <= 0 THEN 0 ELSE p

\* Slip: the layer is added unclamped.
Mixed_Additive(old, new, a) == Truncated(Full * old + a * new, a)
Mixed(old, new, a) ==
  {Clamped(p) : p \in Truncated((Full - a) * old + a * new, a)}

Init ==
  /\ pixel = [colour |-> 0, alpha |-> 0]
  /\ painted = 0
  /\ exact = 0
  /\ scale = 1
  /\ rounded = 0

(* mix() starts over. *)
Zero ==
  /\ painted # 0
  /\ pixel' = [colour |-> 0, alpha |-> 0]
  /\ painted' = 0
  /\ exact' = 0
  /\ scale' = 1
  /\ rounded' = 0

(* One more buffer: every channel is blended with the layer's opacity. *)
Paint(layer) ==
  /\ painted < MaxLayers
  /\ \E c \in Mixed(pixel.colour, layer.colour, layer.alpha),
        o \in Mixed(pixel.alpha, layer.alpha, layer.alpha) :
       pixel' = [colour |-> c, alpha |-> o]
  /\ painted' = painted + 1
  /\ exact' = (Full - layer.alpha) * exact + layer.alpha * layer.colour * scale
  /\ scale' = scale * Full
  /\ rounded' = IF layer.alpha = Full THEN 0
                ELSE IF layer.alpha = 0 THEN rounded ELSE rounded + 1

Next == Zero \/ \E layer \in [colour : Value, alpha : Value] : Paint(layer)

Spec == Init /\ [][Next]_vars

-----------------------------------------------------------------------------

(* The channels stay bytes. *)
TypeOK ==
  /\ pixel \in Pixel
  /\ painted \in 0..MaxLayers
  /\ exact \in Nat
  /\ scale \in Nat \ {0}
  /\ rounded \in 0..painted

(***************************************************************************)
(* Truncation only ever darkens, and by at most one for each translucent   *)
(* layer above the last opaque one: errors do not build up along the stack *)
(* of clients, and what lies under an opaque layer leaves no trace         *)
(* (Server.cpp:293-306).                                                   *)
(***************************************************************************)
ErrorBounded ==
  /\ pixel.colour * scale <= exact
  /\ exact <= (pixel.colour + rounded) * scale
=============================================================================
