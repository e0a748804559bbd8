----------------------------- MODULE StripOrder -----------------------------
(***************************************************************************)
(* From a sketch's image to the LEDs (src/v2): data_generator.py orders    *)
(* the pixels the way the strip is laid out, expands them to pulses and    *)
(* ends the line with a newline; receiver.py splits the stream at the      *)
(* newlines, forward.py wraps each line in `*' and `#', and the Teensy     *)
(* reads up to the `#'.  (Module Pipeline says when; this one says what.)  *)
(*                                                                         *)
(* Pixels are numbered from 0 as in the source: pixel p is pixels[p + 1].  *)
(***************************************************************************)
EXTENDS Integers, Sequences, SequencesExt

CONSTANTS
  Size,        \* dimensions of walls, <<width, height>>
  Colour,      \* colours of pixels, <<r, g, b>>
  Brightness,  \* in percent
  MaxPaints    \* bound: pixels painted

Byte == 0..255

ASSUME StripOrderAssumption ==
  /\ \A s \in Size : s \in (Nat \ {0}) \X (Nat \ {0})
  /\ Colour \subseteq Byte \X Byte \X Byte
  /\ Brightness \in Nat
  /\ MaxPaints \in Nat

VARIABLES
  width, height, type, long_line,  \* the installation
  pixels,   \* the sketch's image
  paints,   \* how many pixels have been painted
  stream,   \* what send_TCP() has written and the wall not shown
  sent,     \* history: the image send_TCP() was last called with
  leds      \* what the strip shows, in the order of the strip

installation == <<width, height, type, long_line>>
vars == <<installation, pixels, paints, stream, sent, leds>>

Type == 0..7
Vertical == {0, 2, 4, 6}
NL == 10
Star == 42
Hash == 35

-----------------------------------------------------------------------------
(* make_line: the indices of the pixels of line nb *)

\* Slip: rows and columns are mixed up in one of the cases.
Start_Height(t, nb) ==
  CASE t = 0 -> nb
    [] t = 1 -> nb * width
    [] t = 2 -> width * (height - 1) + nb
    [] t = 3 -> width * (height - 1) - nb * height
    [] t = 4 -> width - 1 - nb
    [] t = 5 -> width - 1 + nb * width
    [] t = 6 -> width * height - 1 - nb * height
    [] t = 7 -> width * height - 1 - nb * width
Start(t, nb) ==
  CASE t = 0 -> nb
    [] t = 1 -> nb * width
    [] t = 2 -> width * (height - 1) + nb
    [] t = 3 -> width * (height - 1) - nb * width
    [] t = 4 -> width - 1 - nb
    [] t = 5 -> width - 1 + nb * width
    [] t = 6 -> width * height - 1 - nb * height
    [] t = 7 -> width * height - 1 - nb * width

Step(t) ==
  CASE t \in {0, 4} -> width
    [] t \in {2, 6} -> -width
    [] t \in {1, 3} -> 1
    [] t \in {5, 7} -> -1

\* A negative index counts from the end, as in Python.
Pixel(px) == pixels[(px % (width * height)) + 1]

make_line(t, nb) ==
  LET count == IF t \in Vertical THEN height ELSE width
      line == [h \in 1..count |-> Pixel(Start(t, nb) + (h - 1) * Step(t))]
  IN IF long_line /\ nb % 2 = 1 THEN Reverse(line) ELSE line

-----------------------------------------------------------------------------
(* image2data: pixel after pixel, 24 pulses each, in the order green, red, *)
(* blue; brightness is cut off in prepare_data.                            *)

brightness_max == 50
brightness == IF Brightness > brightness_max THEN brightness_max ELSE Brightness

Dimmed(v) == (v * brightness) \div 100

\* The bits of a byte, the highest first.
Bits(v) == [j \in 1..8 |-> (v \div 2^(8 - j)) % 2]

\* Slip: the byte itself is sent for each of its bits.
Pulses_Raw(v) == [j \in 1..8 |-> v]
Pulses(v) == [j \in 1..8 |-> Bits(v)[j] * 255]

_encode_pixel(c) == Pulses(Dimmed(c[2])) \o Pulses(Dimmed(c[1])) \o Pulses(Dimmed(c[3]))

\* Slip: the lines are counted without regard to their direction.
Lines_Width(t) == width
Lines(t) == IF t \in Vertical THEN width ELSE height

image2data ==
  LET image == FlattenSeq([x \in 1..Lines(type) |-> make_line(type, x - 1)])
  IN FlattenSeq([k \in 1..Len(image) |-> _encode_pixel(image[k])]) \o <<NL>>

-----------------------------------------------------------------------------
(* The way of a line to the strip *)

\* What readline() and strip() make of a stream that starts with a line.
Whitespace == {9, 10, 11, 12, 13, 32}
Stripped(s) ==
  LET end == CHOOSE n \in 1..Len(s) : s[n] = NL /\ \A m \in 1..n - 1 : s[m] # NL
      dark == {n \in 1..end : s[n] \notin Whitespace}
  IN IF dark = {} THEN << >> ELSE SubSeq(s, Min(dark), Max(dark))

Wrapped(line) == <<Star>> \o line \o <<Hash>>

\* readBytesUntil: what lies between the `*' and the first `#'.
BytesRead(s) ==
  LET end == CHOOSE n \in 1..Len(s) : s[n] = Hash /\ \A m \in 1..n - 1 : s[m] # Hash
  IN SubSeq(s, 2, end - 1)

\* A LED takes 24 bytes; of each, the lowest bit drives the first strip.
Value(bytes, at) ==
  LET bit(j) == (bytes[at + j] % 2) * 2^(8 - j)
  IN bit(1) + bit(2) + bit(3) + bit(4) + bit(5) + bit(6) + bit(7) + bit(8)

Led(bytes, k, old) ==
  IF 24 * k <= Len(bytes)
  THEN LET at == 24 * (k - 1)
       IN <<Value(bytes, at + 8), Value(bytes, at), Value(bytes, at + 16)>>
  ELSE old

-----------------------------------------------------------------------------
Black == <<0, 0, 0>>

Init ==
  /\ \E s \in Size : width = s[1] /\ height = s[2]
  /\ type \in Type
  /\ long_line \in BOOLEAN
  /\ pixels = [p \in 1..width * height |-> Black]
  /\ paints = 0
  /\ stream = << >>
  /\ sent = << >>
  /\ leds = pixels

Paint(p, c) ==
  /\ paints < MaxPaints
  /\ paints' = paints + 1
  /\ pixels' = [pixels EXCEPT ![p] = c]
  /\ UNCHANGED <<installation, stream, sent, leds>>

send_TCP ==
  /\ stream = << >>
  /\ stream' = image2data
  /\ sent' = pixels
  /\ UNCHANGED <<installation, pixels, paints, leds>>

\* receiver, forwarder and Teensy
Show ==
  /\ stream # << >>
  /\ LET bytes == BytesRead(Wrapped(Stripped(stream)))
     IN leds' = [k \in DOMAIN leds |-> Led(bytes, k, leds[k])]
  /\ stream' = << >>
  /\ UNCHANGED <<installation, pixels, paints, sent>>

Next ==
  \/ \E p \in DOMAIN pixels, c \in Colour : Paint(p, c)
  \/ send_TCP
  \/ Show

Spec == Init /\ [][Next]_vars

-----------------------------------------------------------------------------
(* Properties *)

Rgb == Byte \X Byte \X Byte

TypeOK ==
  /\ <<width, height>> \in Size
  /\ type \in Type
  /\ long_line \in BOOLEAN
  /\ pixels \in [1..width * height -> Colour \union {Black}]
  /\ paints \in 0..MaxPaints
  /\ stream # << >> => stream \in [1..24 * width * height + 1 -> Byte]
  /\ sent # << >> => sent \in [1..width * height -> Colour \union {Black}]
  /\ leds \in [1..width * height -> Rgb]

(***************************************************************************)
(* Where the strip runs, by the drawings of readme.md and the comments in  *)
(* make_line: from the corner and in the direction that belong to the      *)
(* type; a long line turns round at the end of every column (row), the     *)
(* others start again on the same side.                                    *)
(***************************************************************************)
FromRight == {4, 6} \union {5, 7}
FromBottom == {2, 6} \union {3, 7}

Place(x, y) ==
  LET across == IF type \in FromRight THEN width - 1 - x ELSE x
      down == IF type \in FromBottom THEN height - 1 - y ELSE y
      nb == IF type \in Vertical THEN across ELSE down
      along == IF type \in Vertical THEN down ELSE across
      length == IF type \in Vertical THEN height ELSE width
  IN nb * length + (IF long_line /\ nb % 2 = 1 THEN length - 1 - along ELSE along)

\* At every place the LED that hangs there has the colour of the pixel.
ShowsImage ==
  \A x \in 0..width - 1, y \in 0..height - 1 :
    leds[Place(x, y) + 1] =
      LET c == sent[y * width + x + 1] IN <<Dimmed(c[1]), Dimmed(c[2]), Dimmed(c[3])>>

Settled == sent # << >> /\ stream = << >>

(***************************************************************************)
(* The wall shows the image that was sent, on each type of installation    *)
(* and with long and short lines; type 6 only on a wall of a single row or *)
(* column (see below).                                                     *)
(***************************************************************************)
WallShowsImage == Settled /\ (type = 6 => 1 \in {width, height}) => ShowsImage

(***************************************************************************)
(* make_line calls every one of its types OK, type 6 too ("bottom right -> *)
(* up / OK", 94).  But it steps from column to column by nb * height where *)
(* the others step by nb (95).                                             *)
(***************************************************************************)
EveryTypeIsOK == Settled => ShowsImage

(***************************************************************************)
(* The bytes of an image never look like the end of a line: not for        *)
(* readline() and strip() of the receiver, not for the `#' the Teensy      *)
(* waits for.                                                              *)
(***************************************************************************)
StaysOneLine ==
  \A k \in 1..Len(stream) - 1 : stream[k] \notin Whitespace \union {Star, Hash}
=============================================================================
