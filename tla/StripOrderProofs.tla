-------------------------- MODULE StripOrderProofs --------------------------
(***************************************************************************)
(* Proofs about StripOrder, for every size of the wall, every palette and  *)
(* every brightness: TypeOK, StaysOneLine and WallShowsImage are           *)
(* invariants.                                                             *)
(*                                                                         *)
(* The argument follows an image down the strip.  The LED that is h-th in  *)
(* line x is the LedOf(x, h)-th of the strip, and shows pixel Spot(x, h).  *)
(* What send_TCP writes holds the pulses of that pixel at the place of     *)
(* that LED (ImageData), nothing on the way cuts or shifts the line        *)
(* (LineArrives), eight pulses are the byte they were made from            *)
(* (ValueOfPulses), and the LED LedOf(x, h) hangs where the pixel          *)
(* Spot(x, h) is (PlaceOfSpot) -- on type 6 only if the wall is a single   *)
(* row or column.                                                          *)
(***************************************************************************)
EXTENDS StripOrder, SequenceLemmas

-----------------------------------------------------------------------------
(* Bits and pulses                                                         *)

(* prepare_data cuts the brightness off.                                   *)
LEMMA SomeBrightness == brightness \in 0..50
  BY StripOrderAssumption DEF brightness, brightness_max

(* Bytes, by their bounds.                                                 *)
LEMMA ByteBounds ==
  ASSUME NEW v
  PROVE  v \in Byte <=> v \in Int /\ 0 <= v /\ v <= 255
  BY DEF Byte

(* A byte times at most fifty percent is a byte again.                     *)
LEMMA PercentOf ==
  ASSUME NEW p \in Int, 0 <= p, p <= 255 * 50
  PROVE  p \div 100 \in Int /\ 0 <= p \div 100 /\ p \div 100 <= 255
  OBVIOUS

(* Dimming a colour leaves bytes.                                          *)
LEMMA DimmedIsByte ==
  ASSUME NEW v \in Byte
  PROVE  Dimmed(v) \in Byte
<1>1. v \in Int /\ 0 <= v /\ v <= 255
  BY ByteBounds
<1>2. brightness \in Int /\ 0 <= brightness /\ brightness <= 50
  BY SomeBrightness
<1>3. PICK p \in Int : p = v * brightness
  BY <1>1, <1>2
<1>4. 0 <= p /\ p <= 255 * 50
  BY <1>1, <1>2, <1>3
<1>5. p \div 100 \in Int /\ 0 <= p \div 100 /\ p \div 100 <= 255
  BY <1>4, PercentOf
<1>6. Dimmed(v) = p \div 100
  BY <1>3 DEF Dimmed
<1> QED BY <1>5, <1>6, ByteBounds

(* A byte gives eight pulses; each is all ones or all zeros, and its       *)
(* lowest bit is the bit it stands for.                                    *)
LEMMA EightPulses ==
  ASSUME NEW v \in Byte
  PROVE  /\ Pulses(v) \in Seq({0, 255})
         /\ Len(Pulses(v)) = 8
         /\ \A j \in 1..8 : Pulses(v)[j] % 2 = Bits(v)[j]
  BY DEF Pulses, Bits, Byte

(* Eight pulses, as the strip reads them, are the byte they were made of.  *)
LEMMA ValueOfPulses ==
  ASSUME NEW v \in Byte, NEW bytes, NEW at \in Nat, Holds(bytes, at, Pulses(v))
  PROVE  Value(bytes, at) = v
<1>1. /\ v \div 128 = 2 * (v \div 256) + ((v \div 128) % 2)
      /\ v \div 64 = 2 * (v \div 128) + ((v \div 64) % 2)
      /\ v \div 32 = 2 * (v \div 64) + ((v \div 32) % 2)
      /\ v \div 16 = 2 * (v \div 32) + ((v \div 16) % 2)
      /\ v \div 8 = 2 * (v \div 16) + ((v \div 8) % 2)
      /\ v \div 4 = 2 * (v \div 8) + ((v \div 4) % 2)
      /\ v \div 2 = 2 * (v \div 4) + ((v \div 2) % 2)
      /\ v = 2 * (v \div 2) + (v % 2)
      /\ v \div 256 = 0
  BY DEF Byte
<1>2. /\ Bits(v)[1] = (v \div 128) % 2
      /\ Bits(v)[2] = (v \div 64) % 2
      /\ Bits(v)[3] = (v \div 32) % 2
      /\ Bits(v)[4] = (v \div 16) % 2
      /\ Bits(v)[5] = (v \div 8) % 2
      /\ Bits(v)[6] = (v \div 4) % 2
      /\ Bits(v)[7] = (v \div 2) % 2
      /\ Bits(v)[8] = v % 2
  BY DEF Bits, Byte
<1>3. \A j \in 1..8 : bytes[at + j] % 2 = Bits(v)[j]
  <2>1. \A j \in 1..8 : bytes[at + j] = Pulses(v)[j]
    BY EightPulses, Zenon DEF Holds
  <2> QED BY <2>1, EightPulses, Zenon
<1> QED BY <1>1, <1>2, <1>3 DEF Value, Byte

(* Whatever pulses there are, eight of them are a byte.                    *)
LEMMA ValueIsByte ==
  ASSUME NEW bytes, NEW at \in Nat, \A j \in 1..8 : bytes[at + j] \in Byte
  PROVE  Value(bytes, at) \in Byte
<1>1. \A b \in Byte : b % 2 \in 0..1
  BY DEF Byte
<1>2. \A j \in 1..8 : bytes[at + j] % 2 \in 0..1
  BY <1>1
<1> HIDE DEF Byte
<1>3. ASSUME NEW b1 \in 0..1, NEW b2 \in 0..1, NEW b3 \in 0..1, NEW b4 \in 0..1,
             NEW b5 \in 0..1, NEW b6 \in 0..1, NEW b7 \in 0..1, NEW b8 \in 0..1
      PROVE  b1 * 2^(8 - 1) + b2 * 2^(8 - 2) + b3 * 2^(8 - 3) + b4 * 2^(8 - 4)
             + b5 * 2^(8 - 5) + b6 * 2^(8 - 6) + b7 * 2^(8 - 7) + b8 * 2^(8 - 8) \in Byte
  BY DEF Byte
<1> QED BY <1>2, <1>3 DEF Value

(* What a LED is to show for a colour of the image.                        *)
Shown(c) == <<Dimmed(c[1]), Dimmed(c[2]), Dimmed(c[3])>>

(* A pixel is 24 pulses: green, red, blue.                                 *)
LEMMA EncodedPixel ==
  ASSUME NEW c \in Rgb
  PROVE  /\ _encode_pixel(c) \in Seq({0, 255})
         /\ Len(_encode_pixel(c)) = 24
         /\ Holds(_encode_pixel(c), 0, Pulses(Dimmed(c[2])))
         /\ Holds(_encode_pixel(c), 8, Pulses(Dimmed(c[1])))
         /\ Holds(_encode_pixel(c), 16, Pulses(Dimmed(c[3])))
<1> DEFINE green == Pulses(Dimmed(c[2]))
           red == Pulses(Dimmed(c[1]))
           blue == Pulses(Dimmed(c[3]))
           S == {0, 255}
<1>1. c[1] \in Byte /\ c[2] \in Byte /\ c[3] \in Byte
  BY DEF Rgb
<1>2. Dimmed(c[1]) \in Byte /\ Dimmed(c[2]) \in Byte /\ Dimmed(c[3]) \in Byte
  BY <1>1, DimmedIsByte
<1>3. /\ green \in Seq(S) /\ Len(green) = 8
      /\ red \in Seq(S) /\ Len(red) = 8
      /\ blue \in Seq(S) /\ Len(blue) = 8
  BY <1>2, EightPulses, Zenon
<1>4. _encode_pixel(c) = (green \o red) \o blue
  BY DEF _encode_pixel
<1> HIDE DEF green, red, blue, S
<1>5. /\ green \o red \in Seq(S)
      /\ Len(green \o red) = 16
      /\ Holds(green \o red, 0, green)
      /\ Holds(green \o red, 8, red)
  <2>1. /\ green \o red \in Seq(S)
        /\ Len(green \o red) = Len(green) + Len(red)
        /\ Holds(green \o red, 0, green)
        /\ Holds(green \o red, Len(green), red)
    BY <1>3, ConcatEntries, Zenon
  <2> QED BY <1>3, <2>1
<1>6. /\ (green \o red) \o blue \in Seq(S)
      /\ Len((green \o red) \o blue) = 24
      /\ Holds((green \o red) \o blue, 0, green \o red)
      /\ Holds((green \o red) \o blue, 16, blue)
  <2> DEFINE both == green \o red
  <2>1. both \in Seq(S) /\ Len(both) = 16
    BY <1>5
  <2> HIDE DEF both
  <2>2. /\ both \o blue \in Seq(S)
        /\ Len(both \o blue) = Len(both) + Len(blue)
        /\ Holds(both \o blue, 0, both)
        /\ Holds(both \o blue, Len(both), blue)
    BY <1>3, <2>1, ConcatEntries, Zenon
  <2>3. /\ both \o blue \in Seq(S)
        /\ Len(both \o blue) = 24
        /\ Holds(both \o blue, 0, both)
        /\ Holds(both \o blue, 16, blue)
    BY <1>3, <2>1, <2>2
  <2> QED BY <2>3, Zenon DEF both
<1>0. 0 \in Nat /\ 8 \in Nat /\ 0 + Len(green) <= Len(green \o red) /\ 8 + Len(red) <= Len(green \o red)
  BY <1>3, <1>5
<1>7. Holds((green \o red) \o blue, 0 + 0, green)
  BY <1>0, <1>3, <1>5, <1>6, HoldsPart, Zenon
<1>8. Holds((green \o red) \o blue, 0 + 8, red)
  BY <1>0, <1>3, <1>5, <1>6, HoldsPart, Zenon
<1>9. 0 + 0 = 0 /\ 0 + 8 = 8
  OBVIOUS
<1>10. /\ Holds((green \o red) \o blue, 0, green)
       /\ Holds((green \o red) \o blue, 8, red)
  BY <1>7, <1>8, <1>9
<1> QED BY <1>4, <1>6, <1>10, Zenon DEF green, red, blue, S

(* A LED behind the 24 pulses of a pixel shows its colour.                 *)
LEMMA LedOfPixel ==
  ASSUME NEW c \in Rgb, NEW S, NEW bytes \in Seq(S), NEW k \in Nat \ {0}, NEW old,
         24 * k <= Len(bytes), Holds(bytes, 24 * (k - 1), _encode_pixel(c))
  PROVE  Led(bytes, k, old) = Shown(c)
<1> DEFINE at == 24 * (k - 1)
<1>1. c[1] \in Byte /\ c[2] \in Byte /\ c[3] \in Byte
  BY DEF Rgb
<1>2. Dimmed(c[1]) \in Byte /\ Dimmed(c[2]) \in Byte /\ Dimmed(c[3]) \in Byte
  BY <1>1, DimmedIsByte
<1>3. at \in Nat /\ at + 8 \in Nat /\ at + 16 \in Nat /\ at + 0 = at
  OBVIOUS
<1>4. Led(bytes, k, old) = <<Value(bytes, at + 8), Value(bytes, at), Value(bytes, at + 16)>>
  BY DEF Led
<1>5. Holds(bytes, at, _encode_pixel(c))
  OBVIOUS
<1> HIDE DEF at
<1>6. ASSUME NEW i \in {0, 8, 16}, NEW v \in Byte, Holds(_encode_pixel(c), i, Pulses(v))
      PROVE  Holds(bytes, at + i, Pulses(v))
  <2>1. \A p \in 1..24 : bytes[at + p] = _encode_pixel(c)[p]
    BY <1>5, EncodedPixel, Zenon DEF Holds
  <2>2. \A p \in 1..8 : _encode_pixel(c)[i + p] = Pulses(v)[p]
    BY <1>6, EightPulses, Zenon DEF Holds
  <2>3. \A p \in 1..8 : i + p \in 1..24 /\ at + (i + p) = at + i + p
    BY <1>3
  <2>4. \A p \in 1..8 : bytes[at + i + p] = Pulses(v)[p]
    BY <2>1, <2>2, <2>3
  <2> QED BY <2>4, EightPulses, Zenon DEF Holds
<1>7. Holds(bytes, at + 0, Pulses(Dimmed(c[2])))
  BY <1>2, <1>6, EncodedPixel
<1>8. Holds(bytes, at + 8, Pulses(Dimmed(c[1])))
  BY <1>2, <1>6, EncodedPixel
<1>9. Holds(bytes, at + 16, Pulses(Dimmed(c[3])))
  BY <1>2, <1>6, EncodedPixel
<1>10. /\ Value(bytes, at + 8) = Dimmed(c[1])
       /\ Value(bytes, at + 0) = Dimmed(c[2])
       /\ Value(bytes, at + 16) = Dimmed(c[3])
  BY <1>2, <1>3, <1>7, <1>8, <1>9, ValueOfPulses
<1> QED BY <1>3, <1>4, <1>10 DEF Shown

-----------------------------------------------------------------------------
(* Lines, LEDs and pixels                                                  *)

\* How many lines the strip has, and how long they are.
Rows == IF type \in Vertical THEN width ELSE height
Length == IF type \in Vertical THEN height ELSE width

\* Where the h-th LED of line x is on the strip, and which pixel it shows.
LedOf(x, h) == Length * (x - 1) + h
Turned(x, h) == IF long_line /\ (x - 1) % 2 = 1 THEN Length - h ELSE h - 1
Spot(x, h) == ((Start(type, x - 1) + Turned(x, h) * Step(type)) % (width * height)) + 1

Installed ==
  /\ width \in Nat \ {0}
  /\ height \in Nat \ {0}
  /\ type \in Type
  /\ long_line \in BOOLEAN

(* Lines of the same length cover the wall.                                *)
LEMMA Measures ==
  ASSUME Installed
  PROVE  /\ Rows \in Nat \ {0}
         /\ Length \in Nat \ {0}
         /\ Length * Rows = width * height
         /\ width * height \in Nat \ {0}
         /\ Lines(type) = Rows
         /\ 24 * width * height = 24 * (width * height)
  BY DEF Installed, Rows, Length, Lines

(* A line starts and steps within the image, modulo its size.              *)
LEMMA SpotRange ==
  ASSUME Installed, NEW x \in 1..Rows, NEW h \in 1..Length
  PROVE  Spot(x, h) \in 1..width * height
<1>1. x - 1 \in Nat /\ Turned(x, h) \in Int
  BY Measures DEF Turned
<1>2. Start(type, x - 1) \in Int
  BY <1>1, Measures DEF Start, Type, Installed
<1>3. Step(type) \in Int
  BY DEF Step, Type, Vertical, Installed
<1> DEFINE px == Start(type, x - 1) + Turned(x, h) * Step(type)
           n == width * height
<1>4. px \in Int /\ n \in Nat \ {0}
  BY <1>1, <1>2, <1>3, Measures
<1>5. Spot(x, h) = (px % n) + 1
  BY DEF Spot
<1> HIDE DEF px, n
<1>6. px % n \in 0..n - 1
  BY <1>4
<1>7. Spot(x, h) \in 1..n
  BY <1>4, <1>5, <1>6
<1> QED BY <1>7 DEF n

(* A LED of a line is on the strip.                                        *)
LEMMA LedRange ==
  ASSUME Installed, NEW x \in 1..Rows, NEW h \in 1..Length
  PROVE  LedOf(x, h) \in 1..width * height
<1>1. Position(Length, x, h) \in 1..Length * Rows
  BY Measures, PositionRange
<1> QED BY <1>1, Measures DEF LedOf, Position

AtItsPlace(x, y) ==
  \E nb \in 1..Rows, h \in 1..Length :
    Place(x, y) + 1 = LedOf(nb, h) /\ Spot(nb, h) = y * width + x + 1

(* At each place hangs the LED of the pixel of that place.                 *)
LEMMA PlaceOfSpot ==
  ASSUME Installed, type = 6 => 1 \in {width, height},
         NEW x \in 0..width - 1, NEW y \in 0..height - 1
  PROVE  AtItsPlace(x, y)
<1> DEFINE across == IF type \in FromRight THEN width - 1 - x ELSE x
           down == IF type \in FromBottom THEN height - 1 - y ELSE y
           nb == IF type \in Vertical THEN across ELSE down
           along == IF type \in Vertical THEN down ELSE across
           turned == IF long_line /\ nb % 2 = 1 THEN Length - 1 - along ELSE along
           px == y * width + x
<1>1. across \in 0..width - 1 /\ down \in 0..height - 1
  BY DEF Installed
<1>2. nb \in 0..Rows - 1 /\ along \in 0..Length - 1
  BY <1>1 DEF Rows, Length
<1>3. turned \in 0..Length - 1
  BY <1>2, Measures
<1>4. Place(x, y) = nb * Length + turned
  BY DEF Place, Length
<1>5. Turned(nb + 1, turned + 1) = along
  <2>1. (nb + 1) - 1 = nb /\ (turned + 1) - 1 = turned
    BY <1>2, <1>3, Measures
  <2>2. Length - (turned + 1) = Length - 1 - turned
    <3>1. Length \in Int /\ turned \in Int
      BY <1>3, Measures
    <3> HIDE DEF turned
    <3> QED BY <3>1
  <2> QED BY <2>1, <2>2, <1>2, Measures DEF Turned
<1>6. Start(type, nb) + along * Step(type) = px
  <2>1. type \in 0..7
    BY DEF Installed, Type
  <2>2. CASE type = 0
    BY <2>2 DEF Start, Step, Vertical, FromRight, FromBottom, Installed
  <2>3. CASE type = 1
    BY <2>3 DEF Start, Step, Vertical, FromRight, FromBottom, Installed
  <2>4. CASE type = 2
    BY <2>4 DEF Start, Step, Vertical, FromRight, FromBottom, Installed
  <2>5. CASE type = 3
    BY <2>5 DEF Start, Step, Vertical, FromRight, FromBottom, Installed
  <2>6. CASE type = 4
    BY <2>6 DEF Start, Step, Vertical, FromRight, FromBottom, Installed
  <2>7. CASE type = 5
    BY <2>7 DEF Start, Step, Vertical, FromRight, FromBottom, Installed
  <2>8. CASE type = 6
    BY <2>8 DEF Start, Step, Vertical, FromRight, FromBottom, Installed
  <2>9. CASE type = 7
    BY <2>9 DEF Start, Step, Vertical, FromRight, FromBottom, Installed
  <2> QED BY <2>1, <2>2, <2>3, <2>4, <2>5, <2>6, <2>7, <2>8, <2>9
<1>7. px \in 0..width * height - 1
  <2>1. width \in Nat /\ y \in Int /\ height - 1 \in Int /\ y <= height - 1
    BY DEF Installed
  <2>2. width * y <= width * (height - 1)
    BY <2>1, TimesMonotonic
  <2>3. width * y \in Nat /\ width * y = y * width /\ width * (height - 1) = width * height - width
    BY DEF Installed
  <2>4. x \in 0..width - 1 /\ width \in Nat /\ width * height \in Nat /\ width * height - width \in Int
    BY Measures DEF Installed
  <2>5. width * y <= width * height - width
    BY <2>2, <2>3
  <2>6. width * y + x \in 0..width * height - 1
    BY <2>3, <2>4, <2>5
  <2> QED BY <2>3, <2>6
<1>8. (nb + 1) - 1 = nb /\ nb + 1 \in 1..Rows /\ turned + 1 \in 1..Length
  BY <1>2, <1>3, Measures
<1> HIDE DEF nb, turned, along, px
<1>9. Spot(nb + 1, turned + 1) = (px % (width * height)) + 1
  BY <1>5, <1>6, <1>8, Zenon DEF Spot
<1>10. px % (width * height) = px
  <2> DEFINE n == width * height
  <2>1. n \in Nat \ {0} /\ px \in 0..n - 1
    BY <1>7, Measures
  <2> HIDE DEF n
  <2>2. px % n = px
    BY <2>1
  <2> QED BY <2>2 DEF n
<1>11. LedOf(nb + 1, turned + 1) = Length * nb + (turned + 1)
  BY <1>8, Zenon DEF LedOf
<1>12. Place(x, y) + 1 = LedOf(nb + 1, turned + 1)
  BY <1>2, <1>3, <1>4, <1>11, Measures
<1>13. Spot(nb + 1, turned + 1) = y * width + x + 1
  BY <1>9, <1>10, Zenon DEF px
<1> QED BY <1>8, <1>12, <1>13, Zenon DEF AtItsPlace

-----------------------------------------------------------------------------
(* From image to stream, from stream to strip                              *)

Imaged == pixels \in [1..width * height -> Rgb]

(* Entry h of line x is the pixel that LED shows.                          *)
LEMMA LineOfPixels ==
  ASSUME Installed, Imaged, NEW x \in 1..Rows
  PROVE  /\ make_line(type, x - 1) \in Seq(Rgb)
         /\ Len(make_line(type, x - 1)) = Length
         /\ \A h \in 1..Length : make_line(type, x - 1)[h] = pixels[Spot(x, h)]
<1> DEFINE turn == long_line /\ (x - 1) % 2 = 1
           at(i) == Start(type, x - 1) + i * Step(type)
           line == [h \in 1..Length |-> Pixel(at(h - 1))]
<1>1. make_line(type, x - 1) = IF turn THEN Reverse(line) ELSE line
  BY DEF make_line, Length
<1>2. ASSUME NEW h \in 1..Length
      PROVE  pixels[Spot(x, h)] = Pixel(at(IF turn THEN Length - h ELSE h - 1))
  BY Zenon DEF Spot, Turned, Pixel
<1>3. ASSUME NEW h \in 1..Length
      PROVE  pixels[Spot(x, h)] \in Rgb
  BY SpotRange DEF Imaged
<1>4. Length \in Nat /\ \A h \in 1..Length : (Length - h) + 1 \in 1..Length /\ ((Length - h) + 1) - 1 = Length - h
  BY Measures
<1> HIDE DEF at
<1>5. CASE turn
  <2>1. \A h \in 1..Length : Pixel(at(Length - h)) \in Rgb /\ pixels[Spot(x, h)] = Pixel(at(Length - h))
    BY <1>2, <1>3, <1>5
  <2>2. ASSUME NEW h \in 1..Length
        PROVE  Pixel(at(h - 1)) \in Rgb
    <3>1. (Length - h) + 1 \in 1..Length /\ Length - ((Length - h) + 1) = h - 1
      BY <1>4
    <3> QED BY <2>1, <3>1
  <2>3. line \in [1..Length -> Rgb]
    BY <2>2
  <2>4. line \in Seq(Rgb) /\ Len(line) = Length
    BY <1>4, <2>3, FunctionIsSequence
  <2>6. \A h \in 1..Length : line[(Length - h) + 1] = Pixel(at(Length - h))
    BY <1>4
  <2> HIDE DEF line
  <2>5. Reverse(line) = [h \in 1..Length |-> line[(Length - h) + 1]]
    BY <2>4, Zenon DEF Reverse
  <2>7. Reverse(line) = [h \in 1..Length |-> Pixel(at(Length - h))]
    BY <2>5, <2>6, Zenon
  <2>8. Reverse(line) \in [1..Length -> Rgb]
    BY <2>1, <2>7, Zenon
  <2>9. Reverse(line) \in Seq(Rgb) /\ Len(Reverse(line)) = Length
    BY <1>4, <2>8, FunctionIsSequence
  <2> QED BY <1>1, <1>5, <2>1, <2>7, <2>9, Zenon
<1>6. CASE ~turn
  <2>1. \A h \in 1..Length : Pixel(at(h - 1)) \in Rgb /\ pixels[Spot(x, h)] = Pixel(at(h - 1))
    BY <1>2, <1>3, <1>6
  <2>2. line \in [1..Length -> Rgb]
    BY <2>1
  <2>3. line \in Seq(Rgb) /\ Len(line) = Length
    BY <1>4, <2>2, FunctionIsSequence
  <2> QED BY <1>1, <1>6, <2>1, <2>3, Zenon
<1> QED BY <1>5, <1>6

\* The pulses of a colour at the place of a LED; a line of n of them, ended.
Pulsed(s, x, h, c) ==
  \A j \in 1..24 : s[24 * (LedOf(x, h) - 1) + j] = _encode_pixel(c)[j]

LineEnds(s, n) ==
  /\ s \in Seq(Byte)
  /\ Len(s) = n + 1
  /\ s[n + 1] = NL
  /\ \A k \in 1..n : s[k] \in {0, 255}

(* What send_TCP writes for an image: the pulses of each pixel at the      *)
(* place of its LED, and a newline.                                        *)
LEMMA ImageData ==
  ASSUME Installed, Imaged
  PROVE  /\ LineEnds(image2data, 24 * (width * height))
         /\ \A x \in 1..Rows, h \in 1..Length : Pulsed(image2data, x, h, pixels[Spot(x, h)])
<1> DEFINE lines == [x \in 1..Rows |-> make_line(type, x - 1)]
           image == FlattenSeq(lines)
           n == width * height
           pulses == [k \in 1..n |-> _encode_pixel(image[k])]
           data == FlattenSeq(pulses)
           S == {0, 255}
<1>1. Rows \in Nat /\ Length \in Nat \ {0} /\ n \in Nat \ {0} /\ Length * Rows = n
  BY Measures
<1>2. lines \in Seq(Seq(Rgb)) /\ Len(lines) = Rows
  <2>1. lines \in [1..Rows -> Seq(Rgb)]
    BY LineOfPixels
  <2> QED BY <1>1, <2>1, FunctionIsSequence
<1>3. \A x \in 1..Rows : /\ lines[x] = make_line(type, x - 1)
                         /\ Len(lines[x]) = Length
                         /\ \A h \in 1..Length : lines[x][h] = pixels[Spot(x, h)]
  BY LineOfPixels
<1> HIDE DEF lines
<1>4. image \in Seq(Rgb) /\ Len(image) = n
  <2>1. \A k \in 1..Len(lines) : Len(lines[k]) = Length
    BY <1>2, <1>3
  <2>2. image \in Seq(Rgb) /\ Len(image) = Length * Len(lines)
    BY <1>1, <1>2, <2>1, FlattenShape, Zenon
  <2> QED BY <1>1, <1>2, <2>2
<1>5. ASSUME NEW x \in 1..Rows, NEW h \in 1..Length
      PROVE  image[LedOf(x, h)] = pixels[Spot(x, h)]
  <2>1. \A k \in 1..Len(lines) : Len(lines[k]) = Length
    BY <1>2, <1>3
  <2>2. Holds(image, Length * (x - 1), lines[x])
    BY <1>1, <1>2, <2>1, FlattenHolds
  <2> QED BY <1>3, <2>2, Zenon DEF Holds, LedOf
<1> HIDE DEF image
<1>6. \A k \in 1..n : image[k] \in Rgb
  BY <1>1, <1>4
<1>7. pulses \in Seq(Seq(S)) /\ Len(pulses) = n
  <2>1. pulses \in [1..n -> Seq(S)]
    BY <1>6, EncodedPixel
  <2> HIDE DEF pulses, n, S
  <2>2. n \in Nat
    BY <1>1
  <2> QED BY <2>1, <2>2, FunctionIsSequence, Zenon
<1>8. \A k \in 1..n : pulses[k] = _encode_pixel(image[k]) /\ Len(pulses[k]) = 24
  BY <1>6, EncodedPixel
<1> HIDE DEF pulses, n
<1>9. /\ data \in Seq(S) /\ Len(data) = 24 * n
      /\ \A k \in 1..n : Holds(data, 24 * (k - 1), pulses[k])
  <2> HIDE DEF S
  <2>1. \A k \in 1..Len(pulses) : Len(pulses[k]) = 24
    BY <1>7, <1>8
  <2>2. 24 \in Nat \ {0}
    OBVIOUS
  <2>3. data \in Seq(S) /\ Len(data) = 24 * Len(pulses)
    BY <1>7, <2>1, <2>2, FlattenShape, Zenon
  <2>4. \A k \in 1..Len(pulses) : Holds(data, 24 * (k - 1), pulses[k])
    BY <1>7, <2>1, <2>2, FlattenHolds, Zenon
  <2> QED BY <1>7, <2>3, <2>4
<1>10. image2data = data \o <<NL>>
  <2>1. Lines(type) = Rows
    BY Measures
  <2> QED BY <2>1, <1>4, Zenon DEF image2data, data, pulses, image, lines
<1> HIDE DEF data
<1>11. data \in Seq(Byte) /\ <<NL>> \in Seq(Byte) /\ Len(<<NL>>) = 1
  <2>1. S \subseteq Byte /\ NL \in Byte
    BY ByteBounds DEF NL
  <2> QED BY <1>9, <2>1
<1>12. image2data \in Seq(Byte) /\ Len(image2data) = 24 * n + 1
  BY <1>9, <1>10, <1>11
<1>13. /\ \A k \in 1..24 * n : image2data[k] = data[k]
       /\ image2data[24 * n + 1] = NL
  BY <1>1, <1>9, <1>10, <1>11
<1>14. \A k \in 1..24 * n : image2data[k] \in {0, 255}
  BY <1>1, <1>9, <1>13
<1>15. ASSUME NEW x \in 1..Rows, NEW h \in 1..Length
       PROVE  Pulsed(image2data, x, h, pixels[Spot(x, h)])
  <2>1. LedOf(x, h) \in 1..n
    BY LedRange DEF n
  <2>2. Holds(data, 24 * (LedOf(x, h) - 1), pulses[LedOf(x, h)])
    BY <1>9, <2>1
  <2>3. pulses[LedOf(x, h)] = _encode_pixel(pixels[Spot(x, h)]) /\ Len(pulses[LedOf(x, h)]) = 24
    BY <1>5, <1>8, <2>1
  <2>4. \A j \in 1..24 : data[24 * (LedOf(x, h) - 1) + j] = _encode_pixel(pixels[Spot(x, h)])[j]
    BY <2>2, <2>3, Zenon DEF Holds
  <2>5. \A j \in 1..24 : 24 * (LedOf(x, h) - 1) + j \in 1..24 * n
    BY <1>1, <2>1
  <2> QED BY <1>13, <2>4, <2>5, Zenon DEF Pulsed
<1>16. LineEnds(image2data, 24 * n)
  BY <1>12, <1>13, <1>14, Zenon DEF LineEnds
<1> QED BY <1>15, <1>16, Zenon DEF n

(* readline() and strip() take off the newline and nothing else, and the   *)
(* Teensy reads up to the `#' that closes the line.                        *)
LEMMA LineArrives ==
  ASSUME NEW s, NEW n \in Nat \ {0}, LineEnds(s, n)
  PROVE  LET line == BytesRead(Wrapped(Stripped(s)))
         IN /\ line \in Seq(Byte)
            /\ Len(line) = n
            /\ \A k \in 1..n : line[k] = s[k]
<1>1. s \in Seq(Byte) /\ Len(s) = n + 1 /\ s[n + 1] = NL
  BY Zenon DEF LineEnds
<1>2. \A k \in 1..n : s[k] # NL /\ s[k] # Hash /\ s[k] \notin Whitespace
  BY DEF LineEnds, NL, Hash, Whitespace
<1>3. NL \in Whitespace /\ Hash \in Byte /\ Star \in Byte /\ Star # Hash
  BY DEF NL, Hash, Star, Whitespace, Byte
<1> DEFINE cut == SubSeq(s, 1, n)
<1>4. /\ cut \in Seq(Byte)
      /\ Len(cut) = n
      /\ \A k \in 1..n : cut[k] = s[k]
  BY <1>1, SubSeqProperties
<1>5. Stripped(s) = cut
  <2> DEFINE E(m) == s[m] = NL /\ \A l \in 1..m - 1 : s[l] # NL
             end == CHOOSE m \in 1..Len(s) : E(m)
             dark == {m \in 1..end : s[m] \notin Whitespace}
  <2>1. n + 1 \in 1..Len(s) /\ E(n + 1)
    BY <1>1, <1>2
  <2>2. ASSUME NEW m \in 1..Len(s), E(m)
        PROVE  m = n + 1
    BY <1>1, <1>2, <2>2
  <2> HIDE DEF E
  <2>3. end = n + 1
    BY <2>1, <2>2
  <2> HIDE DEF end
  <2>4. dark = 1..n
    BY <1>1, <1>2, <1>3, <2>3
  <2> HIDE DEF dark
  <2>5. Stripped(s) = IF dark = {} THEN << >> ELSE SubSeq(s, Min(dark), Max(dark))
    BY Zenon DEF Stripped, dark, end, E
  <2>6. Min(dark) = 1 /\ Max(dark) = n
    <3>1. \A m \in 1..n : (\A l \in 1..n : m <= l) <=> m = 1
      OBVIOUS
    <3>2. \A m \in 1..n : (\A l \in 1..n : m >= l) <=> m = n
      OBVIOUS
    <3>3. 1 \in 1..n /\ n \in 1..n
      OBVIOUS
    <3> QED BY <2>4, <3>1, <3>2, <3>3 DEF Min, Max
  <2>7. dark # {}
    BY <2>4
  <2> QED BY <2>5, <2>6, <2>7
<1> HIDE DEF cut
<1> DEFINE w == Wrapped(cut)
<1>6. w \in Seq(Byte) /\ Len(w) = n + 2
  BY <1>3, <1>4 DEF Wrapped
<1>7. /\ w[1] = Star
      /\ \A k \in 1..n : w[k + 1] = s[k]
      /\ w[n + 2] = Hash
  BY <1>3, <1>4 DEF Wrapped
<1> HIDE DEF w
<1>8. BytesRead(w) = SubSeq(w, 2, n + 1)
  <2> DEFINE E(m) == w[m] = Hash /\ \A l \in 1..m - 1 : w[l] # Hash
             end == CHOOSE m \in 1..Len(w) : E(m)
  <2>1. ASSUME NEW l \in 1..n + 1
        PROVE  w[l] # Hash
    <3>1. CASE l = 1
      BY <1>3, <1>7, <3>1
    <3>2. CASE l # 1
      <4>1. l - 1 \in 1..n /\ (l - 1) + 1 = l
        BY <3>2
      <4> QED BY <1>2, <1>7, <4>1
    <3> QED BY <3>1, <3>2
  <2>2. n + 2 \in 1..Len(w) /\ E(n + 2)
    BY <1>6, <1>7, <2>1
  <2>3. ASSUME NEW m \in 1..Len(w), E(m)
        PROVE  m = n + 2
    BY <1>6, <2>1, <2>3
  <2> HIDE DEF E
  <2>4. end = n + 2
    BY <2>2, <2>3
  <2> HIDE DEF end
  <2>5. BytesRead(w) = SubSeq(w, 2, end - 1)
    BY Zenon DEF BytesRead, end, E
  <2> QED BY <2>4, <2>5
<1>9. /\ SubSeq(w, 2, n + 1) \in Seq(Byte)
      /\ Len(SubSeq(w, 2, n + 1)) = n
      /\ \A k \in 1..n : SubSeq(w, 2, n + 1)[k] = w[k + 1]
  BY <1>6, SubSeqProperties
<1> QED BY <1>5, <1>7, <1>8, <1>9 DEF w

-----------------------------------------------------------------------------
(* The invariants                                                          *)

(***************************************************************************)
(* Neither WallShowsImage nor StaysOneLine is inductive: what is under way *)
(* when the image is sent must be known to be that image, pixel by pixel,  *)
(* while the sketch already paints the next one.                           *)
(***************************************************************************)
StreamTold ==
  stream # << >> =>
    /\ sent # << >>
    /\ LineEnds(stream, 24 * (width * height))
    /\ \A x \in 1..Rows, h \in 1..Length, c \in Rgb :
         sent[Spot(x, h)] = c => Pulsed(stream, x, h, c)

LedsTold ==
  Settled =>
    \A x \in 1..Rows, h \in 1..Length, c \in Rgb :
      sent[Spot(x, h)] = c => leds[LedOf(x, h)] = Shown(c)

InTransit == TypeOK /\ StreamTold /\ LedsTold

(* What TypeOK says of the installation and of the images.                 *)
LEMMA TypesInstalled ==
  ASSUME TypeOK
  PROVE  /\ Installed
         /\ Imaged
         /\ sent # << >> => sent \in [1..width * height -> Rgb]
         /\ width * height \in Nat \ {0}
<1>1. Installed
  BY StripOrderAssumption DEF TypeOK, Installed
<1>2. Colour \union {Black} \subseteq Rgb
  <2>1. Black \in Rgb
    BY ByteBounds DEF Black, Rgb
  <2> QED BY <2>1, StripOrderAssumption DEF Rgb
<1> QED BY <1>1, <1>2, Measures DEF TypeOK, Imaged

(* The installation does not change, nor does where its LEDs are.          *)
LEMMA SameInstallation ==
  ASSUME UNCHANGED installation
  PROVE  /\ width' = width /\ height' = height /\ type' = type /\ long_line' = long_line
         /\ Rows' = Rows
         /\ Length' = Length
         /\ \A x, h : Spot(x, h)' = Spot(x, h) /\ LedOf(x, h)' = LedOf(x, h)
<1>1. width' = width /\ height' = height /\ type' = type /\ long_line' = long_line
  BY DEF installation
<1>2. Rows' = Rows /\ Length' = Length
  BY <1>1 DEF Rows, Length
<1>3. ASSUME NEW x, NEW h
      PROVE  Spot(x, h)' = Spot(x, h) /\ LedOf(x, h)' = LedOf(x, h)
  BY <1>1, <1>2 DEF Spot, Turned, Start, Step, LedOf
<1> QED BY <1>1, <1>2, <1>3

(* What is under way stays that image until it is shown.                   *)
LEMMA StreamKept ==
  ASSUME StreamTold, UNCHANGED installation, UNCHANGED <<stream, sent>>
  PROVE  StreamTold'
<1> SUFFICES ASSUME stream # << >>
             PROVE  StreamTold'
  BY DEF StreamTold
<1>1. sent' # << >>
  BY DEF StreamTold
<1>2. LineEnds(stream, 24 * (width * height))'
  <2>1. LineEnds(stream, 24 * (width * height))
    BY DEF StreamTold
  <2> QED BY <2>1, SameInstallation DEF LineEnds
<1>3. ASSUME NEW x \in 1..Rows', NEW h \in 1..Length', NEW c \in Rgb, (sent[Spot(x, h)] = c)'
      PROVE  Pulsed(stream, x, h, c)'
  <2>1. x \in 1..Rows /\ h \in 1..Length /\ sent[Spot(x, h)] = c
    BY <1>3, SameInstallation
  <2>2. Pulsed(stream, x, h, c)
    BY <2>1, Zenon DEF StreamTold
  <2> QED BY <2>2, SameInstallation DEF Pulsed
<1> QED BY <1>1, <1>2, <1>3 DEF StreamTold

(* At first nothing has been sent.                                         *)
LEMMA InitTold == Init => InTransit
<1> SUFFICES ASSUME Init
             PROVE  InTransit
  OBVIOUS
<1>1. <<width, height>> \in Size /\ width * height \in Nat
  <2>1. PICK s \in Size : width = s[1] /\ height = s[2]
    BY DEF Init
  <2>2. s \in (Nat \ {0}) \X (Nat \ {0})
    BY StripOrderAssumption
  <2>3. s = <<width, height>> /\ width \in Nat /\ height \in Nat
    BY <2>1, <2>2
  <2> QED BY <2>3
<1>2. Black \in Rgb
  BY ByteBounds DEF Black, Rgb
<1>3. TypeOK
  BY <1>1, <1>2, StripOrderAssumption DEF Init, TypeOK
<1>4. StreamTold /\ LedsTold
  BY DEF Init, StreamTold, LedsTold, Settled
<1> QED BY <1>3, <1>4 DEF InTransit

(* Painting changes neither the line under way nor what is shown.          *)
LEMMA PaintTold ==
  ASSUME InTransit, NEW p \in DOMAIN pixels, NEW c \in Colour, Paint(p, c)
  PROVE  InTransit'
<1>1. UNCHANGED installation /\ UNCHANGED <<stream, sent, leds>>
  BY DEF Paint
<1>2. TypeOK'
  BY <1>1, SameInstallation, StripOrderAssumption DEF InTransit, TypeOK, Paint
<1>3. StreamTold'
  BY <1>1, StreamKept DEF InTransit
<1>4. LedsTold'
  BY <1>1, SameInstallation DEF InTransit, LedsTold, Settled
<1> QED BY <1>2, <1>3, <1>4 DEF InTransit

(* send_TCP writes the image as it is now.                                 *)
LEMMA SendTold ==
  ASSUME InTransit, send_TCP
  PROVE  InTransit'
<1>1. UNCHANGED installation /\ UNCHANGED <<pixels, paints, leds>> /\ stream' = image2data /\ sent' = pixels
  BY DEF send_TCP
<1>2. Installed /\ Imaged /\ width * height \in Nat \ {0}
  BY TypesInstalled DEF InTransit
<1>3. LineEnds(image2data, 24 * (width * height))
  BY <1>2, ImageData
<1>4. \A x \in 1..Rows, h \in 1..Length : Pulsed(image2data, x, h, pixels[Spot(x, h)])
  BY <1>2, ImageData
<1>5. 24 * width * height = 24 * (width * height)
  BY <1>2, Measures
<1>6. stream' # << >> /\ sent' # << >>
  <2>1. Len(image2data) = 24 * (width * height) + 1
    BY <1>3, Zenon DEF LineEnds
  <2>2. image2data # << >>
    BY <1>2, <2>1
  <2>3. pixels # << >>
    BY <1>2 DEF Imaged
  <2> QED BY <1>1, <2>2, <2>3
<1>7. TypeOK'
  <2>1. image2data \in [1..24 * width * height + 1 -> Byte]
    BY <1>3, <1>5 DEF LineEnds
  <2> QED BY <1>1, <2>1, SameInstallation DEF InTransit, TypeOK
<1>8. StreamTold'
  <2>1. LineEnds(stream, 24 * (width * height))'
    BY <1>1, <1>3, SameInstallation DEF LineEnds
  <2>2. ASSUME NEW x \in 1..Rows', NEW h \in 1..Length', NEW c \in Rgb, (sent[Spot(x, h)] = c)'
        PROVE  Pulsed(stream, x, h, c)'
    <3>1. x \in 1..Rows /\ h \in 1..Length /\ pixels[Spot(x, h)] = c
      BY <1>1, <2>2, SameInstallation
    <3>2. Pulsed(image2data, x, h, c)
      BY <1>4, <3>1
    <3> QED BY <1>1, <3>2, SameInstallation DEF Pulsed
  <2> QED BY <1>6, <2>1, <2>2 DEF StreamTold
<1>9. LedsTold'
  BY <1>6 DEF LedsTold, Settled
<1> QED BY <1>7, <1>8, <1>9 DEF InTransit

(* Each LED takes the colour behind whose pulses it hangs.                 *)
LEMMA ShowTold ==
  ASSUME InTransit, Show
  PROVE  InTransit'
<1> DEFINE n == 24 * (width * height)
           bytes == BytesRead(Wrapped(Stripped(stream)))
<1>1. /\ UNCHANGED installation /\ UNCHANGED <<pixels, paints, sent>>
      /\ stream # << >> /\ stream' = << >>
      /\ leds' = [k \in DOMAIN leds |-> Led(bytes, k, leds[k])]
  BY DEF Show
<1>2. Installed /\ width * height \in Nat \ {0} /\ n \in Nat \ {0} /\ leds \in [1..width * height -> Rgb]
  BY TypesInstalled DEF InTransit, TypeOK
<1>3. bytes \in Seq(Byte) /\ Len(bytes) = n /\ \A k \in 1..n : bytes[k] = stream[k]
  <2>1. LineEnds(stream, n)
    BY <1>1 DEF InTransit, StreamTold
  <2> HIDE DEF n
  <2> QED BY <1>2, <2>1, LineArrives
<1> HIDE DEF bytes
<1>4. ASSUME NEW k \in 1..width * height
      PROVE  /\ 24 * k <= Len(bytes)
             /\ Led(bytes, k, leds[k]) \in Rgb
  <2>1. 24 * k <= n /\ 24 * (k - 1) \in Nat
    BY <1>2
  <2>2. \A i \in {0, 8, 16}, j \in 1..8 : bytes[24 * (k - 1) + i + j] \in Byte
    <3> TAKE i \in {0, 8, 16}, j \in 1..8
    <3>1. 24 * (k - 1) + i + j \in 1..n
      BY <1>2, <2>1
    <3> DEFINE q == 24 * (k - 1) + i + j
    <3> HIDE DEF q, n
    <3>2. q \in 1..n => bytes[q] \in Byte
      BY <1>2, <1>3
    <3> QED BY <3>1, <3>2 DEF q
  <2>3. \A i \in {0, 8, 16} : Value(bytes, 24 * (k - 1) + i) \in Byte
    BY <2>1, <2>2, ValueIsByte
  <2>4. 24 * (k - 1) + 0 = 24 * (k - 1)
    BY <2>1
  <2> QED BY <1>3, <2>1, <2>3, <2>4 DEF Led, Rgb
<1>5. TypeOK'
  <2>1. leds' \in [1..width * height -> Rgb]
    BY <1>1, <1>2, <1>4
  <2> QED BY <1>1, <2>1, SameInstallation DEF InTransit, TypeOK
<1>6. StreamTold'
  BY <1>1 DEF StreamTold
<1>7. ASSUME NEW x \in 1..Rows, NEW h \in 1..Length, NEW c \in Rgb, sent[Spot(x, h)] = c
      PROVE  leds'[LedOf(x, h)] = Shown(c)
  <2>1. LedOf(x, h) \in 1..width * height /\ LedOf(x, h) \in Nat \ {0}
    BY <1>2, LedRange
  <2>2. leds'[LedOf(x, h)] = Led(bytes, LedOf(x, h), leds[LedOf(x, h)])
    BY <1>1, <1>2, <2>1
  <2>3. Pulsed(stream, x, h, c)
    BY <1>1, <1>7 DEF InTransit, StreamTold
  <2>4. \A j \in 1..24 : 24 * (LedOf(x, h) - 1) + j \in 1..n
    BY <1>2, <2>1
  <2>5. \A j \in 1..24 : bytes[24 * (LedOf(x, h) - 1) + j] = _encode_pixel(c)[j]
    BY <1>3, <2>3, <2>4, Zenon DEF Pulsed
  <2>6. Holds(bytes, 24 * (LedOf(x, h) - 1), _encode_pixel(c))
    BY <2>5, EncodedPixel, Zenon DEF Holds
  <2>7. 24 * LedOf(x, h) <= Len(bytes)
    BY <1>4, <2>1
  <2> QED BY <1>3, <2>1, <2>2, <2>6, <2>7, LedOfPixel, Zenon
<1>8. LedsTold'
  BY <1>1, <1>7, SameInstallation DEF LedsTold
<1> QED BY <1>5, <1>6, <1>8 DEF InTransit

(* Every step keeps the invariant.                                         *)
LEMMA InTransitInductive == InTransit /\ [Next]_vars => InTransit'
<1> SUFFICES ASSUME InTransit, [Next]_vars
             PROVE  InTransit'
  OBVIOUS
<1>1. ASSUME NEW p \in DOMAIN pixels, NEW c \in Colour, Paint(p, c)
      PROVE  InTransit'
  BY <1>1, PaintTold
<1>2. CASE send_TCP
  BY <1>2, SendTold
<1>3. CASE Show
  BY <1>3, ShowTold
<1>4. CASE UNCHANGED vars
  <2>1. UNCHANGED installation /\ UNCHANGED <<pixels, paints, stream, sent, leds>>
    BY <1>4 DEF vars
  <2>2. TypeOK'
    BY <2>1, SameInstallation DEF InTransit, TypeOK
  <2>3. StreamTold'
    BY <2>1, StreamKept DEF InTransit
  <2>4. LedsTold'
    BY <2>1, SameInstallation DEF InTransit, LedsTold, Settled
  <2> QED BY <2>2, <2>3, <2>4 DEF InTransit
<1> QED BY <1>1, <1>2, <1>3, <1>4 DEF Next

(* It always holds.                                                        *)
LEMMA AlwaysInTransit == Spec => []InTransit
<1> QED BY InitTold, InTransitInductive, PTL DEF Spec

-----------------------------------------------------------------------------
(* The types of the image, the line and the LEDs.                          *)
THEOREM Typed == Spec => []TypeOK
<1>1. InTransit => TypeOK
  BY DEF InTransit
<1> QED BY <1>1, AlwaysInTransit, PTL

(* No byte of an image (data_generator.py, image2data) looks like the end  *)
(* of a line to readline() and strip() of receiver.py or to the Teensy's   *)
(* readBytesUntil.                                                         *)
THEOREM OneLine == Spec => []StaysOneLine
<1>1. InTransit => StaysOneLine
  <2> SUFFICES ASSUME InTransit, NEW k \in 1..Len(stream) - 1
               PROVE  stream[k] \notin Whitespace \union {Star, Hash}
    BY DEF StaysOneLine
  <2> DEFINE n == 24 * (width * height)
  <2>1. n \in Nat
    BY TypesInstalled DEF InTransit
  <2>2. stream # << >>
    OBVIOUS
  <2>3. LineEnds(stream, n)
    BY <2>2 DEF InTransit, StreamTold
  <2> HIDE DEF n
  <2>4. k \in 1..n
    BY <2>1, <2>3 DEF LineEnds
  <2>5. stream[k] \in {0, 255}
    BY <2>3, <2>4 DEF LineEnds
  <2> QED BY <2>5 DEF Whitespace, Star, Hash
<1> QED BY <1>1, AlwaysInTransit, PTL

(* On every installation of make_line but the walls of type 6 with several *)
(* rows and columns, the LED at a place shows the pixel of that place.     *)
THEOREM ShownAsSent == Spec => []WallShowsImage
<1>1. InTransit => WallShowsImage
  <2> SUFFICES ASSUME InTransit, Settled, type = 6 => 1 \in {width, height},
                      NEW x \in 0..width - 1, NEW y \in 0..height - 1
               PROVE  leds[Place(x, y) + 1] = Shown(sent[y * width + x + 1])
    BY DEF WallShowsImage, ShowsImage, Shown
  <2>1. Installed /\ sent \in [1..width * height -> Rgb]
    BY TypesInstalled DEF InTransit, Settled
  <2>2. PICK nb \in 1..Rows, h \in 1..Length :
          Place(x, y) + 1 = LedOf(nb, h) /\ Spot(nb, h) = y * width + x + 1
    BY <2>1, PlaceOfSpot, Zenon DEF AtItsPlace
  <2>3. sent[Spot(nb, h)] \in Rgb
    BY <2>1, SpotRange
  <2>4. leds[LedOf(nb, h)] = Shown(sent[Spot(nb, h)])
    BY <2>3, Zenon DEF InTransit, LedsTold
  <2> QED BY <2>2, <2>4, Zenon
<1> QED BY <1>1, AlwaysInTransit, PTL
=============================================================================
