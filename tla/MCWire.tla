------------------------------- MODULE MCWire -------------------------------
(* Colours for Wire, and what lies behind ArduPixel's buffer. *)
EXTENDS ArduPixel

CONSTANT b

\* The clients stay at or below 127, but for 255; 10 is also a newline.
MCColour == {<<1, 255, 10>>}

\* Two bytes that are one character, and one that is none.
MCBright == {<<195, 169, 7>>, <<200, 1, 2>>}

MCStray == {0, 88}
=============================================================================
