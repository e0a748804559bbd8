------------------------------ MODULE ArduPixel ------------------------------
(***************************************************************************)
(* The stand-alone display, ardupixel.ino, in the place of the frame       *)
(* server: a canvas is sent to the one target its program names            *)
(* (s2llib.py:29), and an Arduino that gets the datagram draws it on a     *)
(* zigzag of NeoPixels.  It knows the size of the picture from the         *)
(* passcode alone, whose fifth and sixth characters are width and height,  *)
(* and computes the layout on its own, like everyone else in Wire.         *)
(*                                                                         *)
(* The Ethernet library decides how much of a datagram the Arduino keeps:  *)
(* 24 bytes, as it comes.  drawCommand() reads on behind that.             *)
(***************************************************************************)
EXTENDS Wire

CONSTANTS
  ROWS, COLS,              \* of the zigzag
  UDP_TX_PACKET_MAX_SIZE,  \* the library's
  Stray                    \* bytes that can lie behind packetBuffer

ASSUME ArduPixelAssumption ==
  /\ {ROWS, COLS} \subseteq Nat \ {0}
  /\ HEIGHT <= ROWS /\ WIDTH <= COLS
  /\ ROWS * COLS < 65535
  /\ UDP_TX_PACKET_MAX_SIZE \in Nat /\ HEADEROFFSET <= UDP_TX_PACKET_MAX_SIZE
  /\ Stray \subseteq Byte /\ Stray # {}

NUMPIXELS == ROWS * COLS

VARIABLES
  target,        \* target_server: "frameserver" or "ardupixel"
  packetBuffer,  \* what Udp.read() has put there
  leds           \* what the strip shows, from the connector on

ardupixelVars == <<target, packetBuffer, leds>>

Dark == <<0, 0, 0>>

-----------------------------------------------------------------------------
(* ardupixel.ino *)

(* Udp.read(): what does not fit is dropped, and a datagram that is shorter *)
(* leaves the rest of the buffer as it was.                                *)
Received(d) ==
  [p \in 0..UDP_TX_PACKET_MAX_SIZE - 1 |-> IF p < Len(d) THEN d[p + 1] ELSE packetBuffer[p]]

\* packetBuffer[4]-'0' and packetBuffer[5]-'0': "<8" is twelve by eight.
\* Every passcode begins with "s2l" and a newline.
Geometry(passcode) ==
  IF passcode = HASH THEN [width |-> WIDTH, height |-> HEIGHT]
                     ELSE [width |-> 1, height |-> 1]

S2LHEADERLEN == HEADEROFFSET - 1

SubPixelAt(width, x, y, a) == S2LHEADERLEN + y * (width * 4 + 1) + x * 4 + a

(* An index behind packetBuffer finds whatever lies there in memory.       *)
Behind(g) == UDP_TX_PACKET_MAX_SIZE..SubPixelAt(g.width, g.width - 1, g.height - 1, 3)

SubPixel(packet, behind, p) == IF p < UDP_TX_PACKET_MAX_SIZE THEN packet[p] ELSE behind[p]

(* Down one column and up the next, in 16 bits; setPixelColor ignores what *)
(* is not on the strip.                                                    *)
\* Slip: every column is wired from top to bottom.
indirect_Straight(col, row) == (col * ROWS + row) % 65536
indirect(col, row) ==
  IF col > COLS \/ row > ROWS THEN 65535
  ELSE IF col % 2 = 1 THEN (col * ROWS + (ROWS - row - 1)) % 65536
  ELSE (col * ROWS + row) % 65536

(* drawCommand(): row by row, so that the last one to hit an LED stays. *)
drawCommand(k) ==
  LET packet == Received(net[k])
      g == Geometry(packet[0])
      cells == (0..g.height - 1) \X (0..g.width - 1)
      On(n) == {c \in cells : indirect(c[2], c[1]) = n}
      Latest(cs) == CHOOSE c \in cs :
                    \A e \in cs \ {c} : e[1] < c[1] \/ (e[1] = c[1] /\ e[2] < c[2])
  IN /\ net' = RemoveAt(net, k)
     /\ packetBuffer' = packet
     /\ \E behind \in [Behind(g) -> Stray] :
          leds' = [n \in 0..NUMPIXELS - 1 |->
                     IF On(n) = {} THEN leds[n]
                     ELSE LET c == Latest(On(n))
                          IN [a \in 1..3 |-> SubPixel(packet, behind, SubPixelAt(g.width, c[2], c[1], a))]]
     /\ UNCHANGED <<target, clientVars, serverVars, udp, browserVars>>

-----------------------------------------------------------------------------
InitDisplay ==
  /\ Init
  /\ target \in {"frameserver", "ardupixel"}
  /\ packetBuffer = [p \in 0..UDP_TX_PACKET_MAX_SIZE - 1 |-> 0]
  /\ leds = [n \in 0..NUMPIXELS - 1 |-> Dark]

ToFrameServer == target = "frameserver" /\ Next /\ UNCHANGED ardupixelVars

ToArduPixel ==
  /\ target = "ardupixel"
  /\ \/ (Client \/ \E k \in 1..Len(net) : Lose(k)) /\ UNCHANGED ardupixelVars
     \/ \E k \in 1..Len(net) : drawCommand(k)

DisplaySpec == InitDisplay /\ [][ToFrameServer \/ ToArduPixel]_<<vars, ardupixelVars>>

(* The fairness of Wire, where its servers run. *)
FairDisplaySpec ==
  /\ DisplaySpec
  /\ WF_<<vars, ardupixelVars>>(target = "frameserver" /\ Send /\ UNCHANGED ardupixelVars)
  /\ WF_<<vars, ardupixelVars>>(target = "frameserver" /\ Broadcast /\ UNCHANGED ardupixelVars)
  /\ \A b \in Browser :
       WF_<<vars, ardupixelVars>>(target = "frameserver" /\ Show(b) /\ UNCHANGED ardupixelVars)

-----------------------------------------------------------------------------
(* Properties *)

\* Where the n-th LED hangs: the strip goes down one column and up the next.
Column(n) == n \div ROWS
RowOf(n) == IF Column(n) % 2 = 0 THEN n % ROWS ELSE ROWS - 1 - (n % ROWS)

(* The colour of the window is in the part of a datagram that is kept.     *)
Kept(w) == SubPixelAt(WIDTH, w[2], w[1], 3) < UDP_TX_PACKET_MAX_SIZE

(***************************************************************************)
(* The strip is dark or shows a canvas some client sent, each window that  *)
(* packetBuffer has room for at the LED that hangs in its place, and every *)
(* LED beside the canvas dark, whatever is lost or late and whatever lies  *)
(* behind packetBuffer (ardupixel.ino:107-135, 146-155).  Nothing is said  *)
(* of the other windows, nor of the first LED, where the smaller wall of   *)
(* the other client lies.                                                  *)
(***************************************************************************)
LedsInPlace ==
  \E f \in drawn \union {Uniform(Dark)} :
    \A n \in 1..NUMPIXELS - 1 :
      LET w == <<RowOf(n), Column(n)>>
      IN IF w \in Window THEN Kept(w) => leds[n] = SubSeq(f.windows[w], 1, 3)
                         ELSE leds[n] = Dark
=============================================================================
