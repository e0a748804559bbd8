----------------------------- MODULE WireProofs -----------------------------
(***************************************************************************)
(* What is sent is what is shown, for walls of any size, any number of     *)
(* browsers and any bounds: the type invariant, ScreenIsDrawn and          *)
(* LedsInPlace, each with the frame server or the stand-alone display at   *)
(* the other end.                                                          *)
(*                                                                         *)
(* Four programs compute where a window lies, each with a formula of its   *)
(* own (Layouts).  The proof says once what a datagram consists of         *)
(* (DatagramLayout), and for every reader and writer that it agrees:       *)
(* listen() (DecodedDatagram), send() (EncodedCarries), the relay's        *)
(* toString() (CleanText), the page (TextPainted) and drawCommand()        *)
(* (SubPixels).  The invariant then follows a frame from hop to hop: what  *)
(* is on its way carries a frame that was sent.                            *)
(***************************************************************************)
EXTENDS ArduPixel, SequenceLemmas

(* Pictures of h by w cells of four bytes, and what a client draws. *)
Quads == [1..CHANNELS -> Byte]
Grid(h, w) == [(0..h - 1) \X (0..w - 1) -> Quads]
Frame == [windows : Grid(HEIGHT, WIDTH), segments : Grid(SEGWIDTH, SEGNUM)]

(* The sizes are positive numbers. *)
LEMMA Sizes ==
  /\ WIDTH \in Nat \ {0} /\ HEIGHT \in Nat \ {0}
  /\ SEGWIDTH \in Nat \ {0} /\ SEGNUM \in Nat \ {0}
  BY WireAssumption

(* The four channels of a cell, as draw() puts them behind each other. *)
LEMMA QuadsAreSequences ==
  ASSUME NEW q \in Quads
  PROVE  q \in Seq(Byte) /\ Len(q) = 4 /\ \A a \in 1..4 : q[a] \in Byte
<1>1. q \in [1..4 -> Byte]
  BY DEF Quads, CHANNELS
<1>2. 4 \in Nat
  OBVIOUS
<1>3. q \in Seq(Byte) /\ Len(q) = 4
  BY <1>1, <1>2, FunctionIsSequence
<1> QED BY <1>1, <1>3

-----------------------------------------------------------------------------
(* The layout of a datagram *)

LineLength(w) == 4 * w + 1

(* A row of w cells with its newline. *)
LEMMA LineLengths ==
  ASSUME NEW w \in Nat
  PROVE  LineLength(w) \in Nat \ {0} /\ LineLength(w) = 4 * w + 1
  BY DEF LineLength

(* A row as draw() sends it: every cell in its place. *)
LEMMA RowEntries ==
  ASSUME NEW w \in Nat, NEW cells \in [1..w -> Quads]
  PROVE  /\ Row(cells) \in Seq(Byte)
         /\ Len(Row(cells)) = LineLength(w)
         /\ \A x \in 1..w : Holds(Row(cells), 4 * (x - 1), cells[x])
<1> DEFINE flat == FlattenSeq(cells)
<1>1. cells \in Seq(Seq(Byte)) /\ Len(cells) = w /\ \A k \in 1..Len(cells) : Len(cells[k]) = 4
  BY QuadsAreSequences
<1>2. 4 \in Nat \ {0}
  OBVIOUS
<1>3. flat \in Seq(Byte) /\ Len(flat) = 4 * Len(cells)
  BY <1>1, <1>2, FlattenShape, Zenon
<1>4. \A k \in 1..Len(cells) : Holds(flat, 4 * (k - 1), cells[k])
  BY <1>1, <1>2, FlattenHolds, Zenon
<1>5. Row(cells) = flat \o <<NL>>
  BY DEF Row
<1> HIDE DEF flat
<1>6. <<NL>> \in Seq(Byte) /\ Len(<<NL>>) = 1
  BY DEF NL, Byte
<1>7. /\ Row(cells) \in Seq(Byte)
      /\ Len(Row(cells)) = Len(flat) + Len(<<NL>>)
  BY <1>3, <1>5, <1>6, ConcatEntries
<1>8. Holds(Row(cells), 0, flat)
  BY <1>3, <1>5, <1>6, ConcatEntries
<1>9. ASSUME NEW x \in 1..w
      PROVE  Holds(Row(cells), 4 * (x - 1), cells[x])
  <2>1. cells[x] \in Seq(Byte) /\ Len(cells[x]) = 4 /\ Holds(flat, 4 * (x - 1), cells[x])
    BY <1>1, <1>4
  <2>2. 4 * (x - 1) \in Nat /\ 4 * (x - 1) + Len(cells[x]) <= Len(flat) /\ 0 + 4 * (x - 1) = 4 * (x - 1)
    BY <1>1, <1>3, <2>1
  <2>3. Holds(Row(cells), 0 + 4 * (x - 1), cells[x])
    BY <1>3, <1>8, <2>1, <2>2, HoldsPart
  <2> QED BY <2>2, <2>3, Zenon
<1> QED BY <1>1, <1>3, <1>6, <1>7, <1>9 DEF LineLength

GridLines(grid, h, w) == FlattenSeq([k \in DOMAIN Rows(grid, h, w) |-> Row(Rows(grid, h, w)[k])])

At4(w, y, x) == LineLength(w) * y + 4 * x

(* The cells of row y lie before row y + 1, and all before the end. *)
LEMMA At4Range ==
  ASSUME NEW h \in Nat, NEW w \in Nat, NEW y \in 0..h - 1, NEW x \in 0..w - 1
  PROVE  At4(w, y, x) \in Nat /\ At4(w, y, x) + 4 <= LineLength(w) * h
<1>1. LineLength(w) \in Nat /\ LineLength(w) = 4 * w + 1
  BY LineLengths
<1>2. 4 * x + 4 <= LineLength(w) /\ y + 1 <= h /\ y + 1 \in Nat
  BY <1>1
<1> HIDE DEF LineLength
<1>3. LineLength(w) * (y + 1) <= LineLength(w) * h /\ LineLength(w) * (y + 1) = LineLength(w) * y + LineLength(w)
  BY <1>1, <1>2, TimesMonotonic
<1>4. LineLength(w) * y \in Nat /\ LineLength(w) * h \in Nat
  BY <1>1
<1> QED BY <1>1, <1>2, <1>3, <1>4 DEF At4

(* The rows of a picture as draw() sends them: every cell in its place. *)
LEMMA GridLinesEntries ==
  ASSUME NEW h \in Nat, NEW w \in Nat, NEW grid \in Grid(h, w)
  PROVE  /\ GridLines(grid, h, w) \in Seq(Byte)
         /\ Len(GridLines(grid, h, w)) = LineLength(w) * h
         /\ \A y \in 0..h - 1, x \in 0..w - 1 :
              Holds(GridLines(grid, h, w), At4(w, y, x), grid[<<y, x>>])
<1> DEFINE rows == Rows(grid, h, w)
           lines == [k \in 1..h |-> Row(rows[k])]
           n == LineLength(w)
           flat == FlattenSeq(lines)
<1>1. DOMAIN rows = 1..h /\ \A y \in 1..h : rows[y] \in [1..w -> Quads]
  BY DEF Rows, Grid
<1>2. \A y \in 0..h - 1, x \in 0..w - 1 : rows[y + 1][x + 1] = grid[<<y, x>>]
  BY DEF Rows, Grid
<1>3. GridLines(grid, h, w) = flat
  BY <1>1, Zenon DEF GridLines
<1> HIDE DEF rows
<1>4. n \in Nat \ {0} /\ n = 4 * w + 1
  BY LineLengths
<1>5. \A k \in 1..h : /\ Row(rows[k]) \in Seq(Byte)
                      /\ Len(Row(rows[k])) = n
                      /\ \A x \in 1..w : Holds(Row(rows[k]), 4 * (x - 1), rows[k][x])
  BY <1>1, RowEntries
<1>6. /\ lines \in Seq(Seq(Byte)) /\ Len(lines) = h
      /\ \A k \in 1..Len(lines) : Len(lines[k]) = n
  BY <1>5
<1>7. \A k \in 1..h : lines[k] = Row(rows[k])
  OBVIOUS
<1> HIDE DEF lines, n
<1>8. flat \in Seq(Byte) /\ Len(flat) = n * Len(lines)
  BY <1>4, <1>6, FlattenShape, Zenon
<1>9. \A k \in 1..Len(lines) : Holds(flat, n * (k - 1), lines[k])
  BY <1>4, <1>6, FlattenHolds, Zenon
<1> HIDE DEF flat
<1>10. ASSUME NEW y \in 0..h - 1, NEW x \in 0..w - 1
       PROVE  Holds(flat, At4(w, y, x), grid[<<y, x>>])
  <2>1. y + 1 \in 1..h /\ y + 1 - 1 = y /\ x + 1 \in 1..w /\ x + 1 - 1 = x /\ n * y \in Nat /\ 4 * x \in Nat
    BY <1>4
  <2>2. Holds(flat, n * y, lines[y + 1])
    BY <1>6, <1>9, <2>1
  <2>3. Holds(lines[y + 1], 4 * x, grid[<<y, x>>])
    <3>1. Holds(Row(rows[y + 1]), 4 * (x + 1 - 1), rows[y + 1][x + 1])
      BY <1>5, <2>1
    <3> QED BY <1>2, <1>7, <2>1, <3>1, Zenon
  <2>4. grid[<<y, x>>] \in Seq(Byte) /\ Len(grid[<<y, x>>]) = 4
    BY QuadsAreSequences DEF Grid
  <2>5. lines[y + 1] \in Seq(Byte) /\ 4 * x + Len(grid[<<y, x>>]) <= Len(lines[y + 1])
    BY <1>4, <1>6, <2>1, <2>4
  <2>6. Holds(flat, n * y + 4 * x, grid[<<y, x>>])
    BY <2>1, <2>2, <2>3, <2>4, <2>5, HoldsPart
  <2> QED BY <2>6, Zenon DEF At4, n
<1> QED BY <1>3, <1>6, <1>8, <1>10 DEF n

Symbol == Byte \union {HASH, OtherHash}

GridsLength(h, w) == LineLength(w) * h

(* The length of all rows of a picture. *)
LEMMA GridLength ==
  ASSUME NEW h \in Nat, NEW w \in Nat
  PROVE  GridsLength(h, w) \in Nat
  BY LineLengths DEF GridsLength

(* What a datagram for h by w windows consists of. *)
Layout(d, pass, h, w, win, seg) ==
  /\ d \in Seq(Symbol)
  /\ Len(d) = 3 + GridsLength(h, w) + GridsLength(SEGWIDTH, SEGNUM)
  /\ d[1] = pass
  /\ \A p \in 4..Len(d) : d[p] \in Byte
  /\ \A y \in 0..h - 1, x \in 0..w - 1 : Holds(d, 3 + At4(w, y, x), win[<<y, x>>])
  /\ \A y \in 0..SEGWIDTH - 1, x \in 0..SEGNUM - 1 :
       Holds(d, 3 + GridsLength(h, w) + At4(SEGNUM, y, x), seg[<<y, x>>])

(* draw() sends the passcode, and every window and segment in its place. *)
LEMMA DatagramLayout ==
  ASSUME NEW pass \in {HASH, OtherHash}, NEW h \in Nat, NEW w \in Nat,
         NEW win \in Grid(h, w), NEW seg \in Grid(SEGWIDTH, SEGNUM)
  PROVE  Layout(Datagram(pass, 1, Rows(win, h, w), Rows(seg, SEGWIDTH, SEGNUM)), pass, h, w, win, seg)
<1> DEFINE d == Datagram(pass, 1, Rows(win, h, w), Rows(seg, SEGWIDTH, SEGNUM))
           head == <<pass, 1, NL>>
           A == GridLines(win, h, w)
           B == GridLines(seg, SEGWIDTH, SEGNUM)
           m == GridsLength(h, w)
           n == GridsLength(SEGWIDTH, SEGNUM)
           first == head \o A
<1>1. d = first \o B
  BY Zenon DEF Datagram, GridLines
<1>2. head \in Seq(Symbol) /\ Len(head) = 3 /\ head[1] = pass
  BY DEF Symbol, NL, Byte
<1>3. m \in Nat /\ n \in Nat
  BY Sizes, GridLength
<1>4. \A s \in Seq(Byte) : s \in Seq(Symbol)
  BY DEF Symbol
<1>5. /\ A \in Seq(Byte) /\ Len(A) = m
      /\ \A y \in 0..h - 1, x \in 0..w - 1 : Holds(A, At4(w, y, x), win[<<y, x>>])
  BY GridLinesEntries DEF GridsLength
<1>6. /\ B \in Seq(Byte) /\ Len(B) = n
      /\ \A y \in 0..SEGWIDTH - 1, x \in 0..SEGNUM - 1 : Holds(B, At4(SEGNUM, y, x), seg[<<y, x>>])
  BY GridLinesEntries, Sizes DEF GridsLength
<1> HIDE DEF d, head, A, B, m, n
<1>7. /\ first \in Seq(Symbol)
      /\ Len(first) = 3 + m
      /\ Holds(first, 0, head)
      /\ Holds(first, 3, A)
  BY <1>2, <1>4, <1>5, ConcatEntries
<1> HIDE DEF first
<1>8. /\ d \in Seq(Symbol)
      /\ Len(d) = 3 + m + n
      /\ Holds(d, 0, first)
      /\ Holds(d, 3 + m, B)
  <2>1. B \in Seq(Symbol)
    BY <1>4, <1>6
  <2>2. d \in Seq(Symbol) /\ Len(d) = Len(first) + Len(B)
    BY <1>1, <1>7, <2>1, ConcatEntries
  <2>3. Holds(first \o B, 0, first)
    BY <1>7, <2>1, ConcatEntries, Zenon
  <2>4. Holds(first \o B, Len(first), B)
    BY <1>7, <2>1, ConcatEntries, Zenon
  <2> QED BY <1>1, <1>6, <1>7, <2>2, <2>3, <2>4
<1>9. 0 \in Nat /\ 3 \in Nat /\ 0 + Len(head) <= Len(first) /\ 3 + Len(A) <= Len(first)
  BY <1>2, <1>3, <1>5, <1>7
<1>10. Holds(d, 0 + 3, A)
  BY <1>4, <1>5, <1>7, <1>8, <1>9, HoldsPart, Zenon
<1>11. d[1] = pass
  <2>1. 1 \in 1..Len(head) /\ 1 \in 1..Len(first) /\ 0 + 1 = 1
    BY <1>2, <1>3, <1>7
  <2>2. d[0 + 1] = first[1] /\ first[0 + 1] = head[1]
    BY <1>7, <1>8, <2>1, Zenon DEF Holds
  <2> QED BY <1>2, <2>1, <2>2, Zenon
<1>12. ASSUME NEW p \in 4..Len(d)
       PROVE  d[p] \in Byte
  <2>1. CASE p <= 3 + m
    <3>1. p - 3 \in 1..Len(A) /\ 0 + 3 + (p - 3) = p
      BY <1>3, <1>5, <2>1
    <3>2. d[p] = A[p - 3]
      BY <1>10, <3>1 DEF Holds
    <3> QED BY <1>5, <3>1, <3>2
  <2>2. CASE p > 3 + m
    <3>1. p - (3 + m) \in 1..Len(B) /\ 3 + m + (p - (3 + m)) = p
      BY <1>3, <1>6, <1>8, <2>2
    <3>2. d[p] = B[p - (3 + m)]
      BY <1>8, <3>1 DEF Holds
    <3> QED BY <1>6, <3>1, <3>2
  <2> QED BY <1>3, <2>1, <2>2
<1>13. ASSUME NEW y \in 0..h - 1, NEW x \in 0..w - 1
       PROVE  Holds(d, 3 + At4(w, y, x), win[<<y, x>>])
  <2>1. win[<<y, x>>] \in Seq(Byte) /\ Len(win[<<y, x>>]) = 4
    BY QuadsAreSequences DEF Grid
  <2>2. At4(w, y, x) \in Nat /\ At4(w, y, x) + 4 <= m
    BY At4Range DEF m, GridsLength
  <2>3. Holds(A, At4(w, y, x), win[<<y, x>>])
    BY <1>5
  <2>4. Holds(d, 0 + 3 + At4(w, y, x), win[<<y, x>>])
    <3>1. 0 + 3 \in Nat /\ At4(w, y, x) + Len(win[<<y, x>>]) <= Len(A)
      BY <1>5, <2>1, <2>2
    <3> QED BY <1>5, <1>10, <2>1, <2>2, <2>3, <3>1, HoldsPart, Zenon
  <2> QED BY <2>4
<1>14. ASSUME NEW y \in 0..SEGWIDTH - 1, NEW x \in 0..SEGNUM - 1
       PROVE  Holds(d, 3 + m + At4(SEGNUM, y, x), seg[<<y, x>>])
  <2>1. seg[<<y, x>>] \in Seq(Byte) /\ Len(seg[<<y, x>>]) = 4
    BY QuadsAreSequences DEF Grid
  <2>2. At4(SEGNUM, y, x) \in Nat /\ At4(SEGNUM, y, x) + 4 <= n
    BY At4Range, Sizes DEF n, GridsLength
  <2>3. Holds(B, At4(SEGNUM, y, x), seg[<<y, x>>])
    BY <1>6
  <2>4. 3 + m \in Nat
    BY <1>3
  <2> QED BY <1>6, <1>8, <2>1, <2>2, <2>3, <2>4, HoldsPart
<1>15. Layout(d, pass, h, w, win, seg)
  BY <1>8, <1>11, <1>12, <1>13, <1>14 DEF m, n, Layout
<1> QED BY <1>15 DEF d

-----------------------------------------------------------------------------
(* The layouts of the client, the server and the page are the same *)

(* s2llib.py, listen(), send() and visionneuse.html mean the same byte. *)
LEMMA Layouts ==
  ASSUME NEW i \in Nat, NEW j \in Nat, NEW k \in Nat
  PROVE  /\ HEADEROFFSET + i * (CHANNELS * WIDTH + 1) + j * CHANNELS + k = 3 + At4(WIDTH, i, j) + k
         /\ HEADEROFFSET + WINDOWOFFSET + i * (CHANNELS * SEGNUM + 1) + j * CHANNELS + k
              = 3 + GridsLength(HEIGHT, WIDTH) + At4(SEGNUM, i, j) + k
         /\ WindowAt(i, j, k) = 3 + At4(WIDTH, i, j) + k
         /\ SegmentAt(i, j, k) = 3 + GridsLength(HEIGHT, WIDTH) + At4(SEGNUM, i, j) + k
         /\ PageWindow(i, j) = 3 + At4(WIDTH, i, j)
         /\ PageSegment(i, j) = 3 + GridsLength(HEIGHT, WIDTH) + At4(SEGNUM, i, j)
  BY Sizes DEF HEADEROFFSET, CHANNELS, WINDOWOFFSET, At4, GridsLength, LineLength, WindowAt, SegmentAt,
               PageWindow, PageSegment, headersize

(* The length of a transmission of send() is that of a datagram. *)
LEMMA LengthIs ==
  /\ Length = 3 + GridsLength(HEIGHT, WIDTH) + GridsLength(SEGWIDTH, SEGNUM)
  /\ Length \in Nat
  BY Sizes, GridLength DEF Length, SegmentAt, HEADEROFFSET, CHANNELS, GridsLength, LineLength

DatagramOf(c) == Datagram(HASH, 1, Rows(c.windows, HEIGHT, WIDTH), Rows(c.segments, SEGWIDTH, SEGNUM))

(* What listen() makes of a datagram is what draw() sent. *)
LEMMA DecodedDatagram ==
  ASSUME NEW c \in Frame
  PROVE  Valid(DatagramOf(c)) /\ Decoded(DatagramOf(c)) = c
<1> DEFINE d == DatagramOf(c)
           m == GridsLength(HEIGHT, WIDTH)
           n == GridsLength(SEGWIDTH, SEGNUM)
<1>1. c.windows \in Grid(HEIGHT, WIDTH) /\ c.segments \in Grid(SEGWIDTH, SEGNUM)
  BY DEF Frame
<1>2. Layout(d, HASH, HEIGHT, WIDTH, c.windows, c.segments)
  BY <1>1, Sizes, DatagramLayout DEF DatagramOf
<1> HIDE DEF d
<1>3. /\ Len(d) = 3 + m + n
      /\ d[1] = HASH
      /\ \A y \in 0..HEIGHT - 1, x \in 0..WIDTH - 1 : Holds(d, 3 + At4(WIDTH, y, x), c.windows[<<y, x>>])
      /\ \A y \in 0..SEGWIDTH - 1, x \in 0..SEGNUM - 1 :
           Holds(d, 3 + m + At4(SEGNUM, y, x), c.segments[<<y, x>>])
  BY <1>2 DEF Layout
<1>4. m \in Nat /\ n \in Nat
  BY Sizes, GridLength
<1> HIDE DEF m, n
<1>5. Valid(d)
  BY <1>3, <1>4 DEF Valid, At
<1>6. ASSUME NEW y \in 0..HEIGHT - 1, NEW x \in 0..WIDTH - 1, NEW a \in 1..4
      PROVE  WindowIn(d, y, x)[a] = c.windows[<<y, x>>][a]
  <2>1. At4(WIDTH, y, x) \in Nat /\ At4(WIDTH, y, x) + 4 <= m
    BY Sizes, At4Range DEF m, GridsLength
  <2>2. WindowIn(d, y, x)[a] = At(d, HEADEROFFSET + y * (CHANNELS * WIDTH + 1) + x * CHANNELS + a - 1)
    BY DEF WindowIn, CHANNELS
  <2>3. HEADEROFFSET + y * (CHANNELS * WIDTH + 1) + x * CHANNELS + (a - 1) = 3 + At4(WIDTH, y, x) + (a - 1)
    BY Layouts
  <2>4. HEADEROFFSET + y * (CHANNELS * WIDTH + 1) + x * CHANNELS + a - 1 = 3 + At4(WIDTH, y, x) + (a - 1)
    BY <2>3, Sizes DEF HEADEROFFSET, CHANNELS
  <2>5. At(d, 3 + At4(WIDTH, y, x) + (a - 1)) = d[3 + At4(WIDTH, y, x) + a]
    <3>1. 3 + At4(WIDTH, y, x) + (a - 1) < Len(d) /\ 3 + At4(WIDTH, y, x) + (a - 1) + 1 = 3 + At4(WIDTH, y, x) + a
      BY <1>3, <1>4, <2>1
    <3> QED BY <3>1, Zenon DEF At
  <2>6. a \in 1..Len(c.windows[<<y, x>>])
    BY <1>1, QuadsAreSequences DEF Grid
  <2>7. d[3 + At4(WIDTH, y, x) + a] = c.windows[<<y, x>>][a]
    BY <1>3, <2>6, Zenon DEF Holds
  <2> QED BY <2>2, <2>4, <2>5, <2>7, Zenon
<1>7. ASSUME NEW y \in 0..SEGWIDTH - 1, NEW x \in 0..SEGNUM - 1, NEW a \in 1..4
      PROVE  SegmentIn(d, y, x)[a] = c.segments[<<y, x>>][a]
  <2>1. At4(SEGNUM, y, x) \in Nat /\ At4(SEGNUM, y, x) + 4 <= n
    BY Sizes, At4Range DEF n, GridsLength
  <2>2. SegmentIn(d, y, x)[a]
          = At(d, HEADEROFFSET + WINDOWOFFSET + y * (CHANNELS * SEGNUM + 1) + x * CHANNELS + a - 1)
    BY DEF SegmentIn, CHANNELS
  <2>3. HEADEROFFSET + WINDOWOFFSET + y * (CHANNELS * SEGNUM + 1) + x * CHANNELS + (a - 1)
          = 3 + m + At4(SEGNUM, y, x) + (a - 1)
    BY Layouts DEF m
  <2>4. HEADEROFFSET + WINDOWOFFSET + y * (CHANNELS * SEGNUM + 1) + x * CHANNELS + a - 1
          = 3 + m + At4(SEGNUM, y, x) + (a - 1)
    BY <2>3, Sizes DEF HEADEROFFSET, CHANNELS, WINDOWOFFSET
  <2>5. At(d, 3 + m + At4(SEGNUM, y, x) + (a - 1)) = d[3 + m + At4(SEGNUM, y, x) + a]
    <3>1. /\ 3 + m + At4(SEGNUM, y, x) + (a - 1) < Len(d)
          /\ 3 + m + At4(SEGNUM, y, x) + (a - 1) + 1 = 3 + m + At4(SEGNUM, y, x) + a
      BY <1>3, <1>4, <2>1
    <3> QED BY <3>1, Zenon DEF At
  <2>6. a \in 1..Len(c.segments[<<y, x>>])
    BY <1>1, QuadsAreSequences DEF Grid
  <2>7. d[3 + m + At4(SEGNUM, y, x) + a] = c.segments[<<y, x>>][a]
    BY <1>3, <2>6, Zenon DEF Holds
  <2> QED BY <2>2, <2>4, <2>5, <2>7, Zenon
<1>8. ASSUME NEW w \in Window
      PROVE  WindowIn(d, w[1], w[2]) = c.windows[w]
  <2>1. w[1] \in 0..HEIGHT - 1 /\ w[2] \in 0..WIDTH - 1 /\ w = <<w[1], w[2]>>
    BY DEF Window
  <2>2. c.windows[w] \in [1..4 -> Byte]
    BY <1>1 DEF Grid, Window, Quads, CHANNELS
  <2>3. WindowIn(d, w[1], w[2]) = [a \in 1..4 |-> WindowIn(d, w[1], w[2])[a]]
    BY DEF WindowIn, CHANNELS
  <2>4. \A a \in 1..4 : WindowIn(d, w[1], w[2])[a] = c.windows[w][a]
    BY <1>6, <2>1
  <2> QED BY <2>2, <2>3, <2>4
<1>9. ASSUME NEW s \in Segment
      PROVE  SegmentIn(d, s[1], s[2]) = c.segments[s]
  <2>1. s[1] \in 0..SEGWIDTH - 1 /\ s[2] \in 0..SEGNUM - 1 /\ s = <<s[1], s[2]>>
    BY DEF Segment
  <2>2. c.segments[s] \in [1..4 -> Byte]
    BY <1>1 DEF Grid, Segment, Quads, CHANNELS
  <2>3. SegmentIn(d, s[1], s[2]) = [a \in 1..4 |-> SegmentIn(d, s[1], s[2])[a]]
    BY DEF SegmentIn, CHANNELS
  <2>4. \A a \in 1..4 : SegmentIn(d, s[1], s[2])[a] = c.segments[s][a]
    BY <1>7, <2>1
  <2> QED BY <2>2, <2>3, <2>4
<1>10. Decoded(d).windows = c.windows /\ Decoded(d).segments = c.segments
  BY <1>1, <1>8, <1>9 DEF Decoded, Grid, Window, Segment
<1>11. Decoded(d) = c
  BY <1>10 DEF Decoded, Frame
<1> QED BY <1>5, <1>11 DEF d

-----------------------------------------------------------------------------
(* What send() writes *)

(* Byte r of row i, and the two kinds of bytes send() writes. *)
RowByte(grid, w, i, r) == IF r = 4 * w THEN NL ELSE grid[<<i, r \div 4>>][(r % 4) + 1]

(* Every channel of a cell is among the bytes of its row. *)
LEMMA RowBytes ==
  ASSUME NEW w \in Nat, NEW grid, NEW i, NEW j \in 0..w - 1, NEW k \in 0..3
  PROVE  4 * j + k \in 0..LineLength(w) - 1 /\ RowByte(grid, w, i, 4 * j + k) = grid[<<i, j>>][k + 1]
<1>1. (4 * j + k) \div 4 = j /\ (4 * j + k) % 4 = k /\ 4 * j + k # 4 * w
  OBVIOUS
<1>2. 4 * j + k \in 0..LineLength(w) - 1
  BY DEF LineLength
<1> QED BY <1>1, <1>2 DEF RowByte

WindowByte(f, e) ==
  \E i \in 0..HEIGHT - 1, r \in 0..LineLength(WIDTH) - 1 :
    e = <<3 + LineLength(WIDTH) * i + r, RowByte(f.windows, WIDTH, i, r)>>
SegmentByte(f, e) ==
  \E i \in 0..SEGWIDTH - 1, r \in 0..LineLength(SEGNUM) - 1 :
    e = <<3 + GridsLength(HEIGHT, WIDTH) + LineLength(SEGNUM) * i + r, RowByte(f.segments, SEGNUM, i, r)>>

(* Whatever send() writes is a byte of a row of windows or of segments. *)
LEMMA WrittenBytes ==
  ASSUME NEW f, NEW e \in Written(f)
  PROVE  WindowByte(f, e) \/ SegmentByte(f, e)
<1>1. ASSUME NEW c \in Window, NEW k \in 0..CHANNELS - 1, e = <<WindowAt(c[1], c[2], k), f.windows[c][k + 1]>>
      PROVE  WindowByte(f, e)
  <2>1. c[1] \in 0..HEIGHT - 1 /\ c[2] \in 0..WIDTH - 1 /\ c = <<c[1], c[2]>> /\ k \in 0..3
    BY DEF Window, CHANNELS
  <2>2. 4 * c[2] + k \in 0..LineLength(WIDTH) - 1 /\ RowByte(f.windows, WIDTH, c[1], 4 * c[2] + k) = f.windows[c][k + 1]
    BY <2>1, RowBytes, Sizes
  <2>3. WindowAt(c[1], c[2], k) = 3 + LineLength(WIDTH) * c[1] + (4 * c[2] + k)
    BY <2>1, Layouts, Sizes, LineLengths DEF At4
  <2> QED BY <1>1, <2>1, <2>2, <2>3, Zenon DEF WindowByte
<1>2. ASSUME NEW i \in 0..HEIGHT - 1, e = <<WindowAt(i, WIDTH, 0), NL>>
      PROVE  WindowByte(f, e)
  <2>1. 4 * WIDTH \in 0..LineLength(WIDTH) - 1 /\ RowByte(f.windows, WIDTH, i, 4 * WIDTH) = NL
    BY Sizes DEF LineLength, RowByte
  <2>2. WindowAt(i, WIDTH, 0) = 3 + LineLength(WIDTH) * i + 4 * WIDTH
    <3>1. i \in Nat /\ WIDTH \in Nat /\ 0 \in Nat /\ LineLength(WIDTH) * i \in Nat
      BY Sizes, LineLengths
    <3>2. WindowAt(i, WIDTH, 0) = 3 + At4(WIDTH, i, WIDTH) + 0
      BY <3>1, Layouts
    <3> QED BY <3>1, <3>2 DEF At4
  <2> QED BY <1>2, <2>1, <2>2, Zenon DEF WindowByte
<1>3. ASSUME NEW c \in Segment, NEW k \in 0..CHANNELS - 1, e = <<SegmentAt(c[1], c[2], k), f.segments[c][k + 1]>>
      PROVE  SegmentByte(f, e)
  <2>1. c[1] \in 0..SEGWIDTH - 1 /\ c[2] \in 0..SEGNUM - 1 /\ c = <<c[1], c[2]>> /\ k \in 0..3
    BY DEF Segment, CHANNELS
  <2>2. 4 * c[2] + k \in 0..LineLength(SEGNUM) - 1 /\ RowByte(f.segments, SEGNUM, c[1], 4 * c[2] + k) = f.segments[c][k + 1]
    BY <2>1, RowBytes, Sizes
  <2>3. SegmentAt(c[1], c[2], k) = 3 + GridsLength(HEIGHT, WIDTH) + LineLength(SEGNUM) * c[1] + (4 * c[2] + k)
    BY <2>1, Layouts, Sizes, LineLengths, GridLength DEF At4
  <2> QED BY <1>3, <2>1, <2>2, <2>3, Zenon DEF SegmentByte
<1>4. ASSUME NEW i \in 0..SEGWIDTH - 1, e = <<SegmentAt(i, SEGNUM, 0), NL>>
      PROVE  SegmentByte(f, e)
  <2>1. 4 * SEGNUM \in 0..LineLength(SEGNUM) - 1 /\ RowByte(f.segments, SEGNUM, i, 4 * SEGNUM) = NL
    BY Sizes DEF LineLength, RowByte
  <2>2. SegmentAt(i, SEGNUM, 0) = 3 + GridsLength(HEIGHT, WIDTH) + LineLength(SEGNUM) * i + 4 * SEGNUM
    <3>0. i \in Nat /\ SEGNUM \in Nat /\ 0 \in Nat /\ LineLength(SEGNUM) \in Nat
      BY Sizes, LineLengths
    <3>1. LineLength(SEGNUM) * i \in Nat
      BY <3>0
    <3>2. GridsLength(HEIGHT, WIDTH) \in Nat
      BY Sizes, GridLength
    <3>3. SegmentAt(i, SEGNUM, 0) = 3 + GridsLength(HEIGHT, WIDTH) + At4(SEGNUM, i, SEGNUM) + 0
      BY <3>0, Layouts
    <3> QED BY <3>0, <3>1, <3>3, <3>2 DEF At4
  <2> QED BY <1>4, <2>1, <2>2, Zenon DEF SegmentByte
<1>5. \/ \E c \in Window, k \in 0..CHANNELS - 1 : e = <<WindowAt(c[1], c[2], k), f.windows[c][k + 1]>>
      \/ \E i \in 0..HEIGHT - 1 : e = <<WindowAt(i, WIDTH, 0), NL>>
      \/ \E c \in Segment, k \in 0..CHANNELS - 1 : e = <<SegmentAt(c[1], c[2], k), f.segments[c][k + 1]>>
      \/ \E i \in 0..SEGWIDTH - 1 : e = <<SegmentAt(i, SEGNUM, 0), NL>>
  BY DEF Written
<1> QED BY <1>1, <1>2, <1>3, <1>4, <1>5, Zenon

(* No position is written twice with different bytes. *)
LEMMA WrittenOnce ==
  ASSUME NEW f, NEW e \in Written(f), NEW g \in Written(f), e[1] = g[1]
  PROVE  e[2] = g[2]
<1> DEFINE m == GridsLength(HEIGHT, WIDTH)
<1>0. /\ LineLength(WIDTH) \in Nat \ {0} /\ LineLength(SEGNUM) \in Nat \ {0} /\ m \in Nat
      /\ m = LineLength(WIDTH) * HEIGHT
  BY Sizes, LineLengths, GridLength DEF GridsLength
<1> HIDE DEF m
<1>1. ASSUME NEW x, WindowByte(f, x)
      PROVE  x[1] \in Int /\ x[1] < 3 + m
  <2>1. PICK i \in 0..HEIGHT - 1, r \in 0..LineLength(WIDTH) - 1 :
          x = <<3 + LineLength(WIDTH) * i + r, RowByte(f.windows, WIDTH, i, r)>>
    BY <1>1, Zenon DEF WindowByte
  <2>2. LineLength(WIDTH) * (i + 1) <= m /\ LineLength(WIDTH) * (i + 1) = LineLength(WIDTH) * i + LineLength(WIDTH)
    BY <1>0, Sizes, TimesMonotonic
  <2>3. LineLength(WIDTH) * i \in Nat
    BY <1>0
  <2> QED BY <1>0, <2>1, <2>2, <2>3
<1>2. ASSUME NEW x, SegmentByte(f, x)
      PROVE  x[1] \in Int /\ x[1] >= 3 + m
  <2>1. PICK i \in 0..SEGWIDTH - 1, r \in 0..LineLength(SEGNUM) - 1 :
          x = <<3 + m + LineLength(SEGNUM) * i + r, RowByte(f.segments, SEGNUM, i, r)>>
    BY <1>2, Zenon DEF SegmentByte, m
  <2>2. LineLength(SEGNUM) * i \in Nat
    BY <1>0
  <2> QED BY <1>0, <2>1, <2>2
<1>3. CASE WindowByte(f, e) /\ WindowByte(f, g)
  <2>1. PICK i \in 0..HEIGHT - 1, r \in 0..LineLength(WIDTH) - 1 :
          e = <<3 + LineLength(WIDTH) * i + r, RowByte(f.windows, WIDTH, i, r)>>
    BY <1>3, Zenon DEF WindowByte
  <2>2. PICK j \in 0..HEIGHT - 1, s \in 0..LineLength(WIDTH) - 1 :
          g = <<3 + LineLength(WIDTH) * j + s, RowByte(f.windows, WIDTH, j, s)>>
    BY <1>3, Zenon DEF WindowByte
  <2>3. LineLength(WIDTH) * i + r = LineLength(WIDTH) * j + s
    <3>1. LineLength(WIDTH) * i \in Nat /\ LineLength(WIDTH) * j \in Nat
      BY <1>0
    <3> QED BY <1>0, <2>1, <2>2, <3>1
  <2>4. i \in Nat /\ j \in Nat /\ r \in 0..LineLength(WIDTH) - 1 /\ s \in 0..LineLength(WIDTH) - 1
    OBVIOUS
  <2>5. i = j /\ r = s
    BY <1>0, <2>3, <2>4, SamePlace
  <2> QED BY <2>1, <2>2, <2>5
<1>4. CASE SegmentByte(f, e) /\ SegmentByte(f, g)
  <2>1. PICK i \in 0..SEGWIDTH - 1, r \in 0..LineLength(SEGNUM) - 1 :
          e = <<3 + m + LineLength(SEGNUM) * i + r, RowByte(f.segments, SEGNUM, i, r)>>
    BY <1>4, Zenon DEF SegmentByte, m
  <2>2. PICK j \in 0..SEGWIDTH - 1, s \in 0..LineLength(SEGNUM) - 1 :
          g = <<3 + m + LineLength(SEGNUM) * j + s, RowByte(f.segments, SEGNUM, j, s)>>
    BY <1>4, Zenon DEF SegmentByte, m
  <2>3. LineLength(SEGNUM) * i + r = LineLength(SEGNUM) * j + s
    <3>1. LineLength(SEGNUM) * i \in Nat /\ LineLength(SEGNUM) * j \in Nat
      BY <1>0
    <3> QED BY <1>0, <2>1, <2>2, <3>1
  <2>4. i \in Nat /\ j \in Nat /\ r \in 0..LineLength(SEGNUM) - 1 /\ s \in 0..LineLength(SEGNUM) - 1
    OBVIOUS
  <2>5. i = j /\ r = s
    BY <1>0, <2>3, <2>4, SamePlace
  <2> QED BY <2>1, <2>2, <2>5
<1>5. ASSUME NEW x, NEW y, WindowByte(f, x), SegmentByte(f, y)
      PROVE  x[1] # y[1]
  <2>1. x[1] \in Int /\ x[1] < 3 + m /\ y[1] \in Int /\ y[1] >= 3 + m
    BY <1>1, <1>2, <1>5, Zenon
  <2> QED BY <1>0, <2>1
<1>6. (WindowByte(f, e) \/ SegmentByte(f, e)) /\ (WindowByte(f, g) \/ SegmentByte(f, g))
  BY WrittenBytes
<1>7. ~(WindowByte(f, e) /\ SegmentByte(f, g)) /\ ~(WindowByte(f, g) /\ SegmentByte(f, e))
  BY <1>5
<1> QED BY <1>3, <1>4, <1>6, <1>7, Zenon

(* Frames of bytes among B, and a transmission that carries f. *)
FrameOf(B) == [windows : [Window -> [1..4 -> B]], segments : [Segment -> [1..4 -> B]]]

Carries(d, f) ==
  /\ \A y \in 0..HEIGHT - 1, x \in 0..WIDTH - 1 : Holds(d, 3 + At4(WIDTH, y, x), f.windows[<<y, x>>])
  /\ \A y \in 0..SEGWIDTH - 1, x \in 0..SEGNUM - 1 :
       Holds(d, 3 + GridsLength(HEIGHT, WIDTH) + At4(SEGNUM, y, x), f.segments[<<y, x>>])

(* At a position that is written, the array holds what was written there. *)
LEMMA EncodedAt ==
  ASSUME NEW f, NEW old, NEW p \in 1..Length, NEW e \in Written(f), e[1] = p - 1
  PROVE  Encoded(f, old)[p] = e[2]
<1> DEFINE g == CHOOSE g \in Written(f) : g[1] = p - 1
<1>1. g \in Written(f) /\ g[1] = p - 1
  BY Zenon
<1>2. Encoded(f, old)[p] = g[2]
  BY Zenon DEF Encoded
<1> HIDE DEF g
<1>3. e[1] = g[1]
  BY <1>1
<1>4. e[2] = g[2]
  BY <1>1, <1>3, WrittenOnce, Zenon
<1> QED BY <1>2, <1>4

(* send() writes the bytes of the frame and newlines. *)
LEMMA WrittenTyped ==
  ASSUME NEW B, NL \in B, NEW f \in FrameOf(B), NEW e \in Written(f)
  PROVE  e[2] \in B
<1>1. \A c \in Window, k \in 0..CHANNELS - 1 : f.windows[c][k + 1] \in B
  BY DEF FrameOf, CHANNELS
<1>2. \A c \in Segment, k \in 0..CHANNELS - 1 : f.segments[c][k + 1] \in B
  BY DEF FrameOf, CHANNELS
<1> QED BY <1>1, <1>2 DEF Written

(* So do the bytes of the static array stay, transmission after transmission. *)
LEMMA EncodedTyped ==
  ASSUME NEW B, NL \in B, NEW f \in FrameOf(B), NEW old \in [1..Length -> B]
  PROVE  Encoded(f, old) \in [1..Length -> B]
<1>1. ASSUME NEW p \in 1..Length
      PROVE  Encoded(f, old)[p] \in B
  <2>1. CASE \E e \in Written(f) : e[1] = p - 1
    <3>1. PICK e \in Written(f) : e[1] = p - 1
      BY <2>1
    <3>2. Encoded(f, old)[p] = e[2]
      BY <3>1, EncodedAt
    <3> QED BY <3>2, WrittenTyped, Zenon
  <2>2. CASE ~\E e \in Written(f) : e[1] = p - 1
    <3>1. Encoded(f, old)[p] = old[p]
      BY <2>2, Zenon DEF Encoded
    <3> QED BY <3>1
  <2> QED BY <2>1, <2>2
<1>2. Encoded(f, old) = [p \in 1..Length |-> Encoded(f, old)[p]]
  BY Zenon DEF Encoded
<1> QED BY <1>1, <1>2, Zenon

(* After send() the array carries the whole frame, whatever it held before. *)
LEMMA EncodedCarries ==
  ASSUME NEW f \in FrameOf(Byte), NEW old
  PROVE  Carries(Encoded(f, old), f)
<1> DEFINE m == GridsLength(HEIGHT, WIDTH)
           n == GridsLength(SEGWIDTH, SEGNUM)
<1>1. Length = 3 + m + n /\ m \in Nat /\ n \in Nat
  BY Sizes, GridLength, LengthIs
<1>2. ASSUME NEW y \in 0..HEIGHT - 1, NEW x \in 0..WIDTH - 1, NEW a \in 1..4
      PROVE  Encoded(f, old)[3 + At4(WIDTH, y, x) + a] = f.windows[<<y, x>>][a]
  <2> DEFINE e == <<WindowAt(y, x, a - 1), f.windows[<<y, x>>][a - 1 + 1]>>
  <2>1. <<y, x>> \in Window /\ a - 1 \in 0..CHANNELS - 1 /\ <<y, x>>[1] = y /\ <<y, x>>[2] = x
    BY DEF Window, CHANNELS
  <2>2. e \in Written(f)
    BY <2>1 DEF Written
  <2>3. At4(WIDTH, y, x) \in Nat /\ At4(WIDTH, y, x) + 4 <= m
    BY Sizes, At4Range DEF GridsLength
  <2>4. y \in Nat /\ x \in Nat /\ a - 1 \in Nat /\ a - 1 + 1 = a
    OBVIOUS
  <2>5. WindowAt(y, x, a - 1) = 3 + At4(WIDTH, y, x) + (a - 1)
    BY <2>4, Layouts
  <2> HIDE DEF m, n
  <2>6. 3 + At4(WIDTH, y, x) + a \in 1..Length /\ WindowAt(y, x, a - 1) = (3 + At4(WIDTH, y, x) + a) - 1
    BY <1>1, <2>3, <2>5
  <2>7. e[1] = (3 + At4(WIDTH, y, x) + a) - 1 /\ e[2] = f.windows[<<y, x>>][a]
    BY <2>4, <2>6
  <2> HIDE DEF e
  <2> DEFINE p == 3 + At4(WIDTH, y, x) + a
  <2>8. p \in 1..Length
    BY <2>6, Zenon
  <2>9. e[1] = p - 1
    BY <2>7, Zenon
  <2> HIDE DEF p
  <2>10. Encoded(f, old)[p] = e[2]
    BY <2>2, <2>8, <2>9, EncodedAt
  <2> QED BY <2>7, <2>10, Zenon DEF p
<1>3. ASSUME NEW y \in 0..SEGWIDTH - 1, NEW x \in 0..SEGNUM - 1, NEW a \in 1..4
      PROVE  Encoded(f, old)[3 + m + At4(SEGNUM, y, x) + a] = f.segments[<<y, x>>][a]
  <2> DEFINE e == <<SegmentAt(y, x, a - 1), f.segments[<<y, x>>][a - 1 + 1]>>
  <2>1. <<y, x>> \in Segment /\ a - 1 \in 0..CHANNELS - 1 /\ <<y, x>>[1] = y /\ <<y, x>>[2] = x
    BY DEF Segment, CHANNELS
  <2>2. e \in Written(f)
    BY <2>1 DEF Written
  <2>3. At4(SEGNUM, y, x) \in Nat /\ At4(SEGNUM, y, x) + 4 <= n
    BY Sizes, At4Range DEF GridsLength
  <2>4. y \in Nat /\ x \in Nat /\ a - 1 \in Nat /\ a - 1 + 1 = a
    OBVIOUS
  <2>5. SegmentAt(y, x, a - 1) = 3 + m + At4(SEGNUM, y, x) + (a - 1)
    BY <2>4, Layouts
  <2> HIDE DEF m, n
  <2>6. 3 + m + At4(SEGNUM, y, x) + a \in 1..Length /\ SegmentAt(y, x, a - 1) = (3 + m + At4(SEGNUM, y, x) + a) - 1
    BY <1>1, <2>3, <2>5
  <2>7. e[1] = (3 + m + At4(SEGNUM, y, x) + a) - 1 /\ e[2] = f.segments[<<y, x>>][a]
    BY <2>4, <2>6
  <2> HIDE DEF e
  <2> DEFINE p == 3 + m + At4(SEGNUM, y, x) + a
  <2>8. p \in 1..Length
    BY <2>6, Zenon
  <2>9. e[1] = p - 1
    BY <2>7, Zenon
  <2> HIDE DEF p
  <2>10. Encoded(f, old)[p] = e[2]
    BY <2>2, <2>8, <2>9, EncodedAt
  <2> QED BY <2>7, <2>10, Zenon DEF p
<1>4. \A y \in 0..HEIGHT - 1, x \in 0..WIDTH - 1 : Len(f.windows[<<y, x>>]) = 4
  <2> SUFFICES ASSUME NEW y \in 0..HEIGHT - 1, NEW x \in 0..WIDTH - 1
               PROVE  Len(f.windows[<<y, x>>]) = 4
    OBVIOUS
  <2>1. f.windows[<<y, x>>] \in Quads
    BY DEF FrameOf, Window, Quads, CHANNELS
  <2> QED BY <2>1, QuadsAreSequences
<1>5. \A y \in 0..SEGWIDTH - 1, x \in 0..SEGNUM - 1 : Len(f.segments[<<y, x>>]) = 4
  <2> SUFFICES ASSUME NEW y \in 0..SEGWIDTH - 1, NEW x \in 0..SEGNUM - 1
               PROVE  Len(f.segments[<<y, x>>]) = 4
    OBVIOUS
  <2>1. f.segments[<<y, x>>] \in Quads
    BY DEF FrameOf, Segment, Quads, CHANNELS
  <2> QED BY <2>1, QuadsAreSequences
<1>6. \A y \in 0..HEIGHT - 1, x \in 0..WIDTH - 1 :
        Holds(Encoded(f, old), 3 + At4(WIDTH, y, x), f.windows[<<y, x>>])
  BY <1>2, <1>4, Zenon DEF Holds
<1>7. \A y \in 0..SEGWIDTH - 1, x \in 0..SEGNUM - 1 :
        Holds(Encoded(f, old), 3 + m + At4(SEGNUM, y, x), f.segments[<<y, x>>])
  BY <1>3, <1>5, Zenon DEF Holds
<1> QED BY <1>6, <1>7, Zenon DEF Carries

-----------------------------------------------------------------------------
(* What the relay makes of a transmission *)

(* Bytes the relay reads one by one: a pair starts with none of them. *)
Clean == (0..127) \union {255}
(* The local definitions of Text. *)
IsSecond(d, p) == p > 1 /\ Continuation(d[p]) /\ LeadByte(d[p - 1])
Character(d, p) ==
  IF d[p] < 128 THEN d[p]
  ELSE IF p < Len(d) /\ IsSecond(d, p + 1) THEN (d[p] - 192) * 64 + d[p + 1] - 128
  ELSE Replacement

(* A character the relay reads is a number. *)
LEMMA CharacterType ==
  ASSUME NEW n \in Nat, NEW d \in [1..n -> Byte], NEW p \in 1..n
  PROVE  Character(d, p) \in Nat
<1>1. Len(d) = n
  BY FunctionIsSequence
<1>2. CASE p < Len(d) /\ IsSecond(d, p + 1)
  <2>1. p + 1 \in 1..n /\ p + 1 - 1 = p
    BY <1>1, <1>2
  <2>2. d[p] \in 194..223 /\ d[p + 1] \in 128..191
    BY <1>2, <2>1 DEF IsSecond, LeadByte, Continuation
  <2> DEFINE v == d[p]
             u == d[p + 1]
  <2>3. v \in 194..223 /\ u \in 128..191
    BY <2>2
  <2> HIDE DEF v, u
  <2>5. ~(v < 128)
    BY <2>3
  <2>6. Character(d, p) = (v - 192) * 64 + u - 128
    BY <1>2, <2>5, Zenon DEF Character, v, u
  <2>4. (v - 192) * 64 + u - 128 \in Nat
    BY <2>3
  <2> QED BY <2>6, <2>4
<1>3. CASE ~(p < Len(d) /\ IsSecond(d, p + 1))
  <2>1. d[p] \in Byte /\ Byte \subseteq Nat
    BY DEF Byte
  <2>2. Character(d, p) = IF d[p] < 128 THEN d[p] ELSE Replacement
    BY <1>3, Zenon DEF Character
  <2>3. Replacement \in Nat
    BY DEF Replacement
  <2>4. d[p] \in Nat
    BY <2>1, Zenon
  <2> QED BY <2>2, <2>3, <2>4, Zenon
<1> QED BY <1>2, <1>3

(* The recursion of Text, solved up to p. *)
Reads(d, f, n) ==
  /\ f[0] = << >>
  /\ \A p \in 1..n : f[p] = IF IsSecond(d, p) THEN f[p - 1] ELSE Append(f[p - 1], Character(d, p))

(* The loop of toString() ends with a text. *)
LEMMA TextReads ==
  ASSUME NEW n \in Nat, NEW d \in [1..n -> Byte]
  PROVE  \E f \in [0..n -> Seq(Nat)] : Reads(d, f, n) /\ Text(d) = f[n]
<1> DEFINE V == Seq(Nat)
           Longer(p, t) == IF IsSecond(d, p) THEN t ELSE Append(t, Character(d, p))
           h == [x \in (1..n) \X V |-> Longer(x[1], x[2])]
           Body(f) == [p \in 0..n |-> IF p = 0 THEN << >> ELSE Longer(p, f[p - 1])]
<1>1. << >> \in V
  OBVIOUS
<1>2. h \in [(1..n) \X V -> V]
  <2>1. ASSUME NEW x \in (1..n) \X V
        PROVE  Longer(x[1], x[2]) \in V
    <3>1. x[1] \in 1..n /\ x[2] \in Seq(Nat)
      OBVIOUS
    <3>2. Character(d, x[1]) \in Nat
      BY <3>1, CharacterType
    <3> QED BY <3>1, <3>2
  <2> HIDE DEF Longer
  <2> QED BY <2>1
<1>3. \A p \in 1..n, t \in V : h[<<p, t>>] = Longer(p, t)
  OBVIOUS
<1> HIDE DEF h, V
<1>4. PICK f \in [0..n -> V] : f[0] = << >> /\ \A p \in 1..n : f[p] = h[<<p, f[p - 1]>>]
  <2> DEFINE e == << >>
  <2>1. e \in V
    BY <1>1
  <2> HIDE DEF e
  <2>2. Solvable(V, e, n, h)
    BY <2>1, <1>2, RecursionExists, Zenon
  <2> QED BY <2>2, Zenon DEF e, Solvable
<1>5. \A p \in 1..n : p - 1 \in 0..n /\ p \in 0..n /\ p # 0
  OBVIOUS
<1>6. \A p \in 1..n : f[p] = Longer(p, f[p - 1])
  BY <1>3, <1>4, <1>5, Zenon
<1> HIDE DEF Longer
<1>7. f = Body(f)
  BY <1>4, <1>6
<1>8. ASSUME NEW g, g = Body(g)
      PROVE  g = f
  <2> DEFINE T == {p \in 0..n : g[p] = f[p]}
  <2>1. 0 \in T
    BY <1>4, <1>8
  <2>2. ASSUME NEW p \in 1..n, p - 1 \in T
        PROVE  p \in T
    <3>1. g[p] = Longer(p, g[p - 1])
      BY <1>5, <1>8, Zenon
    <3>2. g[p - 1] = f[p - 1]
      BY <2>2
    <3>3. g[p] = f[p]
      BY <1>6, <3>1, <3>2, Zenon
    <3> QED BY <1>5, <3>3
  <2> HIDE DEF T
  <2>3. 0..n \subseteq T
    BY <2>1, <2>2, UpTo
  <2>4. \A p \in 0..n : g[p] = f[p]
    BY <2>3 DEF T
  <2>5. g = [p \in 0..n |-> g[p]]
    BY <1>8, Zenon
  <2>6. f = [p \in 0..n |-> f[p]]
    BY <1>4, Zenon
  <2> QED BY <2>4, <2>5, <2>6, Zenon
<1>9. (CHOOSE g : g = Body(g)) = f
  BY <1>7, <1>8, Zenon
<1>10. Len(d) = n
  BY FunctionIsSequence
<1>11. Text(d) = (CHOOSE g : g = Body(g))[n]
  BY <1>10, Zenon DEF Text, Longer, IsSecond, Character
<1>12. Reads(d, f, n)
  BY <1>4, <1>6 DEF Reads, Longer
<1> QED BY <1>4, <1>9, <1>11, <1>12, Zenon DEF V

(* The text the relay passes on consists of numbers. *)
LEMMA TextTyped ==
  ASSUME NEW n \in Nat, NEW d \in [1..n -> Byte]
  PROVE  Text(d) \in Seq(Nat)
<1>1. PICK f \in [0..n -> Seq(Nat)] : Reads(d, f, n) /\ Text(d) = f[n]
  BY TextReads
<1>2. n \in 0..n
  OBVIOUS
<1> QED BY <1>1, <1>2

(* A plain byte never starts a pair. *)
LEMMA CleanBytes ==
  ASSUME NEW v \in Clean
  PROVE  ~LeadByte(v)
  BY DEF Clean, LeadByte

(* Plain bytes are read one by one. *)
LEMMA CleanText ==
  ASSUME NEW n \in Nat, NEW d \in [1..n -> Clean]
  PROVE  /\ Len(Text(d)) = n
         /\ \A p \in 1..n : Clamped(Text(d)[p]) = d[p]
<1>0. d \in [1..n -> Byte]
  BY DEF Clean, Byte
<1>1. PICK f \in [0..n -> Seq(Nat)] : Reads(d, f, n) /\ Text(d) = f[n]
  BY <1>0, TextReads
<1>2. ASSUME NEW p \in 1..n
      PROVE  ~IsSecond(d, p)
  <2>1. CASE p = 1
    BY <2>1 DEF IsSecond
  <2>2. CASE p # 1
    <3>1. p - 1 \in 1..n
      BY <2>2
    <3>2. d[p - 1] \in Clean
      BY <3>1
    <3> QED BY <3>2, CleanBytes, Zenon DEF IsSecond
  <2> QED BY <2>1, <2>2
<1>3. ASSUME NEW p \in 1..n
      PROVE  Character(d, p) \in Nat /\ Clamped(Character(d, p)) = d[p]
  <2>1. Len(d) = n
    BY FunctionIsSequence
  <2>2. ~(p < Len(d) /\ IsSecond(d, p + 1))
    BY <1>2, <2>1
  <2>3. Character(d, p) = IF d[p] < 128 THEN d[p] ELSE Replacement
    BY <2>2, Zenon DEF Character
  <2> DEFINE v == d[p]
  <2>4. v \in Clean
    OBVIOUS
  <2> HIDE DEF v
  <2>5. Character(d, p) = IF v < 128 THEN v ELSE Replacement
    BY <2>3, Zenon DEF v
  <2>6. Character(d, p) \in Nat /\ Clamped(Character(d, p)) = v
    BY <2>4, <2>5 DEF Clean, Clamped, Replacement
  <2> QED BY <2>6 DEF v
<1>4. \A p \in 1..n : f[p] = Append(f[p - 1], Character(d, p))
  BY <1>1, <1>2 DEF Reads
<1> DEFINE T == {p \in 0..n : /\ Len(f[p]) = p
                             /\ \A q \in 1..p : f[p][q] = Character(d, q)}
<1>5. 0 \in T
  BY <1>1 DEF Reads
<1>6. ASSUME NEW p \in 1..n, p - 1 \in T
      PROVE  p \in T
  <2> DEFINE t == f[p - 1]
             c == Character(d, p)
  <2>1. /\ t \in Seq(Nat) /\ Len(t) = p - 1
        /\ \A q \in 1..p - 1 : t[q] = Character(d, q)
    BY <1>6
  <2>2. c \in Nat
    BY <1>3
  <2>3. f[p] = Append(t, c)
    BY <1>4
  <2> HIDE DEF t, c
  <2>4. /\ Len(f[p]) = p /\ f[p][p] = c
        /\ \A q \in 1..p - 1 : f[p][q] = t[q]
    BY <2>1, <2>2, <2>3, AppendProperties
  <2>5. \A q \in 1..p : f[p][q] = Character(d, q)
    <3>1. TAKE q \in 1..p
    <3>2. CASE q = p
      BY <2>4, <3>2, Zenon DEF c
    <3>3. CASE q # p
      <4>1. q \in 1..p - 1
        BY <3>3
      <4> QED BY <2>1, <2>4, <4>1, Zenon
    <3> QED BY <3>2, <3>3, Zenon
  <2> QED BY <2>4, <2>5
<1> HIDE DEF T
<1>7. 0..n \subseteq T
  BY <1>5, <1>6, UpTo
<1>8. n \in T
  BY <1>7
<1> QED BY <1>1, <1>3, <1>8 DEF T

-----------------------------------------------------------------------------
(* Colours as tuples *)

(* A sequence is a function on its positions. *)
LEMMA SequenceIsFunction ==
  ASSUME NEW S, NEW s \in Seq(S)
  PROVE  s \in [1..Len(s) -> S]
  OBVIOUS
(* A colour is a sequence of three, ... *)
LEMMA TriplesAreFunctions ==
  ASSUME NEW S, NEW q \in S \X S \X S
  PROVE  q \in [1..3 -> S] /\ q \in Seq(S) /\ Len(q) = 3
<1>1. q = <<q[1], q[2], q[3]>> /\ q[1] \in S /\ q[2] \in S /\ q[3] \in S
  OBVIOUS
<1> DEFINE x == q[1]
           y == q[2]
           z == q[3]
<1>2. q = <<x, y, z>> /\ x \in S /\ y \in S /\ z \in S
  BY <1>1
<1> HIDE DEF x, y, z
<1>3. <<x, y, z>> \in Seq(S) /\ Len(<<x, y, z>>) = 3
  BY <1>2
<1>4. <<x, y, z>> \in [1..3 -> S]
  BY <1>2
<1> QED BY <1>2, <1>3, <1>4, Zenon

(* A colour with the opacity behind it is a cell. *)
LEMMA Painting ==
  ASSUME NEW B, Opaque \in B, NEW c \in B \X B \X B
  PROVE  Append(c, Opaque) \in [1..4 -> B]
<1>1. c \in Seq(B) /\ Len(c) = 3
  BY TriplesAreFunctions
<1>2. Append(c, Opaque) \in Seq(B) /\ Len(Append(c, Opaque)) = Len(c) + 1
  BY <1>1, AppendProperties
<1> DEFINE q == Append(c, Opaque)
<1>3. q \in Seq(B) /\ Len(q) = 4
  BY <1>1, <1>2
<1> HIDE DEF q
<1>4. q \in [1..Len(q) -> B]
  BY <1>3, SequenceIsFunction, Zenon
<1>5. q \in [1..4 -> B]
  BY <1>3, <1>4, Zenon
<1> QED BY <1>5 DEF q

(* ... and the other way round. *)
LEMMA Triples ==
  ASSUME NEW S, NEW q \in [1..3 -> S]
  PROVE  q \in S \X S \X S
<1>1. q = <<q[1], q[2], q[3]>>
  OBVIOUS
<1>2. q[1] \in S /\ q[2] \in S /\ q[3] \in S
  OBVIOUS
<1> QED BY <1>1, <1>2

(* The red, green and blue of a cell. *)
LEMMA FirstThree ==
  ASSUME NEW S, NEW q \in [1..4 -> S]
  PROVE  SubSeq(q, 1, 3) = [a \in 1..3 |-> q[a]]
<1>1. 4 \in Nat
  OBVIOUS
<1>2. q \in Seq(S) /\ Len(q) = 4
  BY <1>1, FunctionIsSequence
<1> QED BY <1>2, SubSeqProperties

(* A frame of one colour. *)
LEMMA UniformTyped ==
  ASSUME NEW B, NEW x \in B, NEW y \in B
  PROVE  Uniform(<<x, x, x, y>>) \in FrameOf(B)
<1>1. <<x, x, x, y>> \in [1..4 -> B]
  OBVIOUS
<1> QED BY <1>1 DEF Uniform, FrameOf

-----------------------------------------------------------------------------
(* The invariant *)

Picture == [windows  : [Window -> Byte \X Byte \X Byte],
            segments : [Segment -> Byte \X Byte \X Byte]]
Zero == Uniform(<<0, 0, 0, 0>>)
Sent == drawn \union {Zero}

FromClient(d, cs) == (Len(d) > 0 /\ d[1] = OtherHash) \/ \E c \in cs : d = DatagramOf(c)

(* Everything has its type; the bytes of clients are among B. *)
ClientTypes(B) ==
  /\ edits \in 0..MaxEdits
  /\ canvas \in FrameOf(B) /\ drawn \subseteq FrameOf(B)
NetTypes ==
  /\ net \in Seq(Seq(Symbol)) /\ Len(net) <= MaxNet
  /\ \A k \in 1..Len(net) : FromClient(net[k], drawn)
ServerTypes(B) == buffer \in Sent /\ data \in [1..Length -> B]
QueueTypes(B) == udp \in Seq([1..Length -> B]) /\ Len(udp) <= MaxQueue
BrowserTypes ==
  /\ clients \subseteq Browser
  /\ inbox \in [Browser -> Seq(Seq(Nat))]
  /\ \A b \in Browser : Len(inbox[b]) <= MaxQueue
  /\ screen \in [Browser -> Picture]

Types(B) == ClientTypes(B) /\ NetTypes /\ ServerTypes(B) /\ QueueTypes(B) /\ BrowserTypes

(* A text that the page paints as f. *)
Tells(text, f) ==
  /\ Len(text) = Length
  /\ \A y \in 0..HEIGHT - 1, x \in 0..WIDTH - 1, a \in 1..3 :
       Clamped(text[3 + At4(WIDTH, y, x) + a]) = f.windows[<<y, x>>][a]
  /\ \A y \in 0..SEGWIDTH - 1, x \in 0..SEGNUM - 1, a \in 1..3 :
       Clamped(text[3 + GridsLength(HEIGHT, WIDTH) + At4(SEGNUM, y, x) + a]) = f.segments[<<y, x>>][a]

(* What is on its way, and what is on the screens, is a frame that was sent. *)
QueueTold == \A k \in 1..Len(udp) : \E f \in Sent : Carries(udp[k], f)
InboxTold == \A b \in Browser : \A k \in 1..Len(inbox[b]) : \E f \in Sent : Tells(inbox[b][k], f)
ScreenTold == \A b \in Browser : \E f \in Sent : screen[b] = Colours(f)
OnTheWay == QueueTold /\ InboxTold /\ ScreenTold

(* What the page makes of a character is a byte. *)
LEMMA ClampedTyped ==
  ASSUME NEW v \in Nat
  PROVE  Clamped(v) \in Byte
  BY DEF Clamped, Byte

(* What the page paints is a colour, however short the text. *)
LEMMA PaintedTyped ==
  ASSUME NEW text \in Seq(Nat), NEW p \in Nat, NEW old \in Byte \X Byte \X Byte
  PROVE  Painted(text, p, old) \in Byte \X Byte \X Byte
<1>1. CASE p + 2 < Len(text)
  <2>1. ASSUME NEW a \in 1..3
        PROVE  Clamped(text[p + a]) \in Byte
    <3>1. p + a \in 1..Len(text)
      BY <1>1
    <3>2. text[p + a] \in Nat
      BY <3>1
    <3> QED BY <3>2, ClampedTyped, Zenon
  <2>2. Painted(text, p, old) \in [1..3 -> Byte]
    BY <1>1, <2>1 DEF Painted
  <2> QED BY <2>2, Triples
<1>2. CASE ~(p + 2 < Len(text))
  BY <1>2 DEF Painted
<1> QED BY <1>1, <1>2

(* What the relay passes on of a transmission of f tells of f. *)
LEMMA TextTells ==
  ASSUME NEW f \in FrameOf(Clean), NEW d \in [1..Length -> Clean], Carries(d, f)
  PROVE  Tells(Text(d), f)
<1> DEFINE m == GridsLength(HEIGHT, WIDTH)
           n == GridsLength(SEGWIDTH, SEGNUM)
<1>1. Length = 3 + m + n /\ m \in Nat /\ n \in Nat /\ Length \in Nat
  BY Sizes, GridLength, LengthIs
<1>2. Len(Text(d)) = Length /\ \A p \in 1..Length : Clamped(Text(d)[p]) = d[p]
  BY <1>1, CleanText
<1>3. ASSUME NEW q \in [1..4 -> Clean]
      PROVE  Len(q) = 4
  <2>1. 4 \in Nat
    OBVIOUS
  <2> QED BY <2>1, FunctionIsSequence
<1>4. ASSUME NEW y \in 0..HEIGHT - 1, NEW x \in 0..WIDTH - 1, NEW a \in 1..3
      PROVE  Clamped(Text(d)[3 + At4(WIDTH, y, x) + a]) = f.windows[<<y, x>>][a]
  <2>1. At4(WIDTH, y, x) \in Nat /\ At4(WIDTH, y, x) + 4 <= m
    BY Sizes, At4Range DEF GridsLength
  <2>2. f.windows[<<y, x>>] \in [1..4 -> Clean]
    BY DEF FrameOf, Window
  <2>3. a \in 1..Len(f.windows[<<y, x>>])
    <3>1. Len(f.windows[<<y, x>>]) = 4
      BY <1>3, <2>2, Zenon
    <3> QED BY <3>1
  <2>4. d[3 + At4(WIDTH, y, x) + a] = f.windows[<<y, x>>][a]
    BY <2>3, Zenon DEF Carries, Holds
  <2> HIDE DEF m, n
  <2>5. 3 + At4(WIDTH, y, x) + a \in 1..Length
    BY <1>1, <2>1
  <2> QED BY <1>2, <2>4, <2>5, Zenon
<1>5. ASSUME NEW y \in 0..SEGWIDTH - 1, NEW x \in 0..SEGNUM - 1, NEW a \in 1..3
      PROVE  Clamped(Text(d)[3 + m + At4(SEGNUM, y, x) + a]) = f.segments[<<y, x>>][a]
  <2>1. At4(SEGNUM, y, x) \in Nat /\ At4(SEGNUM, y, x) + 4 <= n
    BY Sizes, At4Range DEF GridsLength
  <2>2. f.segments[<<y, x>>] \in [1..4 -> Clean]
    BY DEF FrameOf, Segment
  <2>3. a \in 1..Len(f.segments[<<y, x>>])
    <3>1. Len(f.segments[<<y, x>>]) = 4
      BY <1>3, <2>2, Zenon
    <3> QED BY <3>1
  <2>4. d[3 + m + At4(SEGNUM, y, x) + a] = f.segments[<<y, x>>][a]
    BY <2>3, Zenon DEF Carries, Holds
  <2> HIDE DEF m, n
  <2>5. 3 + m + At4(SEGNUM, y, x) + a \in 1..Length
    BY <1>1, <2>1
  <2> QED BY <1>2, <2>4, <2>5, Zenon
<1> QED BY <1>2, <1>4, <1>5, Zenon DEF Tells

(* A page that is told of f paints f. *)
LEMMA TextPainted ==
  ASSUME NEW f \in FrameOf(Byte), NEW text, Tells(text, f)
  PROVE  /\ \A c \in Window : \A old : Painted(text, PageWindow(c[1], c[2]), old) = SubSeq(f.windows[c], 1, 3)
         /\ \A c \in Segment : \A old : Painted(text, PageSegment(c[1], c[2]), old) = SubSeq(f.segments[c], 1, 3)
<1> DEFINE m == GridsLength(HEIGHT, WIDTH)
           n == GridsLength(SEGWIDTH, SEGNUM)
<1>1. Length = 3 + m + n /\ m \in Nat /\ n \in Nat
  BY Sizes, GridLength, LengthIs
<1>2. Len(text) = Length
  BY DEF Tells
<1>3. ASSUME NEW c \in Window, NEW old
      PROVE  Painted(text, PageWindow(c[1], c[2]), old) = SubSeq(f.windows[c], 1, 3)
  <2>1. c[1] \in 0..HEIGHT - 1 /\ c[2] \in 0..WIDTH - 1 /\ c = <<c[1], c[2]>>
    BY DEF Window
  <2> DEFINE at == At4(WIDTH, c[1], c[2])
  <2>2. at \in Nat /\ at + 4 <= m
    BY <2>1, Sizes, At4Range DEF GridsLength
  <2>3. PageWindow(c[1], c[2]) = 3 + at
    BY <2>1, Layouts
  <2>4. \A a \in 1..3 : Clamped(text[3 + at + a]) = f.windows[c][a]
    <3>1. \A a \in 1..3 : Clamped(text[3 + at + a]) = f.windows[<<c[1], c[2]>>][a]
      BY <2>1 DEF Tells
    <3> QED BY <2>1, <3>1
  <2>5. f.windows[c] \in [1..4 -> Byte]
    BY DEF FrameOf
  <2>6. SubSeq(f.windows[c], 1, 3) = [a \in 1..3 |-> f.windows[c][a]]
    BY <2>5, FirstThree
  <2> HIDE DEF at, m, n
  <2>7. 3 + at + 2 < Len(text)
    BY <1>1, <1>2, <2>2
  <2>8. Painted(text, 3 + at, old) = [a \in 1..3 |-> Clamped(text[3 + at + a])]
    BY <2>7, Zenon DEF Painted
  <2> QED BY <2>3, <2>4, <2>6, <2>8, Zenon
<1>4. ASSUME NEW c \in Segment, NEW old
      PROVE  Painted(text, PageSegment(c[1], c[2]), old) = SubSeq(f.segments[c], 1, 3)
  <2>1. c[1] \in 0..SEGWIDTH - 1 /\ c[2] \in 0..SEGNUM - 1 /\ c = <<c[1], c[2]>>
    BY DEF Segment
  <2> DEFINE at == At4(SEGNUM, c[1], c[2])
  <2>2. at \in Nat /\ at + 4 <= n
    BY <2>1, Sizes, At4Range DEF GridsLength
  <2>3. PageSegment(c[1], c[2]) = 3 + m + at
    BY <2>1, Layouts
  <2>4. \A a \in 1..3 : Clamped(text[3 + m + at + a]) = f.segments[c][a]
    <3>1. \A a \in 1..3 : Clamped(text[3 + m + at + a]) = f.segments[<<c[1], c[2]>>][a]
      BY <2>1 DEF Tells
    <3> QED BY <2>1, <3>1
  <2>5. f.segments[c] \in [1..4 -> Byte]
    BY DEF FrameOf
  <2>6. SubSeq(f.segments[c], 1, 3) = [a \in 1..3 |-> f.segments[c][a]]
    BY <2>5, FirstThree
  <2> HIDE DEF at, m, n
  <2>7. 3 + m + at + 2 < Len(text)
    BY <1>1, <1>2, <2>2
  <2>8. Painted(text, 3 + m + at, old) = [a \in 1..3 |-> Clamped(text[3 + m + at + a])]
    BY <2>7, Zenon DEF Painted
  <2> QED BY <2>3, <2>4, <2>6, <2>8, Zenon
<1> QED BY <1>3, <1>4

(* B holds what clients draw with. *)
Bytes(B) ==
  /\ B \subseteq Byte
  /\ 0 \in B /\ 127 \in B /\ NL \in B /\ Opaque \in B
  /\ Colour \subseteq B \X B \X B

(* The frames of some bytes are frames, and the first one is among them. *)
LEMMA FramesTyped ==
  ASSUME NEW B, Bytes(B)
  PROVE  /\ FrameOf(B) \subseteq FrameOf(Byte) /\ FrameOf(Byte) = Frame
         /\ Zero \in FrameOf(B)
<1>1. FrameOf(B) \subseteq FrameOf(Byte)
  BY DEF Bytes, FrameOf
<1>2. FrameOf(Byte) = Frame
  BY DEF FrameOf, Frame, Grid, Window, Segment, Quads, CHANNELS
<1>3. Zero \in FrameOf(B)
  BY UniformTyped DEF Zero, Bytes
<1> QED BY <1>1, <1>2, <1>3

(* A datagram consists of passcodes and bytes. *)
LEMMA DatagramTyped ==
  ASSUME NEW c \in Frame
  PROVE  DatagramOf(c) \in Seq(Symbol)
<1>1. c.windows \in Grid(HEIGHT, WIDTH) /\ c.segments \in Grid(SEGWIDTH, SEGNUM)
  BY DEF Frame
<1>2. Layout(DatagramOf(c), HASH, HEIGHT, WIDTH, c.windows, c.segments)
  BY <1>1, Sizes, DatagramLayout DEF DatagramOf
<1> QED BY <1>2 DEF Layout

(* At the start everything has its type. *)
LEMMA InitTypes ==
  ASSUME NEW B, Bytes(B), Init
  PROVE  Types(B)
<1>1. ClientTypes(B)
  <2>1. MaxEdits \in Nat
    BY WireAssumption
  <2>2. canvas \in FrameOf(B)
    BY UniformTyped DEF Init, Bytes
  <2> QED BY <2>1, <2>2 DEF Init, ClientTypes
<1>2. MaxNet \in Nat /\ MaxQueue \in Nat
  BY WireAssumption
<1>3. NetTypes
  BY <1>2 DEF Init, NetTypes
<1>4. ServerTypes(B)
  BY DEF Init, ServerTypes, Sent, Zero, Bytes
<1>5. QueueTypes(B)
  BY <1>2 DEF Init, QueueTypes
<1>6. BrowserTypes
  <2>1. Uniform(<<0, 0, 0>>) \in Picture
    BY DEF Uniform, Picture, Byte
  <2>2. screen \in [Browser -> Picture]
    BY <2>1 DEF Init
  <2> QED BY <1>2, <2>2 DEF Init, BrowserTypes
<1> QED BY <1>1, <1>3, <1>4, <1>5, <1>6 DEF Types

(* draw() forgets nothing that was sent. *)
LEMMA StillSent ==
  ASSUME drawn \subseteq drawn'
  PROVE  Sent \subseteq Sent' /\ \A d : FromClient(d, drawn) => FromClient(d, drawn')
  BY Zenon DEF Sent, FromClient, Zero

(* The calls that change the canvas leave it a canvas. *)
LEMMA SetTypes ==
  ASSUME NEW B, Bytes(B), ClientTypes(B),
         \/ \E w \in Window, c \in Colour : SetWindow(w, c) \/ SetChannel(w, c[1])
         \/ \E s \in Segment, c \in Colour : SetSegment(s, c)
  PROVE  ClientTypes(B)' /\ drawn' = drawn
<1>1. edits + 1 \in 0..MaxEdits \/ edits >= MaxEdits
  BY WireAssumption DEF ClientTypes
<1>2. ASSUME NEW w \in Window, NEW c \in Colour, SetWindow(w, c)
      PROVE  ClientTypes(B)' /\ drawn' = drawn
  <2>1. Append(c, Opaque) \in [1..4 -> B]
    BY Painting DEF Bytes
  <2>2. canvas' \in FrameOf(B)
    BY <1>2, <2>1 DEF SetWindow, ClientTypes, FrameOf
  <2>3. edits' \in 0..MaxEdits
    BY <1>1, <1>2, WireAssumption DEF SetWindow, ClientTypes
  <2> QED BY <1>2, <2>2, <2>3 DEF SetWindow, ClientTypes
<1>3. ASSUME NEW s \in Segment, NEW c \in Colour, SetSegment(s, c)
      PROVE  ClientTypes(B)' /\ drawn' = drawn
  <2>1. Append(c, Opaque) \in [1..4 -> B]
    BY Painting DEF Bytes
  <2>2. canvas' \in FrameOf(B)
    BY <1>3, <2>1 DEF SetSegment, ClientTypes, FrameOf
  <2>3. edits' \in 0..MaxEdits
    BY <1>1, <1>3, WireAssumption DEF SetSegment, ClientTypes
  <2> QED BY <1>3, <2>2, <2>3 DEF SetSegment, ClientTypes
<1>4. ASSUME NEW w \in Window, NEW c \in Colour, SetChannel(w, c[1])
      PROVE  ClientTypes(B)' /\ drawn' = drawn
  <2>1. c[1] \in B
    BY DEF Bytes
  <2>2. canvas' \in FrameOf(B)
    BY <1>4, <2>1 DEF SetChannel, ClientTypes, FrameOf
  <2>3. edits' \in 0..MaxEdits
    BY <1>1, <1>4, WireAssumption DEF SetChannel, ClientTypes
  <2> QED BY <1>4, <2>2, <2>3 DEF SetChannel, ClientTypes
<1> QED BY <1>2, <1>3, <1>4

(* draw(): the datagram of a canvas, or that of another wall, joins the others. *)
LEMMA AppendFromClient ==
  ASSUME NetTypes, Len(net) < MaxNet, NEW d \in Seq(Symbol), net' = Append(net, d),
         drawn \subseteq drawn', FromClient(d, drawn')
  PROVE  NetTypes'
<1>1. /\ net' \in Seq(Seq(Symbol)) /\ Len(net') = Len(net) + 1
      /\ \A k \in 1..Len(net) : net'[k] = net[k]
      /\ net'[Len(net) + 1] = d
  BY AppendEntries DEF NetTypes
<1>2. ASSUME NEW k \in 1..Len(net')
      PROVE  FromClient(net'[k], drawn')
  <2>1. CASE k = Len(net) + 1
    <3>1. net'[k] = d
      BY <1>1, <2>1
    <3> QED BY <3>1, Zenon DEF FromClient
  <2>2. CASE k # Len(net) + 1
    <3>1. k \in 1..Len(net)
      BY <1>1, <2>2 DEF NetTypes
    <3>2. net'[k] = net[k] /\ FromClient(net[k], drawn)
      BY <1>1, <3>1, Zenon DEF NetTypes
    <3>3. FromClient(net[k], drawn')
      BY <3>2, Zenon DEF FromClient
    <3> QED BY <3>2, <3>3, Zenon DEF FromClient
  <2> QED BY <2>1, <2>2
<1>3. Len(net') <= MaxNet
  BY <1>1, WireAssumption DEF NetTypes
<1> QED BY <1>1, <1>2, <1>3, Zenon DEF NetTypes

(* draw() sends a canvas, and remembers it. *)
LEMMA DrawTypes ==
  ASSUME NEW B, Bytes(B), ClientTypes(B), NetTypes, Draw
  PROVE  ClientTypes(B)' /\ NetTypes' /\ drawn \subseteq drawn'
<1> DEFINE d == DatagramOf(canvas)
<1>1. Len(net) < MaxNet /\ net' = Append(net, d) /\ drawn' = drawn \union {canvas}
  BY Zenon DEF Draw, DatagramOf
<1>2. canvas' = canvas /\ edits' = edits
  BY DEF Draw
<1>3. canvas \in Frame
  BY FramesTyped DEF ClientTypes
<1>4. d \in Seq(Symbol)
  BY <1>3, DatagramTyped
<1>5. FromClient(d, drawn')
  <2>1. canvas \in drawn'
    BY <1>1
  <2>2. d = DatagramOf(canvas)
    OBVIOUS
  <2> HIDE DEF d
  <2> QED BY <2>1, <2>2, <1>2, Zenon DEF FromClient
<1> HIDE DEF d
<1>6. drawn \subseteq drawn'
  BY <1>1
<1>7. NetTypes'
  BY <1>1, <1>4, <1>5, <1>6, AppendFromClient
<1> QED BY <1>1, <1>2, <1>6, <1>7 DEF ClientTypes

(* The smaller wall: one window at 0, 0. *)
LEMMA ElsewhereLayout ==
  ASSUME NEW c \in Frame
  PROVE  LET d == Datagram(OtherHash, 1, <<<<c.windows[<<0, 0>>]>>>>,
                                         Rows(c.segments, SEGWIDTH, SEGNUM))
         IN d \in Seq(Symbol) /\ Len(d) > 0 /\ d[1] = OtherHash
<1> DEFINE win == [w \in (0..1 - 1) \X (0..1 - 1) |-> c.windows[<<0, 0>>]]
           d == Datagram(OtherHash, 1, Rows(win, 1, 1), Rows(c.segments, SEGWIDTH, SEGNUM))
<1>1. <<0, 0>> \in Window /\ c.windows \in Grid(HEIGHT, WIDTH) /\ c.segments \in Grid(SEGWIDTH, SEGNUM)
  BY Sizes DEF Window, Frame
<1>2. win \in Grid(1, 1)
  BY <1>1 DEF Grid, Window
<1>3. Rows(win, 1, 1) = <<<<c.windows[<<0, 0>>]>>>>
  BY DEF Rows
<1> HIDE DEF win
<1>4. 1 \in Nat
  OBVIOUS
<1>5. Layout(d, OtherHash, 1, 1, win, c.segments)
  BY <1>1, <1>2, <1>4, DatagramLayout
<1>6. GridsLength(1, 1) \in Nat /\ GridsLength(SEGWIDTH, SEGNUM) \in Nat
  BY Sizes, GridLength
<1> HIDE DEF d
<1>7. d \in Seq(Symbol) /\ Len(d) > 0 /\ d[1] = OtherHash
  BY <1>5, <1>6 DEF Layout
<1> QED BY <1>3, <1>7, Zenon DEF d

(* A client of the smaller wall sends no canvas of ours. *)
LEMMA DrawElsewhereTypes ==
  ASSUME NEW B, Bytes(B), ClientTypes(B), NetTypes, DrawElsewhere
  PROVE  ClientTypes(B)' /\ NetTypes' /\ drawn' = drawn
<1> DEFINE d == Datagram(OtherHash, 1, <<<<canvas.windows[<<0, 0>>]>>>>,
                                       Rows(canvas.segments, SEGWIDTH, SEGNUM))
<1>1. Len(net) < MaxNet /\ net' = Append(net, d) /\ drawn' = drawn /\ canvas' = canvas /\ edits' = edits
  BY DEF DrawElsewhere, clientVars
<1>2. canvas \in Frame
  BY FramesTyped DEF ClientTypes
<1>3. d \in Seq(Symbol) /\ Len(d) > 0 /\ d[1] = OtherHash
  BY <1>2, ElsewhereLayout, Zenon
<1> HIDE DEF d
<1>4. FromClient(d, drawn')
  BY <1>3 DEF FromClient
<1>5. NetTypes'
  BY <1>1, <1>3, <1>4, AppendFromClient
<1> QED BY <1>1, <1>5 DEF ClientTypes

(* A datagram that is lost or read leaves the others as they are. *)
LEMMA RemoveTypes ==
  ASSUME NetTypes, NEW k \in 1..Len(net), net' = RemoveAt(net, k), drawn' = drawn
  PROVE  NetTypes'
<1>1. /\ net' \in Seq(Seq(Symbol))
      /\ Len(net') = Len(net) - 1
      /\ \A j \in 1..(Len(net) - 1) : net'[j] = IF j < k THEN net[j] ELSE net[j + 1]
  BY RemoveAtEntries DEF NetTypes
<1>2. ASSUME NEW j \in 1..Len(net')
      PROVE  FromClient(net'[j], drawn')
  <2>1. \E i \in 1..Len(net) : net'[j] = net[i]
    <3>1. j \in 1..(Len(net) - 1) /\ j \in 1..Len(net) /\ j + 1 \in 1..Len(net)
      BY <1>1 DEF NetTypes
    <3> QED BY <1>1, <3>1, Zenon
  <2>2. PICK i \in 1..Len(net) : net'[j] = net[i]
    BY <2>1
  <2>3. FromClient(net[i], drawn)
    BY DEF NetTypes
  <2> QED BY <2>2, <2>3, Zenon DEF FromClient
<1>3. Len(net') <= MaxNet
  BY <1>1, WireAssumption DEF NetTypes
<1> QED BY <1>1, <1>2, <1>3, Zenon DEF NetTypes

(* listen(): what is decoded is a canvas that was sent. *)
LEMMA HeardIsSent ==
  ASSUME NEW B, Bytes(B), ClientTypes(B), NetTypes, NEW k \in 1..Len(net), Valid(net[k])
  PROVE  \E c \in drawn : net[k] = DatagramOf(c) /\ Decoded(net[k]) = c
<1>1. FromClient(net[k], drawn)
  BY DEF NetTypes
<1>2. ~(Len(net[k]) > 0 /\ net[k][1] = OtherHash)
  <2>1. net[k] \in Seq(Symbol)
    BY DEF NetTypes
  <2>2. HASH # OtherHash
    BY WireAssumption
  <2> QED BY <2>1, <2>2 DEF Valid, At
<1>3. PICK c \in drawn : net[k] = DatagramOf(c)
  BY <1>1, <1>2, Zenon DEF FromClient
<1>4. c \in Frame
  BY FramesTyped DEF ClientTypes
<1>5. Decoded(net[k]) = c
  BY <1>3, <1>4, DecodedDatagram
<1> QED BY <1>3, <1>5, Zenon

(* listen() keeps a frame that was sent, whatever arrives. *)
LEMMA ListenTypes ==
  ASSUME NEW B, Bytes(B), ClientTypes(B), NetTypes, buffer \in Sent, NEW k \in 1..Len(net), Listen(k)
  PROVE  NetTypes' /\ buffer' \in Sent'
<1>1. net' = RemoveAt(net, k) /\ drawn' = drawn
  BY DEF Listen, clientVars
<1>2. NetTypes'
  BY <1>1, RemoveTypes
<1>3. Sent' = Sent
  BY <1>1 DEF Sent, Zero
<1>4. CASE Valid(net[k])
  <2>1. buffer' = Decoded(net[k])
    BY <1>4 DEF Listen
  <2>2. Decoded(net[k]) \in drawn
    BY <1>4, HeardIsSent, Zenon
  <2> QED BY <1>2, <1>3, <2>1, <2>2 DEF Sent
<1>5. CASE ~Valid(net[k])
  <2>1. buffer' = buffer
    BY <1>5 DEF Listen
  <2> QED BY <1>2, <1>3, <2>1
<1> QED BY <1>4, <1>5

(* What was sent consists of the bytes clients use. *)
LEMMA SentTyped ==
  ASSUME NEW B, Bytes(B), ClientTypes(B)
  PROVE  Sent \subseteq FrameOf(B)
  BY FramesTyped DEF ClientTypes, Sent

(* send() keeps the array, and the queue before the relay bounded. *)
LEMMA SendTypes ==
  ASSUME NEW B, Bytes(B), ClientTypes(B), ServerTypes(B), QueueTypes(B), Send
  PROVE  ServerTypes(B)' /\ QueueTypes(B)'
<1>1. buffer \in FrameOf(B) /\ NL \in B
  BY SentTyped DEF ServerTypes, Bytes
<1>2. data' = Encoded(buffer, data) /\ buffer' = buffer /\ drawn' = drawn
      /\ udp' = IF Len(udp) < MaxQueue THEN Append(udp, data') ELSE udp
  BY DEF Send, clientVars
<1>3. data' \in [1..Length -> B]
  BY <1>1, <1>2, EncodedTyped, Zenon DEF ServerTypes
<1>4. Sent' = Sent
  BY <1>2 DEF Sent, Zero
<1>5. QueueTypes(B)'
  <2> DEFINE V == [1..Length -> B]
  <2>1. udp \in Seq(V) /\ Len(udp) <= MaxQueue /\ data' \in V /\ MaxQueue \in Nat
    BY <1>3, WireAssumption DEF QueueTypes
  <2> HIDE DEF V
  <2>2. Append(udp, data') \in Seq(V) /\ Len(Append(udp, data')) = Len(udp) + 1
    BY <2>1, AppendProperties
  <2>3. udp' \in Seq(V) /\ Len(udp') <= MaxQueue
    BY <1>2, <2>1, <2>2
  <2> QED BY <2>3 DEF QueueTypes, V
<1> QED BY <1>2, <1>3, <1>4, <1>5 DEF ServerTypes

(* The relay passes on text, to browsers that keep up. *)
LEMMA BroadcastTypes ==
  ASSUME NEW B, Bytes(B), QueueTypes(B), BrowserTypes, Broadcast
  PROVE  QueueTypes(B)' /\ BrowserTypes'
<1> DEFINE V == [1..Length -> B]
<1>1. udp \in Seq(V) /\ udp # << >> /\ udp' = Tail(udp)
  BY DEF QueueTypes, Broadcast
<1>2. Head(udp) \in V
  BY <1>1, HeadTailProperties
<1>3. udp' \in Seq(V) /\ Len(udp') = Len(udp) - 1
  BY <1>1, HeadTailProperties
<1>4. QueueTypes(B)'
  BY <1>3, WireAssumption DEF QueueTypes
<1>5. Head(udp) \in [1..Length -> Byte]
  BY <1>2 DEF Bytes
<1>6. Text(Head(udp)) \in Seq(Nat)
  BY <1>5, LengthIs, TextTyped
<1> DEFINE t == Text(Head(udp))
<1>7. inbox' = [b \in Browser |-> IF b \in clients THEN Append(inbox[b], t) ELSE inbox[b]]
  BY Zenon DEF Broadcast
<1>8. t \in Seq(Nat)
  BY <1>6
<1> HIDE DEF t
<1>9. ASSUME NEW b \in Browser
      PROVE  inbox'[b] \in Seq(Seq(Nat)) /\ Len(inbox'[b]) <= MaxQueue
  <2>1. inbox[b] \in Seq(Seq(Nat)) /\ Len(inbox[b]) <= MaxQueue
    BY DEF BrowserTypes
  <2>2. CASE b \in clients
    <3>1. Len(inbox[b]) < MaxQueue
      BY <2>2 DEF Broadcast
    <3>2. inbox'[b] = Append(inbox[b], t)
      BY <1>7, <2>2
    <3>3. inbox'[b] \in Seq(Seq(Nat)) /\ Len(inbox'[b]) = Len(inbox[b]) + 1
      BY <1>8, <2>1, <3>2, AppendProperties
    <3> QED BY <2>1, <3>1, <3>3, WireAssumption
  <2>3. CASE b \notin clients
    BY <1>7, <2>1, <2>3
  <2> QED BY <2>2, <2>3
<1>10. inbox' \in [Browser -> Seq(Seq(Nat))]
  BY <1>7, <1>9
<1> QED BY <1>4, <1>9, <1>10 DEF BrowserTypes, Broadcast

(* A page that connects starts black with nothing on its way. *)
LEMMA RequestTypes ==
  ASSUME BrowserTypes, NEW b \in Browser, Request(b)
  PROVE  BrowserTypes'
<1>1. Uniform(<<0, 0, 0>>) \in Picture
  BY DEF Uniform, Picture, Byte
<1>2. screen' \in [Browser -> Picture] /\ clients' \subseteq Browser
  BY <1>1 DEF Request, BrowserTypes
<1>3. inbox' \in [Browser -> Seq(Seq(Nat))] /\ \A c \in Browser : Len(inbox'[c]) <= MaxQueue
  BY WireAssumption DEF Request, BrowserTypes
<1> QED BY <1>2, <1>3 DEF BrowserTypes

(* A page that is closed gets nothing more. *)
LEMMA CloseTypes ==
  ASSUME BrowserTypes, NEW b \in Browser, Close(b)
  PROVE  BrowserTypes'
<1>1. screen' = screen /\ clients' \subseteq Browser
  BY DEF Close, BrowserTypes
<1>2. inbox' \in [Browser -> Seq(Seq(Nat))] /\ \A c \in Browser : Len(inbox'[c]) <= MaxQueue
  BY WireAssumption DEF Close, BrowserTypes
<1> QED BY <1>1, <1>2 DEF BrowserTypes

(* A page shows colours, whatever text arrives. *)
LEMMA ShowTypes ==
  ASSUME BrowserTypes, NEW b \in Browser, Show(b)
  PROVE  BrowserTypes'
<1> DEFINE t == Head(inbox[b])
           old == screen[b]
           new == [windows  |-> [c \in Window |-> Painted(t, PageWindow(c[1], c[2]), old.windows[c])],
                   segments |-> [c \in Segment |-> Painted(t, PageSegment(c[1], c[2]), old.segments[c])]]
<1>1. inbox[b] \in Seq(Seq(Nat)) /\ inbox[b] # << >> /\ Len(inbox[b]) <= MaxQueue
  BY DEF BrowserTypes, Show
<1>2. t \in Seq(Nat) /\ Tail(inbox[b]) \in Seq(Seq(Nat)) /\ Len(Tail(inbox[b])) = Len(inbox[b]) - 1
  BY <1>1, HeadTailProperties
<1>3. old \in Picture
  BY DEF BrowserTypes
<1>4. screen' = [screen EXCEPT ![b] = new] /\ inbox' = [inbox EXCEPT ![b] = Tail(inbox[b])] /\ clients' = clients
  BY DEF Show
<1> HIDE DEF t, old
<1>5. ASSUME NEW c \in Window
      PROVE  Painted(t, PageWindow(c[1], c[2]), old.windows[c]) \in Byte \X Byte \X Byte
  <2>1. old.windows[c] \in Byte \X Byte \X Byte
    BY <1>3 DEF Picture
  <2>2. PageWindow(c[1], c[2]) \in Nat
    BY Sizes DEF Window, PageWindow, HEADEROFFSET
  <2> QED BY <1>2, <2>1, <2>2, PaintedTyped, Zenon
<1>6. ASSUME NEW c \in Segment
      PROVE  Painted(t, PageSegment(c[1], c[2]), old.segments[c]) \in Byte \X Byte \X Byte
  <2>1. old.segments[c] \in Byte \X Byte \X Byte
    BY <1>3 DEF Picture
  <2>2. PageSegment(c[1], c[2]) \in Nat
    BY Sizes DEF Segment, PageSegment, headersize, HEADEROFFSET
  <2> QED BY <1>2, <2>1, <2>2, PaintedTyped, Zenon
<1>7. new \in Picture
  BY <1>5, <1>6, Zenon DEF Picture
<1> HIDE DEF new
<1>8. screen' \in [Browser -> Picture]
  BY <1>4, <1>7 DEF BrowserTypes
<1>9. inbox' \in [Browser -> Seq(Seq(Nat))] /\ \A c \in Browser : Len(inbox'[c]) <= MaxQueue
  BY <1>1, <1>2, <1>4, WireAssumption DEF BrowserTypes
<1> QED BY <1>4, <1>8, <1>9 DEF BrowserTypes

(* Every step preserves the types. *)
LEMMA NextTypes ==
  ASSUME NEW B, Bytes(B), Types(B), [Next]_vars
  PROVE  Types(B)'
<1> USE DEF Types
<1>1. ASSUME drawn' = drawn, buffer' = buffer, data' = data
      PROVE  ServerTypes(B)'
  BY <1>1 DEF ServerTypes, Sent, Zero
<1>2. ASSUME drawn \subseteq drawn', buffer' = buffer, data' = data
      PROVE  ServerTypes(B)'
  BY <1>2 DEF ServerTypes, Sent, Zero
<1>3. ASSUME udp' = udp
      PROVE  QueueTypes(B)'
  BY <1>3 DEF QueueTypes
<1>4. ASSUME clients' = clients, inbox' = inbox, screen' = screen
      PROVE  BrowserTypes'
  BY <1>4 DEF BrowserTypes
<1>5. ASSUME drawn' = drawn, net' = net
      PROVE  NetTypes'
  BY <1>5 DEF NetTypes, FromClient
<1>6. ASSUME canvas' = canvas, edits' = edits, drawn' = drawn
      PROVE  ClientTypes(B)'
  BY <1>6 DEF ClientTypes
<1>7. CASE \/ \E w \in Window, c \in Colour : SetWindow(w, c) \/ SetChannel(w, c[1])
           \/ \E s \in Segment, c \in Colour : SetSegment(s, c)
  <2>1. ClientTypes(B)' /\ drawn' = drawn
    BY <1>7, SetTypes
  <2>2. UNCHANGED <<net, buffer, data, udp, clients, inbox, screen>>
    BY <1>7 DEF SetWindow, SetChannel, SetSegment, serverVars, browserVars
  <2> QED BY <2>1, <2>2, <1>1, <1>3, <1>4, <1>5
<1>8. CASE Draw
  <2>1. ClientTypes(B)' /\ NetTypes' /\ drawn \subseteq drawn'
    BY <1>8, DrawTypes
  <2>2. UNCHANGED <<buffer, data, udp, clients, inbox, screen>>
    BY <1>8 DEF Draw, serverVars, browserVars
  <2> QED BY <2>1, <2>2, <1>2, <1>3, <1>4
<1>9. CASE DrawElsewhere
  <2>1. ClientTypes(B)' /\ NetTypes' /\ drawn' = drawn
    BY <1>9, DrawElsewhereTypes
  <2>2. UNCHANGED <<buffer, data, udp, clients, inbox, screen>>
    BY <1>9 DEF DrawElsewhere, serverVars, browserVars
  <2> QED BY <2>1, <2>2, <1>1, <1>3, <1>4
<1>10. ASSUME NEW k \in 1..Len(net), Lose(k)
       PROVE  Types(B)'
  <2>1. net' = RemoveAt(net, k) /\ UNCHANGED <<canvas, edits, drawn, buffer, data, udp, clients, inbox, screen>>
    BY <1>10 DEF Lose, clientVars, serverVars, browserVars
  <2>2. NetTypes'
    BY <2>1, RemoveTypes
  <2> QED BY <2>1, <2>2, <1>1, <1>3, <1>4, <1>6
<1>11. ASSUME NEW k \in 1..Len(net), Listen(k)
       PROVE  Types(B)'
  <2>1. UNCHANGED <<canvas, edits, drawn, data, udp, clients, inbox, screen>>
    BY <1>11 DEF Listen, clientVars, browserVars
  <2>2. NetTypes' /\ buffer' \in Sent'
    BY <1>11, ListenTypes DEF ServerTypes
  <2>3. ServerTypes(B)'
    BY <2>1, <2>2 DEF ServerTypes
  <2> QED BY <2>1, <2>2, <2>3, <1>3, <1>4, <1>6
<1>12. CASE Send
  <2>1. ServerTypes(B)' /\ QueueTypes(B)'
    BY <1>12, SendTypes
  <2>2. UNCHANGED <<canvas, edits, drawn, net, clients, inbox, screen>>
    BY <1>12 DEF Send, clientVars, browserVars
  <2> QED BY <2>1, <2>2, <1>4, <1>5, <1>6
<1>13. CASE Broadcast
  <2>1. QueueTypes(B)' /\ BrowserTypes'
    BY <1>13, BroadcastTypes
  <2>2. UNCHANGED <<canvas, edits, drawn, net, buffer, data>>
    BY <1>13 DEF Broadcast, clientVars, serverVars
  <2> QED BY <2>1, <2>2, <1>1, <1>5, <1>6
<1>14. ASSUME NEW b \in Browser, Request(b) \/ Close(b) \/ Show(b)
       PROVE  Types(B)'
  <2>1. BrowserTypes'
    BY <1>14, RequestTypes, CloseTypes, ShowTypes
  <2>2. UNCHANGED <<canvas, edits, drawn, net, buffer, data, udp>>
    BY <1>14 DEF Request, Close, Show, clientVars, serverVars
  <2> QED BY <2>1, <2>2, <1>1, <1>3, <1>5, <1>6
<1>15. CASE UNCHANGED vars
  <2>1. UNCHANGED <<canvas, edits, drawn, net, buffer, data, udp, clients, inbox, screen>>
    BY <1>15 DEF vars, clientVars, serverVars, browserVars
  <2> QED BY <2>1, <1>1, <1>3, <1>4, <1>5, <1>6
<1> QED BY <1>7, <1>8, <1>9, <1>10, <1>11, <1>12, <1>13, <1>14, <1>15 DEF Next, Client, Network

(* The types imply TypeOK. *)
LEMMA TypesTypeOK ==
  ASSUME Types(Byte)
  PROVE  TypeOK
<1> USE DEF Types
<1>1. FrameOf(Byte) \subseteq [windows : [Window -> Quad], segments : [Segment -> Quad]]
  <2>1. [1..4 -> Byte] \subseteq Quad
    BY FunctionIsSequence DEF Quad
  <2> HIDE DEF Quad
  <2> QED BY <2>1 DEF FrameOf
<1>2. Sent \subseteq FrameOf(Byte)
  BY UniformTyped DEF ClientTypes, Sent, Zero, Byte
<1>3. /\ edits \in 0..MaxEdits
      /\ drawn \subseteq [windows : [Window -> Quad], segments : [Segment -> Quad]]
      /\ {canvas, buffer} \subseteq [windows : [Window -> Quad], segments : [Segment -> Quad]]
  BY <1>1, <1>2 DEF ClientTypes, ServerTypes
<1> QED BY <1>3, Zenon DEF TypeOK, NetTypes, ServerTypes, QueueTypes, BrowserTypes, Picture

(* Colours are made of bytes (WireAssumption). *)
LEMMA AllBytes == Bytes(Byte)
  BY WireAssumption DEF Bytes, Byte, NL, Opaque

(***************************************************************************)
(* TypeOK holds: queues stay within their bounds, and what is drawn,       *)
(* encoded and painted are bytes, also where the relay reads pairs of      *)
(* bytes as one character.  No assumption on the colours.                  *)
(***************************************************************************)
THEOREM Typed == Spec => []TypeOK
<1>1. Init => Types(Byte)
  BY AllBytes, InitTypes
<1>2. Types(Byte) /\ [Next]_vars => Types(Byte)'
  BY AllBytes, NextTypes
<1>3. Types(Byte) => TypeOK
  BY TypesTypeOK
<1> QED BY <1>1, <1>2, <1>3, PTL DEF Spec

-----------------------------------------------------------------------------
(* What is on its way *)

(* A page that connects shows black, the colours of the server's first frame. *)
LEMMA BlackIsZero == Uniform(<<0, 0, 0>>) = Colours(Zero)
<1> DEFINE q == <<0, 0, 0, 0>>
<1>1. q \in [1..4 -> Nat] /\ \A a \in 1..3 : q[a] = 0
  OBVIOUS
<1>2. [a \in 1..3 |-> q[a]] = <<0, 0, 0>>
  OBVIOUS
<1> HIDE DEF q
<1>3. SubSeq(q, 1, 3) = <<0, 0, 0>>
  BY <1>1, <1>2, FirstThree, Zenon
<1>4. \A c \in Window : Zero.windows[c] = q
  BY DEF Zero, Uniform, q
<1>5. \A c \in Segment : Zero.segments[c] = q
  BY DEF Zero, Uniform, q
<1>6. /\ \A c \in Window : SubSeq(Zero.windows[c], 1, 3) = <<0, 0, 0>>
      /\ \A c \in Segment : SubSeq(Zero.segments[c], 1, 3) = <<0, 0, 0>>
  BY <1>3, <1>4, <1>5, Zenon
<1> QED BY <1>6 DEF Uniform, Colours

(* send() puts a frame that was sent on its way to the relay, ... *)
LEMMA SendTold ==
  ASSUME NEW B, Bytes(B), Types(B), QueueTold, Send
  PROVE  QueueTold'
<1>1. drawn' = drawn /\ data' = Encoded(buffer, data)
      /\ udp' = IF Len(udp) < MaxQueue THEN Append(udp, data') ELSE udp
  BY DEF Send, clientVars
<1>2. Sent' = Sent
  BY <1>1 DEF Sent, Zero
<1>3. buffer \in Sent /\ Carries(data', buffer)
  <2>1. buffer \in Sent
    BY DEF Types, ServerTypes
  <2>2. buffer \in FrameOf(Byte)
    BY <2>1, SentTyped, FramesTyped DEF Types
  <2> QED BY <1>1, <2>1, <2>2, EncodedCarries
<1>4. data' \in [1..Length -> B] /\ udp \in Seq([1..Length -> B])
  BY SendTypes DEF Types, ServerTypes, QueueTypes
<1>5. CASE Len(udp) < MaxQueue
  <2>1. /\ Len(udp') = Len(udp) + 1
        /\ \A k \in 1..Len(udp) : udp'[k] = udp[k]
        /\ udp'[Len(udp) + 1] = data'
    BY <1>1, <1>4, <1>5, AppendEntries
  <2>2. ASSUME NEW k \in 1..Len(udp')
        PROVE  \E f \in Sent : Carries(udp'[k], f)
    <3>1. CASE k = Len(udp) + 1
      BY <1>3, <2>1, <3>1, Zenon
    <3>2. CASE k # Len(udp) + 1
      <4>1. k \in 1..Len(udp)
        BY <1>4, <2>1, <3>2
      <4> QED BY <2>1, <4>1, Zenon DEF QueueTold
    <3> QED BY <3>1, <3>2
  <2> QED BY <1>2, <2>2, Zenon DEF QueueTold
<1>6. CASE ~(Len(udp) < MaxQueue)
  <2>1. udp' = udp
    BY <1>1, <1>6
  <2> QED BY <1>2, <2>1, Zenon DEF QueueTold
<1> QED BY <1>5, <1>6

(* ... the relay passes it on to every browser, ... *)
LEMMA BroadcastTold ==
  ASSUME Bytes(Clean), Types(Clean), QueueTold, InboxTold, Broadcast
  PROVE  QueueTold' /\ InboxTold'
<1> DEFINE V == [1..Length -> Clean]
           t == Text(Head(udp))
<1>1. udp \in Seq(V) /\ udp # << >> /\ udp' = Tail(udp) /\ drawn' = drawn
  BY DEF Types, QueueTypes, Broadcast, clientVars
<1>2. Sent' = Sent
  BY <1>1 DEF Sent, Zero
<1>3. /\ Head(udp) = udp[1] /\ 1 \in 1..Len(udp) /\ udp[1] \in V
      /\ Len(udp') = Len(udp) - 1
      /\ \A k \in 1..Len(udp') : udp'[k] = udp[k + 1] /\ k + 1 \in 1..Len(udp)
  BY <1>1, HeadTailProperties
<1>4. PICK f \in Sent : Carries(udp[1], f)
  BY <1>3, Zenon DEF QueueTold
<1>5. f \in FrameOf(Clean)
  BY SentTyped DEF Types
<1>6. Tells(t, f)
  <2>1. Tells(Text(udp[1]), f)
    BY <1>3, <1>4, <1>5, TextTells
  <2> QED BY <1>3, <2>1, Zenon
<1>7. inbox' = [b \in Browser |-> IF b \in clients THEN Append(inbox[b], t) ELSE inbox[b]]
  BY Zenon DEF Broadcast
<1>8. t \in Seq(Nat)
  <2>1. udp[1] \in [1..Length -> Byte]
    BY <1>3 DEF Bytes
  <2>2. Text(udp[1]) \in Seq(Nat)
    BY <2>1, LengthIs, TextTyped
  <2> QED BY <1>3, <2>2, Zenon
<1> HIDE DEF t
<1>9. QueueTold'
  <2>1. \A k \in 1..Len(udp') : \E g \in Sent : Carries(udp'[k], g)
    BY <1>3, Zenon DEF QueueTold
  <2> QED BY <1>2, <2>1, Zenon DEF QueueTold
<1>10. ASSUME NEW b \in Browser, NEW k \in 1..Len(inbox'[b])
       PROVE  \E g \in Sent : Tells(inbox'[b][k], g)
  <2>1. inbox[b] \in Seq(Seq(Nat))
    BY DEF Types, BrowserTypes
  <2>2. CASE b \in clients
    <3>1. inbox'[b] = Append(inbox[b], t)
      BY <1>7, <2>2
    <3>2. /\ Len(inbox'[b]) = Len(inbox[b]) + 1
          /\ \A j \in 1..Len(inbox[b]) : inbox'[b][j] = inbox[b][j]
          /\ inbox'[b][Len(inbox[b]) + 1] = t
      BY <1>8, <2>1, <3>1, AppendEntries
    <3>3. CASE k = Len(inbox[b]) + 1
      BY <1>6, <3>2, <3>3, Zenon
    <3>4. CASE k # Len(inbox[b]) + 1
      <4>1. k \in 1..Len(inbox[b])
        BY <2>1, <3>2, <3>4
      <4> QED BY <3>2, <4>1, Zenon DEF InboxTold
    <3> QED BY <3>3, <3>4
  <2>3. CASE b \notin clients
    <3>1. inbox'[b] = inbox[b]
      BY <1>7, <2>3
    <3> QED BY <3>1, Zenon DEF InboxTold
  <2> QED BY <2>2, <2>3
<1>11. InboxTold'
  BY <1>2, <1>10, Zenon DEF InboxTold
<1> QED BY <1>9, <1>11

(* ... one that connects or leaves has nothing on its way, ... *)
LEMMA RequestTold ==
  ASSUME BrowserTypes, InboxTold, ScreenTold, NEW b \in Browser, Request(b) \/ Close(b)
  PROVE  InboxTold' /\ ScreenTold'
<1>1. drawn' = drawn /\ inbox' = [inbox EXCEPT ![b] = << >>]
  BY DEF Request, Close, clientVars
<1>2. Sent' = Sent
  BY <1>1 DEF Sent, Zero
<1>3. \A c \in Browser : c # b => inbox'[c] = inbox[c]
  BY <1>1 DEF BrowserTypes
<1>4. Len(inbox'[b]) = 0
  BY <1>1 DEF BrowserTypes
<1>5. 1..Len(inbox'[b]) = {}
  BY <1>4
<1>6. ASSUME NEW c \in Browser, NEW k \in 1..Len(inbox'[c])
      PROVE  \E f \in Sent : Tells(inbox'[c][k], f)
  <2>1. c # b
    BY <1>5
  <2> QED BY <1>3, <2>1, Zenon DEF InboxTold
<1>7. InboxTold'
  BY <1>2, <1>6, Zenon DEF InboxTold
<1>8. ASSUME NEW c \in Browser
      PROVE  \E f \in Sent : screen'[c] = Colours(f)
  <2>1. screen'[c] = screen[c] \/ screen'[c] = Colours(Zero)
    BY BlackIsZero DEF Request, Close, BrowserTypes
  <2> QED BY <2>1, Zenon DEF ScreenTold, Sent
<1>9. ScreenTold'
  BY <1>2, <1>8, Zenon DEF ScreenTold, Colours
<1> QED BY <1>7, <1>9

(* ... and the page shows it. *)
LEMMA ShowTold ==
  ASSUME NEW B, Bytes(B), Types(B), InboxTold, ScreenTold, NEW b \in Browser, Show(b)
  PROVE  InboxTold' /\ ScreenTold'
<1> DEFINE t == Head(inbox[b])
           old == screen[b]
           new == [windows  |-> [c \in Window |-> Painted(t, PageWindow(c[1], c[2]), old.windows[c])],
                   segments |-> [c \in Segment |-> Painted(t, PageSegment(c[1], c[2]), old.segments[c])]]
<1>1. inbox \in [Browser -> Seq(Seq(Nat))] /\ inbox[b] \in Seq(Seq(Nat)) /\ inbox[b] # << >>
  BY DEF Types, BrowserTypes, Show
<1>2. /\ t = inbox[b][1] /\ 1 \in 1..Len(inbox[b])
      /\ Len(Tail(inbox[b])) = Len(inbox[b]) - 1
      /\ \A k \in 1..Len(Tail(inbox[b])) : Tail(inbox[b])[k] = inbox[b][k + 1] /\ k + 1 \in 1..Len(inbox[b])
  BY <1>1, HeadTailProperties
<1>3. screen' = [screen EXCEPT ![b] = new] /\ inbox' = [inbox EXCEPT ![b] = Tail(inbox[b])] /\ drawn' = drawn
  BY DEF Show, clientVars
<1>4. PICK f \in Sent : Tells(inbox[b][1], f)
  BY <1>2, Zenon DEF InboxTold
<1>5. f \in FrameOf(Byte)
  BY SentTyped, FramesTyped DEF Types
<1>6. Tells(t, f)
  BY <1>2, <1>4, Zenon
<1> HIDE DEF t, old
<1>7. /\ \A c \in Window : Painted(t, PageWindow(c[1], c[2]), old.windows[c]) = SubSeq(f.windows[c], 1, 3)
      /\ \A c \in Segment : Painted(t, PageSegment(c[1], c[2]), old.segments[c]) = SubSeq(f.segments[c], 1, 3)
  <2>1. /\ \A c \in Window : \A o : Painted(t, PageWindow(c[1], c[2]), o) = SubSeq(f.windows[c], 1, 3)
        /\ \A c \in Segment : \A o : Painted(t, PageSegment(c[1], c[2]), o) = SubSeq(f.segments[c], 1, 3)
    BY <1>5, <1>6, TextPainted
  <2> QED BY <2>1, Zenon
<1>8. new = Colours(f)
  BY <1>7, Zenon DEF Colours
<1> HIDE DEF new
<1>9. Sent' = Sent
  BY <1>3 DEF Sent, Zero
<1>10. ASSUME NEW c \in Browser
       PROVE  \E g \in Sent : screen'[c] = Colours(g)
  <2>1. screen'[c] = screen[c] \/ screen'[c] = Colours(f)
    BY <1>3, <1>8 DEF Types, BrowserTypes
  <2> QED BY <1>4, <2>1, Zenon DEF ScreenTold
<1>11. ScreenTold'
  BY <1>9, <1>10, Zenon DEF ScreenTold, Colours
<1>12. ASSUME NEW c \in Browser, NEW k \in 1..Len(inbox'[c])
       PROVE  \E g \in Sent : Tells(inbox'[c][k], g)
  <2>1. CASE c = b
    <3>1. inbox'[c] = Tail(inbox[b])
      BY <1>1, <1>3, <2>1
    <3>2. inbox'[c][k] = inbox[b][k + 1] /\ k + 1 \in 1..Len(inbox[b])
      BY <1>2, <3>1, Zenon
    <3> QED BY <3>2, Zenon DEF InboxTold
  <2>2. CASE c # b
    <3>1. inbox'[c] = inbox[c]
      BY <1>1, <1>3, <2>2
    <3> QED BY <3>1, Zenon DEF InboxTold
  <2> QED BY <2>1, <2>2
<1>13. InboxTold'
  BY <1>9, <1>12, Zenon DEF InboxTold
<1> QED BY <1>11, <1>13

(* At the start nothing is on its way, and screens are black. *)
LEMMA InitTold ==
  ASSUME Init
  PROVE  OnTheWay
<1>1. Len(udp) = 0 /\ \A b \in Browser : Len(inbox[b]) = 0
  BY DEF Init
<1>2. 1..Len(udp) = {} /\ \A b \in Browser : 1..Len(inbox[b]) = {}
  BY <1>1
<1>3. \A b \in Browser : screen[b] = Colours(Zero)
  BY BlackIsZero DEF Init
<1>4. ScreenTold
  BY <1>3, Zenon DEF ScreenTold, Sent
<1> QED BY <1>2, <1>4, Zenon DEF OnTheWay, QueueTold, InboxTold

(* Every step keeps what is on its way a frame that was sent. *)
LEMMA NextTold ==
  ASSUME Bytes(Clean), Types(Clean), OnTheWay, [Next]_vars
  PROVE  OnTheWay'
<1>0. QueueTold /\ InboxTold /\ ScreenTold /\ BrowserTypes
  BY DEF OnTheWay, Types
<1>1. ASSUME drawn \subseteq drawn', udp' = udp
      PROVE  QueueTold'
  <2>1. Sent \subseteq Sent'
    BY <1>1, StillSent
  <2> QED BY <1>0, <1>1, <2>1, Zenon DEF QueueTold
<1>2. ASSUME drawn \subseteq drawn', inbox' = inbox
      PROVE  InboxTold'
  <2>1. Sent \subseteq Sent'
    BY <1>2, StillSent
  <2> QED BY <1>0, <1>2, <2>1, Zenon DEF InboxTold
<1>3. ASSUME drawn \subseteq drawn', screen' = screen
      PROVE  ScreenTold'
  <2>1. Sent \subseteq Sent'
    BY <1>3, StillSent
  <2> QED BY <1>0, <1>3, <2>1, Zenon DEF ScreenTold, Colours
<1>4. CASE Client \/ Network \/ UNCHANGED vars
  <2>1. UNCHANGED <<udp, inbox, screen>> /\ drawn \subseteq drawn'
    <3>1. CASE Client
      BY <3>1 DEF Client, SetWindow, SetSegment, SetChannel, Draw, DrawElsewhere, clientVars, browserVars
    <3>2. CASE Network
      BY <3>2 DEF Network, Lose, Listen, clientVars, browserVars
    <3>3. CASE UNCHANGED vars
      BY <3>3 DEF vars, clientVars, browserVars
    <3> QED BY <1>4, <3>1, <3>2, <3>3
  <2> QED BY <2>1, <1>1, <1>2, <1>3 DEF OnTheWay
<1>5. CASE Send
  <2>1. UNCHANGED <<inbox, screen>> /\ drawn \subseteq drawn'
    BY <1>5 DEF Send, clientVars, browserVars
  <2>2. QueueTold'
    BY <1>0, <1>5, SendTold
  <2> QED BY <2>1, <2>2, <1>2, <1>3 DEF OnTheWay
<1>6. CASE Broadcast
  <2>1. screen' = screen /\ drawn \subseteq drawn'
    BY <1>6 DEF Broadcast, clientVars
  <2>2. QueueTold' /\ InboxTold'
    BY <1>0, <1>6, BroadcastTold
  <2> QED BY <2>1, <2>2, <1>3 DEF OnTheWay
<1>7. ASSUME NEW b \in Browser, Request(b) \/ Close(b) \/ Show(b)
      PROVE  OnTheWay'
  <2>1. udp' = udp /\ drawn \subseteq drawn'
    BY <1>7 DEF Request, Close, Show, clientVars
  <2>2. InboxTold' /\ ScreenTold'
    BY <1>0, <1>7, RequestTold, ShowTold
  <2> QED BY <2>1, <2>2, <1>1 DEF OnTheWay
<1> QED BY <1>4, <1>5, <1>6, <1>7 DEF Next

(* Then every screen is black or shows a canvas that was sent. *)
LEMMA ToldDrawn ==
  ASSUME ScreenTold
  PROVE  ScreenIsDrawn
  BY BlackIsZero, Zenon DEF ScreenTold, ScreenIsDrawn, Sent

(***************************************************************************)
(* ScreenIsDrawn holds where clients use bytes the relay reads one by one: *)
(* the ones below 128, and 255, which the relay makes a replacement        *)
(* character and fillStyle 255 again.  For other bytes it does not hold    *)
(* (run wire_utf8).                                                        *)
(***************************************************************************)
THEOREM ScreensDrawn ==
  ASSUME Colour \subseteq Clean \X Clean \X Clean
  PROVE  Spec => []ScreenIsDrawn
<1>1. Bytes(Clean)
  BY DEF Bytes, Clean, Byte, NL, Opaque
<1>2. Init => Types(Clean) /\ OnTheWay
  BY <1>1, InitTypes, InitTold
<1>3. Types(Clean) /\ OnTheWay /\ [Next]_vars => (Types(Clean) /\ OnTheWay)'
  BY <1>1, NextTypes, NextTold
<1>4. OnTheWay => ScreenIsDrawn
  BY ToldDrawn DEF OnTheWay
<1> QED BY <1>2, <1>3, <1>4, PTL DEF Spec

-----------------------------------------------------------------------------
(* The stand-alone display *)

(***************************************************************************)
(* With the display in the place of the frame server, drawCommand() takes  *)
(* a datagram from the network like any loss: Wire allows all of it.       *)
(***************************************************************************)
THEOREM DisplayRefinesWire == DisplaySpec => Spec
<1>1. InitDisplay => Init
  BY DEF InitDisplay
<1>2. ASSUME NEW k \in 1..Len(net), drawCommand(k)
      PROVE  Lose(k)
  BY <1>2 DEF drawCommand, Lose
<1>3. [ToFrameServer \/ ToArduPixel]_<<vars, ardupixelVars>> => [Next]_vars
  <2>1. ToFrameServer => Next
    BY DEF ToFrameServer
  <2>2. ToArduPixel => Next
    BY <1>2 DEF ToArduPixel, Next, Network
  <2> QED BY <2>1, <2>2
<1> QED BY <1>1, <1>3, PTL DEF DisplaySpec, Spec

(* The zigzag is larger than the picture and has less than 65535 LEDs. *)
LEMMA WallSizes ==
  /\ ROWS \in Nat \ {0} /\ COLS \in Nat \ {0}
  /\ HEIGHT <= ROWS /\ WIDTH <= COLS
  /\ ROWS * COLS \in Nat /\ ROWS * COLS < 65535 /\ NUMPIXELS = ROWS * COLS
<1>1. ROWS \in Nat \ {0} /\ COLS \in Nat \ {0} /\ HEIGHT <= ROWS /\ WIDTH <= COLS /\ ROWS * COLS < 65535
  BY ArduPixelAssumption
<1>2. ROWS * COLS \in Nat
  BY <1>1
<1> QED BY <1>1, <1>2 DEF NUMPIXELS

(* The place in its column, counted in the direction of the strip. *)
Along(col, row) == IF col % 2 = 1 THEN ROWS - 1 - row ELSE row

(* It is a place in the column. *)
LEMMA AlongRange ==
  ASSUME NEW col \in 0..COLS - 1, NEW row \in 0..ROWS - 1
  PROVE  Along(col, row) \in 0..ROWS - 1 /\ Along(col, row) \in Nat
<1>1. ROWS \in Nat
  BY WallSizes
<1> QED BY <1>1 DEF Along

(* No LED has a number that 16 bits cannot hold. *)
LEMMA OnTheStrip ==
  ASSUME NEW col \in 0..COLS - 1, NEW r \in 0..ROWS - 1
  PROVE  ROWS * col + r \in Nat /\ ROWS * col + r < 65535
<1>1. ROWS \in Nat /\ COLS \in Nat /\ ROWS * COLS < 65535 /\ ROWS * COLS \in Nat
  BY WallSizes
<1>2. col \in Nat /\ col + 1 <= COLS
  BY <1>1
<1>3. ROWS * (col + 1) <= ROWS * COLS
  BY <1>1, <1>2, TimesMonotonic
<1>4. ROWS * (col + 1) = ROWS * col + ROWS /\ ROWS * col \in Nat
  BY <1>1, <1>2
<1> DEFINE x == ROWS * col
           y == ROWS * COLS
<1>5. x + ROWS <= y /\ x \in Nat
  BY <1>3, <1>4
<1>6. y \in Nat /\ y < 65535
  BY <1>1
<1> HIDE DEF x, y
<1>7. x + r \in Nat /\ x + r < 65535
  BY <1>1, <1>5, <1>6
<1> QED BY <1>7 DEF x

(* Such a number is not cut off. *)
LEMMA SixteenBits ==
  ASSUME NEW v \in Nat, v < 65535
  PROVE  v % 65536 = v
  OBVIOUS

(* Counting along the strip and back. *)
LEMMA IndirectIs ==
  ASSUME NEW col \in 0..COLS - 1, NEW row \in 0..ROWS - 1
  PROVE  indirect(col, row) = ROWS * col + Along(col, row)
<1> DEFINE v == ROWS * col + Along(col, row)
<1>1. v \in Nat /\ v < 65535
  BY AlongRange, OnTheStrip
<1>2. col \in Nat /\ row \in Nat /\ ROWS \in Nat /\ ~(col > COLS \/ row > ROWS)
  BY WallSizes
<1>3. col * ROWS = ROWS * col /\ ROWS * col \in Nat
  BY <1>2
<1>4. v = IF col % 2 = 1 THEN col * ROWS + (ROWS - row - 1) ELSE col * ROWS + row
  BY <1>2, <1>3 DEF Along
<1>5. indirect(col, row) = IF col % 2 = 1 THEN (col * ROWS + (ROWS - row - 1)) % 65536
                                          ELSE (col * ROWS + row) % 65536
  BY <1>2 DEF indirect
<1> HIDE DEF v
<1>6. v % 65536 = v
  BY <1>1, SixteenBits
<1>7. CASE col % 2 = 1
  <2>1. col * ROWS + (ROWS - row - 1) = v
    BY <1>4, <1>7
  <2>2. indirect(col, row) = (col * ROWS + (ROWS - row - 1)) % 65536
    BY <1>5, <1>7
  <2>3. indirect(col, row) = v % 65536
    BY <2>1, <2>2
  <2> QED BY <1>6, <2>3 DEF v
<1>8. CASE col % 2 # 1
  <2>1. col * ROWS + row = v
    BY <1>4, <1>8
  <2>2. indirect(col, row) = (col * ROWS + row) % 65536
    BY <1>5, <1>8
  <2>3. indirect(col, row) = v % 65536
    BY <2>1, <2>2
  <2> QED BY <1>6, <2>3 DEF v
<1> QED BY <1>7, <1>8

(* Turning a column round twice changes nothing. *)
LEMMA AlongTwice ==
  ASSUME NEW col \in 0..COLS - 1, NEW row \in 0..ROWS - 1, NEW s \in 0..ROWS - 1
  PROVE  Along(col, row) = s <=> row = IF col % 2 = 0 THEN s ELSE ROWS - 1 - s
<1>1. ROWS \in Nat /\ (col % 2 = 0 \/ col % 2 = 1)
  BY WallSizes
<1>2. CASE col % 2 = 0
  BY <1>2 DEF Along
<1>3. CASE col % 2 = 1
  BY <1>1, <1>3 DEF Along
<1> QED BY <1>1, <1>2, <1>3

(* indirect() names LED n only where LED n hangs. *)
LEMMA LedAt ==
  ASSUME NEW n \in 0..NUMPIXELS - 1, NEW col \in 0..COLS - 1, NEW row \in 0..ROWS - 1
  PROVE  indirect(col, row) = n <=> row = RowOf(n) /\ col = Column(n)
<1> DEFINE q == n \div ROWS
           s == n % ROWS
           r == Along(col, row)
<1>1. n \in Nat /\ col \in Nat /\ ROWS \in Nat \ {0}
  BY WallSizes
<1>2. indirect(col, row) = ROWS * col + r
  BY IndirectIs, Zenon
<1>3. r \in 0..ROWS - 1
  BY AlongRange
<1>4. n = ROWS * q + s
  BY <1>1, QuotientRemainder, Zenon
<1>5. s \in 0..ROWS - 1
  BY <1>1, QuotientRemainder, Zenon
<1>6. q \in Nat
  BY <1>1, QuotientRemainder, Zenon
<1>7. Column(n) = q /\ RowOf(n) = IF q % 2 = 0 THEN s ELSE ROWS - 1 - s
  BY Zenon DEF Column, RowOf
<1>8. r = s <=> row = IF col % 2 = 0 THEN s ELSE ROWS - 1 - s
  BY <1>5, AlongTwice, Zenon
<1> HIDE DEF q, s, r
<1>9. ASSUME indirect(col, row) = n
      PROVE  row = RowOf(n) /\ col = Column(n)
  <2>1. ROWS * col + r = ROWS * q + s
    BY <1>2, <1>4, <1>9, Zenon
  <2>2. col = q /\ r = s
    BY <1>1, <1>3, <1>5, <1>6, <2>1, SamePlace
  <2>3. row = IF q % 2 = 0 THEN s ELSE ROWS - 1 - s
    BY <1>8, <2>2
  <2> QED BY <1>7, <2>2, <2>3
<1>10. ASSUME row = RowOf(n), col = Column(n)
       PROVE  indirect(col, row) = n
  <2>1. col = q /\ r = s
    BY <1>7, <1>8, <1>10, Zenon
  <2> QED BY <1>2, <1>4, <2>1, Zenon
<1> QED BY <1>9, <1>10, Zenon

Place(n) == <<RowOf(n), Column(n)>>

(* At most one window is drawn on an LED: the one whose place it hangs at. *)
LEMMA PlaceOnWall ==
  ASSUME NEW n \in 0..NUMPIXELS - 1
  PROVE  {c \in Window : indirect(c[2], c[1]) = n} = {Place(n)} \cap Window
<1>1. ASSUME NEW c \in Window
      PROVE  indirect(c[2], c[1]) = n <=> c = Place(n)
  <2>1. c[1] \in 0..HEIGHT - 1 /\ c[2] \in 0..WIDTH - 1 /\ c = <<c[1], c[2]>>
    BY DEF Window
  <2>2. c[1] \in 0..ROWS - 1 /\ c[2] \in 0..COLS - 1
    BY <2>1, Sizes, WallSizes
  <2>3. indirect(c[2], c[1]) = n <=> c[1] = RowOf(n) /\ c[2] = Column(n)
    BY <2>2, LedAt
  <2>4. c[1] = RowOf(n) /\ c[2] = Column(n) <=> c = Place(n)
    BY <2>1 DEF Place
  <2> QED BY <2>3, <2>4
<1> QED BY <1>1

(* The buffer has room for the passcode. *)
LEMMA PasscodeKept ==
  ASSUME NEW d, Len(d) \in Nat, 0 < Len(d)
  PROVE  Received(d)[0] = d[1]
<1>1. 0 \in 0..UDP_TX_PACKET_MAX_SIZE - 1
  BY ArduPixelAssumption DEF HEADEROFFSET
<1> QED BY <1>1 DEF Received

(* What drawCommand() reads for a window whose bytes are kept is what      *)
(* draw() wrote for it.                                                    *)
LEMMA SubPixels ==
  ASSUME NEW c \in Frame, NEW w \in Window, Kept(w), NEW behind
  PROVE  [a \in 1..3 |-> SubPixel(Received(DatagramOf(c)), behind, SubPixelAt(WIDTH, w[2], w[1], a))]
           = SubSeq(c.windows[w], 1, 3)
<1> DEFINE d == DatagramOf(c)
           at == At4(WIDTH, w[1], w[2])
           m == GridsLength(HEIGHT, WIDTH)
<1>1. c.windows \in Grid(HEIGHT, WIDTH) /\ c.segments \in Grid(SEGWIDTH, SEGNUM)
  BY DEF Frame
<1>2. Layout(d, HASH, HEIGHT, WIDTH, c.windows, c.segments)
  BY <1>1, Sizes, DatagramLayout DEF DatagramOf
<1>3. w[1] \in 0..HEIGHT - 1 /\ w[2] \in 0..WIDTH - 1 /\ w = <<w[1], w[2]>>
  BY DEF Window
<1>4. c.windows[w] \in [1..4 -> Byte]
  BY <1>1 DEF Grid, Window, Quads, CHANNELS
<1>5. Len(c.windows[w]) = 4 /\ SubSeq(c.windows[w], 1, 3) = [a \in 1..3 |-> c.windows[w][a]]
  <2>1. 4 \in Nat
    OBVIOUS
  <2> QED BY <1>4, <2>1, FunctionIsSequence, FirstThree
<1>6. at \in Nat /\ at + 4 <= m
  BY <1>3, Sizes, At4Range DEF GridsLength
<1>7. m \in Nat /\ GridsLength(SEGWIDTH, SEGNUM) \in Nat
  BY Sizes, GridLength
<1>8. Len(d) = 3 + m + GridsLength(SEGWIDTH, SEGNUM) /\ Holds(d, 3 + at, c.windows[w])
  BY <1>2, <1>3, Zenon DEF Layout
<1>9. ASSUME NEW a \in 1..3
      PROVE  SubPixelAt(WIDTH, w[2], w[1], a) = 3 + at + (a - 1)
  <2>1. w[1] \in Nat /\ w[2] \in Nat /\ a - 1 \in Nat
    BY <1>3
  <2>2. HEADEROFFSET + w[1] * (CHANNELS * WIDTH + 1) + w[2] * CHANNELS + (a - 1) = 3 + at + (a - 1)
    BY <2>1, Layouts
  <2> HIDE DEF at
  <2> QED BY <1>6, <2>1, <2>2, Sizes DEF SubPixelAt, S2LHEADERLEN, HEADEROFFSET, CHANNELS
<1> HIDE DEF d, at, m
<1>10. 3 + at + 2 < UDP_TX_PACKET_MAX_SIZE
  <2>1. SubPixelAt(WIDTH, w[2], w[1], 3) = 3 + at + (3 - 1)
    BY <1>9
  <2> QED BY <2>1, <1>6 DEF Kept
<1>11. ASSUME NEW a \in 1..3
       PROVE  SubPixel(Received(d), behind, SubPixelAt(WIDTH, w[2], w[1], a)) = c.windows[w][a]
  <2> DEFINE p == 3 + at + (a - 1)
  <2>1. p < UDP_TX_PACKET_MAX_SIZE /\ p \in 0..UDP_TX_PACKET_MAX_SIZE - 1
    BY <1>6, <1>10, ArduPixelAssumption
  <2>2. p < Len(d) /\ p + 1 = 3 + at + a
    BY <1>6, <1>7, <1>8
  <2>3. SubPixelAt(WIDTH, w[2], w[1], a) = p
    BY <1>9
  <2> HIDE DEF p
  <2>4. Received(d)[p] = d[p + 1]
    BY <2>1, <2>2 DEF Received
  <2>5. SubPixel(Received(d), behind, p) = Received(d)[p]
    BY <2>1, Zenon DEF SubPixel
  <2>6. a \in 1..Len(c.windows[w])
    BY <1>5
  <2>7. d[3 + at + a] = c.windows[w][a]
    BY <1>8, <2>6, Zenon DEF Holds
  <2> QED BY <2>2, <2>3, <2>4, <2>5, <2>7, Zenon
<1> QED BY <1>5, <1>11 DEF d

(* The LEDs behind the first show what is kept of f, and are dark beside it. *)
Hung(strip, f) ==
  \A n \in 1..NUMPIXELS - 1 :
    IF Place(n) \in Window THEN Kept(Place(n)) => strip[n] = SubSeq(f.windows[Place(n)], 1, 3)
                           ELSE strip[n] = Dark

(* LedsInPlace, in these terms. *)
LEMMA LedsAre == LedsInPlace <=> \E f \in drawn \union {Uniform(Dark)} : Hung(leds, f)
  BY Zenon DEF LedsInPlace, Hung, Place

(* drawCommand() on a datagram of this wall shows its canvas. *)
LEMMA DrawnOnStrip ==
  ASSUME NEW k \in 1..Len(net), drawCommand(k), NEW c \in Frame, net[k] = DatagramOf(c),
         NEW f, Hung(leds, f)
  PROVE  Hung(leds', c)
<1> DEFINE packet == Received(net[k])
           g == Geometry(packet[0])
           cells == (0..g.height - 1) \X (0..g.width - 1)
           On(n) == {e \in cells : indirect(e[2], e[1]) = n}
           Latest(cs) == CHOOSE e \in cs :
                         \A o \in cs \ {e} : o[1] < e[1] \/ (o[1] = e[1] /\ o[2] < e[2])
           Read(behind, e, a) == SubPixel(packet, behind, SubPixelAt(g.width, e[2], e[1], a))
<1>1. PICK behind \in [Behind(g) -> Stray] :
        leds' = [n \in 0..NUMPIXELS - 1 |->
                   IF On(n) = {} THEN leds[n]
                   ELSE [a \in 1..3 |-> Read(behind, Latest(On(n)), a)]]
  BY Zenon DEF drawCommand
<1>2. packet[0] = HASH
  <2>1. c.windows \in Grid(HEIGHT, WIDTH) /\ c.segments \in Grid(SEGWIDTH, SEGNUM)
    BY DEF Frame
  <2>2. Layout(DatagramOf(c), HASH, HEIGHT, WIDTH, c.windows, c.segments)
    BY <2>1, Sizes, DatagramLayout DEF DatagramOf
  <2>3. GridsLength(HEIGHT, WIDTH) \in Nat /\ GridsLength(SEGWIDTH, SEGNUM) \in Nat
    BY Sizes, GridLength
  <2>4. net[k][1] = HASH /\ Len(net[k]) = 3 + GridsLength(HEIGHT, WIDTH) + GridsLength(SEGWIDTH, SEGNUM)
    BY <2>2 DEF Layout
  <2>5. Len(net[k]) \in Nat /\ 0 < Len(net[k])
    BY <2>3, <2>4
  <2> QED BY <2>4, <2>5, PasscodeKept
<1>3. g.width = WIDTH /\ g.height = HEIGHT
  BY <1>2 DEF Geometry
<1>4. cells = Window
  BY <1>3 DEF Window
<1> HIDE DEF packet, g, cells
<1>5. ASSUME NEW n \in 1..NUMPIXELS - 1
      PROVE  IF Place(n) \in Window THEN Kept(Place(n)) => leds'[n] = SubSeq(c.windows[Place(n)], 1, 3)
                                    ELSE leds'[n] = Dark
  <2>1. n \in 0..NUMPIXELS - 1
    OBVIOUS
  <2>2. On(n) = {Place(n)} \cap Window
    BY <1>4, <2>1, PlaceOnWall
  <2>3. CASE Place(n) \in Window
    <3> SUFFICES ASSUME Kept(Place(n))
                 PROVE  leds'[n] = SubSeq(c.windows[Place(n)], 1, 3)
      BY <2>3
    <3>1. On(n) = {Place(n)}
      BY <2>2, <2>3
    <3> HIDE DEF On
    <3>2. Latest(On(n)) = Place(n)
      BY <3>1
    <3> HIDE DEF Latest, Read
    <3>3. leds'[n] = [a \in 1..3 |-> Read(behind, Place(n), a)]
      BY <1>1, <2>1, <3>1, <3>2
    <3>4. leds'[n] = [a \in 1..3 |->
                        SubPixel(packet, behind, SubPixelAt(WIDTH, Place(n)[2], Place(n)[1], a))]
      BY <1>3, <3>3, Zenon DEF Read
    <3> QED BY <2>3, <3>4, SubPixels DEF packet
  <2>4. CASE Place(n) \notin Window
    <3>1. On(n) = {}
      BY <2>2, <2>4
    <3> HIDE DEF On, Latest, Read
    <3>2. leds'[n] = leds[n]
      BY <1>1, <2>1, <3>1
    <3> QED BY <2>4, <3>2 DEF Hung
  <2> QED BY <2>3, <2>4
<1> QED BY <1>5, Zenon DEF Hung

(* The smaller wall has only the first LED. *)
LEMMA ElsewhereOnStrip ==
  ASSUME NEW k \in 1..Len(net), drawCommand(k), Len(net[k]) \in Nat, 0 < Len(net[k]),
         net[k][1] = OtherHash, NEW f, Hung(leds, f)
  PROVE  Hung(leds', f)
<1> DEFINE packet == Received(net[k])
           g == Geometry(packet[0])
           cells == (0..g.height - 1) \X (0..g.width - 1)
           On(n) == {e \in cells : indirect(e[2], e[1]) = n}
           Latest(cs) == CHOOSE e \in cs :
                         \A o \in cs \ {e} : o[1] < e[1] \/ (o[1] = e[1] /\ o[2] < e[2])
           Read(behind, e, a) == SubPixel(packet, behind, SubPixelAt(g.width, e[2], e[1], a))
<1>1. PICK behind \in [Behind(g) -> Stray] :
        leds' = [n \in 0..NUMPIXELS - 1 |->
                   IF On(n) = {} THEN leds[n]
                   ELSE [a \in 1..3 |-> Read(behind, Latest(On(n)), a)]]
  BY Zenon DEF drawCommand
<1>2. g.width = 1 /\ g.height = 1
  <2>1. packet[0] = OtherHash
    BY PasscodeKept
  <2> QED BY <2>1, WireAssumption DEF Geometry
<1>3. \A e \in cells : e[1] = 0 /\ e[2] = 0
  BY <1>2
<1>4. indirect(0, 0) = 0
  <2>1. 0 \in 0..COLS - 1 /\ 0 \in 0..ROWS - 1
    BY WallSizes
  <2>2. indirect(0, 0) = ROWS * 0 + Along(0, 0)
    BY <2>1, IndirectIs
  <2>3. Along(0, 0) = 0
    BY DEF Along
  <2>4. ROWS * 0 = 0
    BY WallSizes
  <2> QED BY <2>2, <2>3, <2>4
<1> HIDE DEF packet, g, cells
<1>5. ASSUME NEW n \in 1..NUMPIXELS - 1
      PROVE  leds'[n] = leds[n]
  <2>1. n \in 0..NUMPIXELS - 1 /\ n # 0
    OBVIOUS
  <2>2. On(n) = {}
    BY <1>3, <1>4, <2>1
  <2> HIDE DEF On, Latest, Read
  <2> QED BY <1>1, <2>1, <2>2
<1> QED BY <1>5, Zenon DEF Hung

(* At the start the strip is dark. *)
LEMMA InitLeds ==
  ASSUME InitDisplay
  PROVE  LedsInPlace
<1>1. SubSeq(Dark, 1, 3) = Dark
  <2>1. Dark \in Seq(Nat) /\ Len(Dark) = 3
    BY DEF Dark
  <2>2. SubSeq(Dark, 1, 3) = [a \in 1..3 |-> Dark[a]]
    BY <2>1, SubSeqProperties
  <2>3. Dark = [a \in 1..3 |-> Dark[a]]
    BY <2>1
  <2> QED BY <2>2, <2>3, Zenon
<1>2. \A w \in Window : Uniform(Dark).windows[w] = Dark
  BY DEF Uniform
<1>3. \A n \in 1..NUMPIXELS - 1 : leds[n] = Dark
  BY DEF InitDisplay
<1>4. Hung(leds, Uniform(Dark))
  BY <1>1, <1>2, <1>3, Zenon DEF Hung
<1> QED BY <1>4, LedsAre, Zenon

(* Every step keeps a canvas that was sent on the strip. *)
LEMMA NextLeds ==
  ASSUME Types(Byte), LedsInPlace, [ToFrameServer \/ ToArduPixel]_<<vars, ardupixelVars>>
  PROVE  LedsInPlace'
<1>1. PICK f \in drawn \union {Uniform(Dark)} : Hung(leds, f)
  BY LedsAre, Zenon
<1>2. ASSUME leds' = leds, drawn \subseteq drawn'
      PROVE  LedsInPlace'
  <2>1. f \in drawn' \union {Uniform(Dark)} /\ Hung(leds', f)
    BY <1>1, <1>2
  <2> QED BY <2>1, Zenon DEF LedsInPlace, Hung, Place, Uniform
<1>3. ASSUME [Next]_vars
      PROVE  drawn \subseteq drawn'
  BY <1>3 DEF Next, Client, Network, SetWindow, SetSegment, SetChannel, Draw, DrawElsewhere, Lose, Listen,
              Send, Broadcast, Request, Close, Show, vars, clientVars
<1>4. CASE ToFrameServer
  <2>1. Next /\ leds' = leds
    BY <1>4 DEF ToFrameServer, ardupixelVars
  <2> QED BY <2>1, <1>2, <1>3
<1>5. CASE (Client \/ \E k \in 1..Len(net) : Lose(k)) /\ UNCHANGED ardupixelVars
  <2>1. Next /\ leds' = leds
    BY <1>5 DEF ardupixelVars, Next, Network
  <2> QED BY <2>1, <1>2, <1>3
<1>6. ASSUME NEW k \in 1..Len(net), drawCommand(k)
      PROVE  LedsInPlace'
  <2>1. drawn' = drawn
    BY <1>6 DEF drawCommand, clientVars
  <2>2. FromClient(net[k], drawn)
    BY DEF Types, NetTypes
  <2>3. CASE Len(net[k]) > 0 /\ net[k][1] = OtherHash
    <3>1. Len(net[k]) \in Nat /\ 0 < Len(net[k])
      <4>1. net \in Seq(Seq(Symbol))
        BY DEF Types, NetTypes
      <4>2. Len(net[k]) \in Nat
        BY <4>1
      <4> QED BY <2>3, <4>2
    <3>2. Hung(leds', f)
      BY <1>1, <1>6, <2>3, <3>1, ElsewhereOnStrip
    <3> QED BY <1>1, <2>1, <3>2, Zenon DEF LedsInPlace, Hung, Place, Uniform
  <2>4. CASE \E c \in drawn : net[k] = DatagramOf(c)
    <3>1. PICK c \in drawn : net[k] = DatagramOf(c)
      BY <2>4
    <3>2. c \in Frame
      BY AllBytes, FramesTyped DEF Types, ClientTypes
    <3>3. Hung(leds', c)
      BY <1>1, <1>6, <3>1, <3>2, DrawnOnStrip
    <3> QED BY <2>1, <3>1, <3>3, Zenon DEF LedsInPlace, Hung, Place
  <2> QED BY <2>2, <2>3, <2>4 DEF FromClient
<1>7. CASE UNCHANGED <<vars, ardupixelVars>>
  <2>1. leds' = leds /\ drawn \subseteq drawn'
    BY <1>7 DEF vars, clientVars, ardupixelVars
  <2> QED BY <2>1, <1>2
<1> QED BY <1>4, <1>5, <1>6, <1>7 DEF ToArduPixel

(***************************************************************************)
(* TypeOK holds whichever server the datagrams go to.                      *)
(***************************************************************************)
THEOREM DisplayTyped == DisplaySpec => []TypeOK
  BY DisplayRefinesWire, Typed, PTL

(***************************************************************************)
(* LedsInPlace holds, whatever the size of packetBuffer: drawCommand()     *)
(* draws every window it has kept of a canvas that was sent at the LED     *)
(* that hangs in its place, what it reads behind the buffer stays on the   *)
(* LEDs of the other windows, and the smaller wall only ever touches the   *)
(* first LED.  The strip has less than 65535 LEDs (ArduPixelAssumption),   *)
(* so indirect() stays within its 16 bits.                                 *)
(***************************************************************************)
THEOREM DisplayLeds == DisplaySpec => []LedsInPlace
<1>1. Spec => []Types(Byte)
  <2>1. Init => Types(Byte)
    BY AllBytes, InitTypes
  <2>2. Types(Byte) /\ [Next]_vars => Types(Byte)'
    BY AllBytes, NextTypes
  <2> QED BY <2>1, <2>2, PTL DEF Spec
<1>2. InitDisplay => LedsInPlace
  BY InitLeds
<1>3. Types(Byte) /\ LedsInPlace /\ [ToFrameServer \/ ToArduPixel]_<<vars, ardupixelVars>> => LedsInPlace'
  BY NextLeds
<1> QED BY <1>1, <1>2, <1>3, DisplayRefinesWire, PTL DEF DisplaySpec
=============================================================================
