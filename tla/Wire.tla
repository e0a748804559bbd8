-------------------------------- MODULE Wire --------------------------------
(***************************************************************************)
(* Frames on the wire: a client (clients/s2llib.py) draws on its canvas    *)
(* and sends it as a datagram, the frame server decodes the datagram       *)
(* (listen) and encodes its picture (send), the relay (ws_udp.js) turns    *)
(* that into text for the browsers, and the page (visionneuse.html) paints *)
(* it.  Client, server and page each compute the layout on their own.      *)
(*                                                                         *)
(* The canvas is opaque, so the picture the server mixes from it alone is  *)
(* the frame it decoded (Blend, ErrorBounded). The ten bytes of HASH are   *)
(* one, so HEADEROFFSET is 3.  Indices start at 0 as in the source, but    *)
(* byte p of a datagram d is d[p + 1].                                     *)
(***************************************************************************)
EXTENDS Integers, Sequences, SequencesExt

CONSTANTS
  WIDTH, HEIGHT,     \* windows in a row, and rows
  SEGWIDTH, SEGNUM,  \* displays, and segments of each
  Colour,            \* the colours clients use, <<r, g, b>>
  HASH, OtherHash,   \* the server's passcode, and that of another wall
  Browser,
  MaxEdits,          \* bound: changes to the canvas
  MaxNet,            \* bound: datagrams on their way to the server
  MaxQueue           \* bound: messages queued before the relay, or a browser

Byte == 0..255
CHANNELS == 4
HEADEROFFSET == 3
NL == 10
Opaque == 255

(***************************************************************************)
(* Text decodes sequences of one and of two bytes; the first byte of a     *)
(* longer one is left out of the colours.                                  *)
(***************************************************************************)
ASSUME WireAssumption ==
  /\ {WIDTH, HEIGHT, SEGWIDTH, SEGNUM} \subseteq Nat \ {0}
  /\ \A c \in Colour : /\ c \in Byte \X Byte \X Byte
                       /\ \A k \in 1..3 : c[k] \notin 224..244
  /\ HASH # OtherHash
  /\ {MaxEdits, MaxNet, MaxQueue} \subseteq Nat

Window == (0..HEIGHT - 1) \X (0..WIDTH - 1)
Segment == (0..SEGWIDTH - 1) \X (0..SEGNUM - 1)
Quad == Seq(Byte)

VARIABLES
  canvas,   \* the client's window_data and segmented_windows
  edits,    \* how often it was changed
  drawn,    \* history: what has been sent
  net,      \* datagrams on their way to the server
  buffer,   \* the client's frame at the server
  data,     \* send()'s static array
  udp,      \* transmissions the relay has not read
  clients,  \* browsers the relay knows
  inbox,    \* messages on their way to each browser
  screen    \* what each browser shows

clientVars == <<canvas, edits, drawn>>
serverVars == <<buffer, data>>
browserVars == <<clients, inbox, screen>>
vars == <<clientVars, net, serverVars, udp, browserVars>>

Uniform(q) == [windows |-> [w \in Window |-> q], segments |-> [s \in Segment |-> q]]

-----------------------------------------------------------------------------
(* The client, s2llib.py.  The state s of a window is never sent. *)

SetWindow(w, c) ==
  /\ edits < MaxEdits
  /\ canvas' = [canvas EXCEPT !.windows[w] = Append(c, Opaque)]
  /\ edits' = edits + 1
  /\ UNCHANGED <<drawn, net, serverVars, udp, browserVars>>

SetSegment(s, c) ==
  /\ edits < MaxEdits
  /\ canvas' = [canvas EXCEPT !.segments[s] = Append(c, Opaque)]
  /\ edits' = edits + 1
  /\ UNCHANGED <<drawn, net, serverVars, udp, browserVars>>

(* setwin_xy_sval: whichever channel is named, red is set. *)
SetChannel(w, val) ==
  /\ edits < MaxEdits
  /\ canvas' = [canvas EXCEPT !.windows[w][1] = val]
  /\ edits' = edits + 1
  /\ UNCHANGED <<drawn, net, serverVars, udp, browserVars>>

Row(cells) == FlattenSeq(cells) \o <<NL>>

Datagram(passcode, z, windows, segments) ==
  <<passcode, z, NL>>
    \o FlattenSeq([k \in DOMAIN windows |-> Row(windows[k])])
    \o FlattenSeq([k \in DOMAIN segments |-> Row(segments[k])])

Rows(grid, h, w) == [y \in 1..h |-> [x \in 1..w |-> grid[<<y - 1, x - 1>>]]]

Draw ==
  LET d == Datagram(HASH, 1, Rows(canvas.windows, HEIGHT, WIDTH),
                             Rows(canvas.segments, SEGWIDTH, SEGNUM))
  IN /\ Len(net) < MaxNet
     /\ net' = Append(net, d)
     /\ drawn' = drawn \union {canvas}
     /\ UNCHANGED <<canvas, edits, serverVars, udp, browserVars>>

(* A client of a smaller wall, like scan55.py, with its own passcode. *)
DrawElsewhere ==
  LET d == Datagram(OtherHash, 1, <<<<canvas.windows[<<0, 0>>]>>>>,
                                  Rows(canvas.segments, SEGWIDTH, SEGNUM))
  IN /\ Len(net) < MaxNet
     /\ net' = Append(net, d)
     /\ UNCHANGED <<clientVars, serverVars, udp, browserVars>>

Lose(k) ==
  /\ net' = RemoveAt(net, k)
  /\ UNCHANGED <<clientVars, serverVars, udp, browserVars>>

-----------------------------------------------------------------------------
(* The frame server *)

\* listen() does not look at the length.  Clients that know the passcode send
\* whole frames, and of the others nothing but the passcode is used, so the
\* value behind the end of a datagram does not matter.
At(d, p) == IF p < Len(d) THEN d[p + 1] ELSE 0

Valid(d) == At(d, 0) = HASH

WINDOWOFFSET == (WIDTH * CHANNELS + 1) * HEIGHT

\* Slip: the rows follow each other without a newline.
WindowIn_Packed(d, i, j) ==
  [a \in 1..CHANNELS |-> At(d, HEADEROFFSET + i * CHANNELS * WIDTH + j * CHANNELS + a - 1)]
WindowIn(d, i, j) ==
  [a \in 1..CHANNELS |-> At(d, HEADEROFFSET + i * (CHANNELS * WIDTH + 1) + j * CHANNELS + a - 1)]

SegmentIn(d, w, n) ==
  [a \in 1..CHANNELS |-> At(d, HEADEROFFSET + WINDOWOFFSET
                                 + w * (CHANNELS * SEGNUM + 1) + n * CHANNELS + a - 1)]

Decoded(d) == [windows  |-> [c \in Window |-> WindowIn(d, c[1], c[2])],
               segments |-> [c \in Segment |-> SegmentIn(d, c[1], c[2])]]

(* listen(): datagrams arrive in any order. *)
Listen(k) ==
  /\ net' = RemoveAt(net, k)
  /\ buffer' = IF Valid(net[k]) THEN Decoded(net[k]) ELSE buffer
  /\ UNCHANGED <<clientVars, data, udp, browserVars>>

WindowAt(i, j, k) == HEADEROFFSET + i * (WIDTH * CHANNELS + 1) + j * CHANNELS + k
SegmentAt(i, j, k) ==
  HEADEROFFSET + HEIGHT * (WIDTH * CHANNELS + 1) + i * (SEGNUM * CHANNELS + 1) + j * CHANNELS + k

(* The positions send() writes to, and the bytes it writes there. *)
Written(f) ==
  {<<WindowAt(c[1], c[2], k), f.windows[c][k + 1]>> : c \in Window, k \in 0..CHANNELS - 1}
    \union {<<WindowAt(i, WIDTH, 0), NL>> : i \in 0..HEIGHT - 1}
    \union {<<SegmentAt(c[1], c[2], k), f.segments[c][k + 1]>> : c \in Segment, k \in 0..CHANNELS - 1}
    \union {<<SegmentAt(i, SEGNUM, 0), NL>> : i \in 0..SEGWIDTH - 1}

Length == SegmentAt(SEGWIDTH, 0, 0)

\* Slip: what the array holds already is not written again.
Encoded_Once(f, old) ==
  LET written == Written(f)
  IN [p \in 1..Length |->
        IF old[p] = 0 /\ \E e \in written : e[1] = p - 1
        THEN (CHOOSE e \in written : e[1] = p - 1)[2]
        ELSE old[p]]
Encoded(f, old) ==
  LET written == Written(f)
  IN [p \in 1..Length |->
        IF \E e \in written : e[1] = p - 1
        THEN (CHOOSE e \in written : e[1] = p - 1)[2]
        ELSE old[p]]

(* send(): on UDP to the relay.  What finds its socket full is dropped. *)
Send ==
  /\ data' = Encoded(buffer, data)
  /\ udp' = IF Len(udp) < MaxQueue THEN Append(udp, data') ELSE udp
  /\ UNCHANGED <<clientVars, net, buffer, browserVars>>

-----------------------------------------------------------------------------
(* The relay, ws_udp.js *)

Request(b) ==
  /\ b \notin clients
  /\ clients' = clients \union {b}
  /\ inbox' = [inbox EXCEPT ![b] = << >>]
  /\ screen' = [screen EXCEPT ![b] = Uniform(<<0, 0, 0>>)]
  /\ UNCHANGED <<clientVars, net, serverVars, udp>>

Close(b) ==
  /\ b \in clients
  /\ clients' = clients \ {b}
  /\ inbox' = [inbox EXCEPT ![b] = << >>]
  /\ UNCHANGED <<clientVars, net, serverVars, udp, screen>>

LeadByte(v) == v \in 194..223
Continuation(v) == v \in 128..191
Replacement == 65533

(***************************************************************************)
(* sendUTF(msg) calls toString(), which reads the bytes as UTF-8: a pair   *)
(* becomes one character, a byte that is not UTF-8 the replacement         *)
(* character.                                                              *)
(***************************************************************************)
Text(d) ==
  LET Second(p) == p > 1 /\ Continuation(d[p]) /\ LeadByte(d[p - 1])
      Char(p) == IF d[p] < 128 THEN d[p]
                 ELSE IF p < Len(d) /\ Second(p + 1) THEN (d[p] - 192) * 64 + d[p + 1] - 128
                 ELSE Replacement
      text[p \in 0..Len(d)] ==
        IF p = 0 THEN << >>
        ELSE IF Second(p) THEN text[p - 1] ELSE Append(text[p - 1], Char(p))
  IN text[Len(d)]

Broadcast ==
  /\ udp # << >>
  /\ \A b \in clients : Len(inbox[b]) < MaxQueue
  /\ udp' = Tail(udp)
  /\ inbox' = [b \in Browser |->
                 IF b \in clients THEN Append(inbox[b], Text(Head(udp))) ELSE inbox[b]]
  /\ UNCHANGED <<clientVars, net, serverVars, clients, screen>>

-----------------------------------------------------------------------------
(* The page, visionneuse.html *)

\* A colour component of fillStyle is cut off at 255.  Slip: it is not.
Clamped_Not(v) == v
Clamped(v) == IF v > 255 THEN 255 ELSE v

(* Past the end of the text charCodeAt throws, and the rest stays as it is. *)
Painted(text, p, old) ==
  IF p + 2 < Len(text) THEN [a \in 1..3 |-> Clamped(text[p + a])] ELSE old

headersize == HEADEROFFSET + HEIGHT * (WIDTH * 4 + 1)

PageWindow(y, x) == HEADEROFFSET + y * (WIDTH * 4 + 1) + x * 4
PageSegment(d, s) == headersize + d * (SEGNUM * 4 + 1) + s * 4

Show(b) ==
  /\ b \in clients
  /\ inbox[b] # << >>
  /\ LET text == Head(inbox[b])
     IN screen' = [screen EXCEPT ![b] =
          [windows  |-> [c \in Window |-> Painted(text, PageWindow(c[1], c[2]), @.windows[c])],
           segments |-> [c \in Segment |-> Painted(text, PageSegment(c[1], c[2]), @.segments[c])]]]
  /\ inbox' = [inbox EXCEPT ![b] = Tail(@)]
  /\ UNCHANGED <<clientVars, net, serverVars, udp, clients>>

-----------------------------------------------------------------------------
Init ==
  /\ canvas = Uniform(<<127, 127, 127, Opaque>>)
  /\ edits = 0
  /\ drawn = {}
  /\ net = << >>
  /\ buffer = Uniform(<<0, 0, 0, 0>>)
  /\ data = [p \in 1..Length |-> 0]
  /\ udp = << >>
  /\ clients = {}
  /\ inbox = [b \in Browser |-> << >>]
  /\ screen = [b \in Browser |-> Uniform(<<0, 0, 0>>)]

Client ==
  \/ \E w \in Window, c \in Colour : SetWindow(w, c) \/ SetChannel(w, c[1])
  \/ \E s \in Segment, c \in Colour : SetSegment(s, c)
  \/ Draw
  \/ DrawElsewhere

Network == \E k \in 1..Len(net) : Lose(k) \/ Listen(k)

Next ==
  \/ Client
  \/ Network
  \/ Send
  \/ Broadcast
  \/ \E b \in Browser : Request(b) \/ Close(b) \/ Show(b)

Spec == Init /\ [][Next]_vars

(***************************************************************************)
(* send() and the event loops of the relay and of the pages go on.         *)
(* Nothing is assumed of the client and of the network before the server.  *)
(***************************************************************************)
FairSpec ==
  /\ Spec
  /\ WF_vars(Send)
  /\ WF_vars(Broadcast)
  /\ \A b \in Browser : WF_vars(Show(b))

-----------------------------------------------------------------------------
(* Properties *)

\* The red, green and blue of a canvas or of a frame.
Colours(f) == [windows  |-> [c \in Window |-> SubSeq(f.windows[c], 1, 3)],
               segments |-> [c \in Segment |-> SubSeq(f.segments[c], 1, 3)]]

TypeOK ==
  /\ edits \in 0..MaxEdits
  /\ drawn \subseteq [windows : [Window -> Quad], segments : [Segment -> Quad]]
  /\ {canvas, buffer} \subseteq [windows : [Window -> Quad], segments : [Segment -> Quad]]
  /\ Len(net) <= MaxNet
  /\ data \in [1..Length -> Byte]
  /\ udp \in Seq([1..Length -> Byte]) /\ Len(udp) <= MaxQueue
  /\ clients \subseteq Browser
  /\ \A b \in Browser : Len(inbox[b]) <= MaxQueue
  /\ screen \in [Browser -> [windows  : [Window -> Byte \X Byte \X Byte],
                             segments : [Segment -> Byte \X Byte \X Byte]]]

(***************************************************************************)
(* A browser shows black (the server's picture, which the code leaves      *)
(* uninitialised until the first mix, starts as zeros here; FrameServer    *)
(* has it as Blank), or a canvas some client sent, every window and        *)
(* segment in its place and in its colour: draw(), listen(), send() and    *)
(* the page agree on the layout, whatever is lost, late, or meant for      *)
(* another wall.  visionneuse.html computes the place of every window and  *)
(* segment for that ("Determine r g b for this window x,y").               *)
(***************************************************************************)
ScreenIsDrawn ==
  \A b \in Browser :
    screen[b] \in {Colours(c) : c \in drawn} \union {Uniform(<<0, 0, 0>>)}

(***************************************************************************)
(* A browser that stays connected ends up with the picture the server has: *)
(* what it missed, or what was dropped, is made up for by the next cycle   *)
(* of send().  Clients make MaxEdits changes at most, so the picture comes *)
(* to rest; while it keeps changing a browser is always a little behind.   *)
(***************************************************************************)
BrowserCatchesUp ==
  \A b \in Browser : <>[](b \in clients) => <>[](screen[b] = Colours(buffer))
=============================================================================
