# syndilights in TLA+

syndilights drives a building facade: 8 floors of 12 windows and 12 segment
displays.  Clients send frames in UDP datagrams to a *frame server*; the
server blends the frames of all its clients into one picture and sends it to
*display clients*.  A second generation (`src/v2`) replaces the chain by a TCP
receiver, a redis list, a forwarder and a Teensy micro-controller that drives
LED strips.

This directory is the TLA+ model of that code: what each part keeps, what each
of its operations changes, which properties make it correct, what TLC checks
of them on small instances and what TLAPS proves for all.

## 1. Inventory

### 1.1 Frame server (`src/frameserver`)

State (`Server.h`): three parallel vectors `buffers`, `endpoints`, `times`, one
entry per client; `currenttime`; the mixed `frame`; console variables; the list
`threads`; all but `threads`, `selected_buffer` and `mode` meant to be guarded by
`mutex_`.

| Thread | Operation | Hard part |
|---|---|---|
| `listen` | take a datagram, find or add its source, store the frame | index found, then used; new buffer unset for a while; table full; error looked at last |
| `mix` | zero `frame`, blend every buffer onto it in table order | must never be seen half done; arithmetic truncates |
| `send` | copy `frame`, transmit on UDP, then TCP | exceptions swallowed; runs before the first mix |
| `expire` | once a second erase silent sources from all three vectors | erasing inside an index loop; whole seconds |
| `console`, `input` | show the state, move a selection | terminal output under the lock; unlocked reads |

They interact only through the vectors, `frame` and `currenttime`.

What makes it correct: the vectors never get out of step; a frame lands in the
entry of its sender and in no other; an unset buffer, or half a picture, is
never transmitted; no source is removed early, none escapes the sweep; the
stacking order of the clients that stay never changes; what a client sends is
eventually transmitted; a silent client eventually makes room.

The operator at the keyboard must not disturb any of that.  The mark moves along
a list of clients that may shrink at any moment: nothing moves it back, so it can
be left below the last row, but by nothing else than expiry.  No key is swallowed
by a wait for the lock.

`Buffer` is a frame with its own mutex, always taken inside `mutex_`, so it adds
no behaviour to the server.  `Buffers` is an older container used by `test.cpp`.

### 1.2 Frames on the wire

`clients/*.py` encode frames, `listen` decodes them, `send` encodes pictures,
`displayclient/cpp-client/Renderer.cpp` and `displayclient/html` decode those.
All must agree on one layout: a 12 byte header, 8 rows of 12 windows of 4
channels and 12 displays of 8 segments of 4 channels, a newline after every row.

### 1.3 Browser relay (`displayclient/html`)

`ws_udp.js` and its variants forward each picture to the browsers that asked
for it: a map from client number to connection, filled on `request`, emptied on
`close`.

### 1.4 Second generation (`src/v2`)

* `receiver.py` takes configurations and image lines over TCP and pushes lines
  to a redis list;
* `forward.py` pops the list and writes each line to the serial port of the
  Teensy, at the configured rate; it configures and reboots the Teensy;
* the Teensy sketch reads its configuration once, then commands;
* `OctoWS2811.cpp` sends one buffer by DMA while another is drawn;
* `data_generator.py` orders an image's pixels the way the strip is laid out.

### 1.5 Displays on a micro-controller

`displayclient/ardupixel` is an Arduino that takes the place of the frame server: it
receives a client's datagrams itself and draws them on a zigzag of NeoPixels.  It
must find every window at its LED although nobody tells it the size of the
picture but the passcode, and although its buffer may be too small for a
datagram.  `PoC` holds Arduino demonstrations.

## 2. Plan

The order is that of importance: what would be worst to get wrong, and hardest
to find with a test, first.

| | Module | Composes | State |
|---|---|---|---|
| 1 | `FrameServer`: the five threads, the lock, the table | implements `SourceTable` | modelled, safety proved |
| 2 | `Console`: `input()`, modes and the mark, unlocked reads included | extends `FrameServer` | modelled, safety proved |
| 3 | `Blend`: what mixing does to a pixel | beside `FrameServer`, which keeps the layers of a picture as a sequence | modelled, safety proved |
| 4 | `Pipeline`: receiver, redis, forwarder | implements `LossyQueue` | modelled, safety proved |
| 5 | `TeensyWall`: reading, DMA, interrupt, strip | behind `Pipeline`'s serial port | modelled, safety proved |
| 6 | `TeensyLink`: reboot, configuration and streaming | before `Pipeline`'s main loop and `TeensyWall`'s `loop()` | modelled, safety proved |
| 7 | `Wire`: client, decoder, encoder, relay, page | what `FrameServer` takes for members of `Frame` | modelled, safety proved |
| 8 | `ArduPixel`: the display without a server | extends `Wire`, whose clients it serves | modelled, safety proved |
| 9 | `StripOrder`: from an image's pixels to LEDs | what `Pipeline` takes for lines | modelled, safety proved |

Abstract specifications worth stating: `SourceTable` (the server without
threads) and `LossyQueue` (the pipeline without processes).  Both are written,
checked and proved to be implemented.

Every invariant and every action property the passing runs check is also a
theorem.  What is left to TLC is listed in section 6.

## 3. Modules

### 3.1 `FrameServer` (`src/frameserver/Server.cpp`)

The variables have the names of the code: `buffers`, `endpoints`, `times`,
`currenttime`, `frame`, `recv_buf`, `bufnum`, `size`, `x`, `i`, `data`.  `owner`
is `mutex_`.  `pc` says where each thread is.  `clock` is real time, finer than
the `time_t` the code sees.  `sent` is the last picture that left by UDP, and
`heard` a history of when each source was last taken up.

An action is a piece of a thread that no other thread can observe half done:
up to the lock, from one access of shared state to the next inside it, and
after it.

| Thread | Actions | Code |
|---|---|---|
| `listen` | `Receive`, `ReceiveError`, `ListenAcquire`, `ListenKnown` / `ListenNew` / `ListenRefuse`, `ListenStore` | 46-170 |
| `mix` | `MixAcquire`, `MixZero`, `MixBlend` for each buffer, `MixDone` | 240-341 |
| `send` | `SendAcquire`, `SendCopy`, `SendUdp` / `SendUdpFails`, `SendTcp` | 173-235 |
| `expire` | `ExpireAcquire`, `ExpireErase` / `ExpireKeep`, `ExpireDone` | 590-614 |
| `console` | `ConsoleAcquire`, `ConsolePrint` | 375-398 |
| time | `Tick` | none |

Two abstractions matter.  A frame is an opaque value: `Wire` says how a datagram
decodes to one.  The mixed frame is the sequence of frames painted on it, bottom
first: `Blend` says what painting does to a pixel.  Since a sequence forgets
nothing, no property of `FrameServer` can hold because two pictures happen to
look alike.

Two things the code does and one may not expect are kept.  `receive_from` can
fail, and `listen` looks at the error after it has stored what is in `recv_buf`
under the default endpoint.  `send` may copy the frame memory before `mix` has
run for the first time (`Blank`).

The refinement to `SourceTable` maps the effect of `listen` to the moment it takes
the lock, because everything it will do is settled there, and the picture of
`mix` likewise, because no thread can look at `frame` before it is complete.

### 3.2 `Console` (`Server.cpp` 369-373, 402-446, 580-584)

`FrameServer` with one thread more.  `console()` starts `input()`, which handles one
key at a time (`key`): `ModeKey`, `KeyUp`, `KeyDown` followed by `CheckSize`, which is
`get_size()` with its lock, and by `MoveDown`, which is no longer under it; every
other key is noted under the lock (`OtherKey`, `NoteKey`).  `mode` and
`selected_buffer` are read by one thread and written by the other without the lock.
The blocks of `input()` read what the lock guards, or write what no modelled thread
looks at, so each is one action that finds the mutex free and leaves it free.
`erased` is a history: how many clients the list has lost since `CheckSize` last saw
a next row.  Every action of the server stays what it is in `FrameServer` (`Server`),
so what is proved of it holds here (`ServerUndisturbed`) and is not checked again.

### 3.3 `Blend` (`Server.cpp` 261-330)

One colour and the opacity of one window, the history of what was painted on it,
and the actions `Zero` and `Paint`.  The exact blend is a fraction; the code
computes in single precision and truncates, so that where the exact value is a
whole number it may come out one less.  The model allows both.  `rounded` counts
the translucent layers above the last opaque one: that many units is all that
truncation can cost.

### 3.4 `Pipeline` (`src/v2/backend/forwarding/receiver.py`, `forward.py`)

Clients connect, send what they ask for, then lines, then leave, possibly in the
middle of a line or of the negotiation.  `socketserver.TCPServer` serves one
connection at a time.  Each redis command is one action, in either process.
The forwarder is `Start`, `PublishConfig`, `SerialConfigure`, then the main loop
`Poll`, `Pop`, `Write`, `Pace`, `UpdateFramerate`; `Die` can strike anywhere.
`height`, `width` and `imgsize` are handled alike at every line and are one field.

`LossyQueue` is the promise: lines come out in the order they went in, at most
once, and a death loses at most the head of the queue.  The refinement maps the
line in the forwarder's hand and the redis list to one queue.

### 3.5 `TeensyWall` (`VideoDisplayTeensy31.ino`, `OctoWS2811.cpp`)

The host writes lines of up to `ledsPerStrip` cells, with pauses; `loop()` reads a command, then
cells until the line ends or the read times out; `show()` waits until the DMA is
done and the strip has latched, copies `drawingMemory` to `displayMemory` and
starts the DMA; the DMA, its interrupt and the strip go on by themselves.  The
24 bytes of a LED are one cell.  A byte is the line it belongs to and its place in
it, so that the properties can tell which line a cell on the strip comes from; what
`loop()` sees of it is only its kind (`Byte`).

### 3.6 `TeensyLink` (`forward.py` 40-120, `VideoDisplayTeensy31.ino` `setup`, `loop`)

The one model with a clock that matters: the forwarder sleeps, the Teensy boots,
`setup()` gives up after five seconds.  The command and the number are four bytes
each, so one token each.  The Teensy can be power-cycled and the forwarder can
die at any time.  `Tick` is possible only when nobody who can act is waiting to
act; the slack a real scheduler takes is in `Boot` and `Lag`.  Once configured, the
forwarder streams (`WriteLine`): a line is one more token, and a port whose Teensy
has been away (`stale`) raises an exception that ends the forwarder.

### 3.7 `Wire` (`clients/s2llib.py`, `Server.cpp`, `ws_udp.js`, `visionneuse.html`)

Byte positions, on a wall of any size.  The client's datagram, the server's
decoding and encoding, and the page's decoding are four computations written
down independently in the code, and so they are in the model.  Datagrams to the
server are lost, overtaken and sent by others with another passcode; messages to
a browser keep their order.  The ten bytes of the passcode are one, so that the
header is three bytes long and `send()` leaves as many at zero.

### 3.8 `ArduPixel` (`displayclient/ardupixel/ardupixel.ino`)

A client's program names the one host its datagrams go to: the frame server or
the Arduino; a behaviour of the model has one of the two (`target`), so that of
clients with different targets it shows each by itself, not both at once.
`drawCommand` copies as much of a datagram as `packetBuffer` holds
(`UDP_TX_PACKET_MAX_SIZE`, a constant of the Ethernet library; `Received`), reads width
and height from the two characters of the passcode that hold them, and computes
the places of windows in the buffer and on the strip by itself.  An index behind the
buffer is undefined behaviour: it finds any byte out of `Stray`.  A passcode of
another wall is understood, too: its smaller picture lies in the first corner, and
LEDs beside a picture keep what they showed.

### 3.9 `StripOrder` (`data_generator.py`)

`make_line` for the eight ways a strip can be mounted, `image2data` with the
dimming and the expansion of bits to pulses, the newline that ends the line, the
receiver's `strip()` and the Teensy's reading up to `#`.  A negative index counts
from the end, as in Python.  Where each LED hangs is stated on its own
(`Place`), from the comment that names the type's corner and direction.

## 4. What is checked

| Run | Question | Bounds | States |
|---|---|---|---|
| `server` | Do the vectors stay aligned, does a frame go to its own sender's entry, is nothing unset or half mixed ever copied, does no source expire early, none escape a sweep, does the order of those that stay remain, and is the whole equal to the table without threads? | 3 clients and the default endpoint, 1 frame, `NUMBUFS` 3, `BUFTIMEOUT` 0, half seconds, 1 s | 3.0 million |
| `server_live` | Is a stored frame transmitted, and does a silent source leave? | 1 client and the default endpoint, 1 frame, `NUMBUFS` 2, `BUFTIMEOUT` 0, 1 s | 12 thousand |
| `console` | Can anything but expiry leave the mark below the last client, and is every key dealt with? | as `server_live`; any key at any time | 176 thousand |
| `blend` | How far can truncation lead away from the exact blend, and what does an opaque layer leave of what is below it? | a scale of 0..5, 4 layers | 28 thousand |
| `pipeline` | Order, losses, torn lines, mixing of clients, frame rate; is what is sent written, does the negotiated rate take effect once the list has drained? | 2 clients of 2 lines, forwarder started twice, rates up to 2; clients ask for something that fits, for too fast a rate, for too large a wall, or for nothing (a rate of 0) | 253 thousand |
| `wall` | Is no picture torn, does reading recover after pauses and short lines, does every line begun end up on the strip? | 3 LEDs, 3 lines, 2 cells in the serial buffer | 140 thousand |
| `link` | Is a Teensy that was in `loop()` configured when streaming starts, is no pixel ever taken for its number of LEDs, does the handshake end? | the code's own times, boot up to 2 s, 1 s oversleep, 2 tokens on the line | 311 |
| `link_command` | Does a reboot command restart the Teensy? (It need not.) | as above | |
| `wire` | Does a browser show what was drawn, in its place and colour, and does it catch up?  Does the strip of an Arduino light every window it has room for in its place? | 2 x 2 windows, 2 displays of 1 segment, 2 datagrams under way, 1 browser, a strip of 3 x 3, a buffer for three windows and a byte, 2 stray bytes | 27 thousand |
| `wire_utf8` | The same with bytes above 127 (no) | as above | |
| `strip` | Does an image come out where its pixels are, and does no byte look like the end of a line? | walls of 2x2, 2x3, 3x2, 1x3, the 8 types, long or short lines, 2 pixels painted | 45 thousand |
| `strip_type6` | Is type 6 what its comment says? (It is not.) | as above, 1 pixel | |

### 4.1 Why the bounds are enough

* *Frame server.*  The interference the lock must prevent takes one thread that
  writes the table, one that uses an index into it, and an entry that moves, so
  two entries.  Skipping in the sweep needs two neighbours to expire in one sweep,
  a change of order a third that stays.  With the default endpoint there are four
  addresses for three places, so a full table occurs and makes room again.
  `BUFTIMEOUT` 0 lets a source expire after one tick; whole seconds against real
  time need a finer clock: two ticks a second.  One frame is enough,
  because the mixed picture keeps its layers apart by their number and the
  unset and the blank one differ from it; that a client's old frame is not taken
  for its new one is left to the theorem `Refinement`.  All safety properties
  are also proved for all constants.
* *Console.*  Two places in the list, so that the mark can move, and a sweep that
  can shorten the list between `CheckSize` and `MoveDown` and strand the mark.
  The invariant is also proved for all constants.
* *Blend.*  The constants are a scale; the exact value and the error per step
  depend on residues, all of which occur on 0..5.  Errors add up over four layers.
  Both invariants are also proved for all scales and any number of layers.
* *Pipeline.*  Two clients, so that one waits while the other is served; two
  lines, so that order and a torn last line occur; two starts, so that a
  forwarder works on what its dead predecessor left.  `RateCatchesUp` does
  not live on clients falling silent after two lines: it claims nothing while lines
  keep arriving.  The safety properties are
  also proved for all constants.
* *Wall.*  Three LEDs and three lines: one picture in the DMA, one being read, one
  on the wire; lines are empty, shorter than the strip, or as long.  The safety
  properties are also proved for all constants.
* *Link.*  The times are those of the code; the only bounds are `Boot`, `Lag` and the
  two tokens under way (`MaxWire`).  The safety properties are also proved for all
  times in which the forwarder sleeps less than `setup()` waits.
* *Wire.*  A row of two and two rows show every factor of the layout (`WIDTH`,
  channel count, newline, offset); two datagrams under way can change places.
  The strip is larger than the canvas by a row and a column, so that a window in
  the wrong place can hit a LED that should stay dark.  The buffer of the Arduino
  ends inside the colour of the last window, so that three windows are kept, as
  with the library's 24 bytes, and one is read partly behind the buffer.  The three
  invariants are also proved for walls, strips and buffers of any size and any
  number of browsers.  `BrowserCatchesUp` needs the picture to come to rest, which
  `MaxEdits` sees to.
* *Strip.*  Square, wide, high and one-column walls tell width from height and
  even columns from odd ones; the colours are chosen so that, dimmed, they are
  the codes of a newline, `#` and `*`.  The three invariants are also proved for
  walls of any size, all colours and any brightness.

Every property is also checked to be sensitive to the code: for each there is a
plausible slip in a definition (the operators commented "A slip", next to the
definition they change, listed under `mutants` in `PROJECT.json`) that violates
it in its run.

### 4.2 Fairness

* *Frame server.*  Weak fairness for steps inside the lock and after it: they do
  not wait for anybody.  Strong fairness for taking the lock: every thread
  sleeps between its turns (`usleep`, `sleep`, the receive), so the mutex is free
  again and again, and nobody can hold it forever.  `ConsolePrint` is fair
  because `refresh()` returns as long as the terminal takes the output; with a
  stopped terminal the server stands still, lock in hand.  `SendUdp` is strongly
  fair against `SendUdpFails`: sending to a display on the same host does not fail
  forever.  Nothing is assumed of arrivals or of the clock.
* *Console.*  Whoever holds the lock goes on, and `input()` gets it in the end, which
  needs strong fairness, because the five threads take it in between.  Nobody has
  to press a key, and no thread has to take the lock.
* *Pipeline.*  The forwarder's loop and the handler of each connection run.  Nobody
  has to restart a dead forwarder, and no client has to leave: the properties
  say what happens while a forwarder is up and for the connection served.
* *Wall.*  The CPU, the DMA, the interrupt and the strip go on by themselves.
* *Link.*  Time passes, and both programs take the steps they can take.
* *Wire.*  `send()`, the relay and each page go on.  Nothing is assumed of the
  client or of the network between client and server.

### 4.3 What the runs found

Three runs end in a counterexample; each shows a disagreement between the code
and what it says of itself.

1. `link_command`.  `setup()` takes the first four bytes it gets for the number
   of LEDs.  A forwarder started within five seconds of the Teensy's restart
   sends it the reboot command, which is what `forward.py:56` calls it, and the
   Teensy then has that many LEDs.  The number sent later is discarded by
   `loop()`, and the echo is not compared.
2. `wire_utf8`.  `ws_udp.js:95` converts the datagram to text as UTF-8.  Two bytes
   that form a character shift everything behind them, and other bytes above 127
   become the replacement character.  255 survives: the code of that character
   is larger, and a component of `fillStyle` is cut off at 255.
3. `strip_type6`.  `data_generator.py:95` multiplies by `height` where its mirror
   image, type 4, does not.  The comment above it says "OK".

Noticed on the way, and not modelled:

* `src/HACKING:22` says that byte `z` "indicates z level. 1=the most backwards";
  `mix` never reads it, layers lie in the order their sources were first heard.
* The opacity channel is blended with its own weight (`Server.cpp:296-297`), so that
  a translucent layer makes an opaque picture less opaque.
* `send()` leaves the header's bytes at zero; `ws_udp.js:6` and
  `visionneuse.html:30` describe the passcode there.
* `displayclient/cpp-client` decodes a layout without header and newlines, on
  a port nobody sends to.
* `input()` calls `clear()` without the lock (418-426), so `console()` may print one more
  picture of the old view afterwards, and remnants of it stay.  An operator can
  also be left with the mark on a row no client has: nothing moves it back when
  the list shrinks.
* `update_framerate` is only called when the list is empty (`forward.py:132-135`): while a
  client sends faster than the rate in force, the one it has negotiated is not used.
* `ardupixel.ino:2` warns that the sketch "does NOT YET use the syndilights format".  Its
  `drawCommand` does compute the places of that format: twelve bytes of header, four
  bytes a window, a newline after each row (105, 118-129), which is what `LedsInPlace` says.
  What it lacks is room and the segment displays: `packetBuffer` has
  `UDP_TX_PACKET_MAX_SIZE` bytes (35), 24 unless the Ethernet library is changed, that is
  the header and three windows.  Every other window shows what lies behind the buffer in
  memory, although line 120 speaks of 20 rows of 200 pixels.  The red, green and blue bytes
  of windows are all it reads; segments are ignored.
* `ardupixel.ino:143-144` compare with `>`, so that column `COLS` and row `ROWS` pass; no
  picture of the size of the strip reaches them.  `indirect` returns -1 as an unsigned
  number, which `drawCommand` compares with `>=0`; the library ignores it.
* `displayclient/ardupixel/feed_stream-25x20.sh` announces `DI`, 20 wide and 25 high, and
  sends 20 rows of 25.  `clients/cellular55.py` announces `<8`, twelve by eight, and
  sends six by five, which the frame server accepts and decodes as a wall of its own
  size; `clients/plasma.py` announces `55` and sends twelve by eight, which it drops.
* `setPixel` and `getPixel` of the vendored OctoWS2811 rotate the colours in a way
  that is not its own inverse; the sketch calls neither.

## 5. What is proved

For every value of the constants that satisfies the assumptions
(`FramesAssumption`: the special frames and the special address are not ordinary
ones; `LimitsAssumption`, `BlendAssumption`, `PipelineAssumption`,
`TeensyWallAssumption`: limits are natural numbers, a second has at least one tick, a
scale at least one step, a wall at least one row and one frame a second, a strip a
LED; `TeensyLinkAssumption`: the forwarder sleeps and waits for a while, and sleeps
less than `setup()` waits; `WireAssumption`: sizes are positive and no colour starts a
longer character of UTF-8; `ArduPixelAssumption`: the canvas fits on the strip, which
has less than 65535 LEDs, and the header into the buffer; `StripOrderAssumption`: sizes are positive and colours are
bytes).

| Module | Theorem | Says |
|---|---|---|
| `FrameServerProofs` | `TypeCorrect` | every variable keeps its type |
| | `InductiveInvariant` | `IInv` holds always |
| | `VectorsStayAligned` | `TableAligned` |
| | `StoreGoesToSender` | `WriteHitsSender` |
| | `UnsetIsNeverShown` | `UnsetNeverShown` |
| | `SweepIsComplete` | `SweepLeavesNoneBehind` |
| | `NoSourceExpiresEarly` | `NoEarlyExpiry` |
| | `OrderIsStable` | `StableOrder` |
| | `Refinement` | the threads implement `SourceTable` |
| | `ServerUndisturbed` | every behaviour of `Console` is one of `FrameServer` |
| | `MarkStrandedByExpiry` | `OnlyExpiryStrandsMark` |
| `BlendProofs` | `TypeCorrect` | `TypeOK`: channels stay bytes |
| | `ErrorsDoNotBuildUp` | `ErrorBounded` |
| `PipelineProofs` | `TypeCorrect` | `TypeOK` |
| | `RateUsable` | `RateWithinLimits` |
| | `ClientsStayApart` | `NoMixing` |
| | `TornLineIsLast` | `OnlyLastTorn` |
| | `Refinement` | the processes implement `LossyQueue` |
| | `LossBounded` | `OneLostPerDeath` |
| `TeensyLinkProofs` | `InductiveInvariant` | `IInv` of `TeensyLink` holds always |
| | `Configured` | `StreamsConfigured` |
| | `LinesFindTheLoop` | `LinesReachLoop` |
| `TeensyWallProofs` | `InductiveInvariant` | `ShowInv` holds always |
| | `NoPictureIsTorn` | `NoTearing` |
| | `LoopInvariant` | `LoopInv` holds always |
| | `TypeCorrect` | `TypeOK` |
| | `FindsTheNextLine` | `Resynchronised` |
| `WireProofs` | `Typed` | `TypeOK` |
| | `ScreensDrawn` | `ScreenIsDrawn`, for colours of bytes below 128 and 255 |
| | `DisplayRefinesWire` | every behaviour of `ArduPixel` is one of `Wire` |
| | `DisplayTyped` | so `TypeOK` holds of it, too |
| | `DisplayLeds` | `LedsInPlace`, for a buffer of any size |
| `StripOrderProofs` | `Typed` | `TypeOK` |
| | `OneLine` | `StaysOneLine` |
| | `ShownAsSent` | `WallShowsImage` |

### 5.1 The frame server

None of the properties is inductive by itself.  That the index in `listen` still
names the sender needs to know that nobody else holds the lock; that the sweep
skips nobody needs what the sweep has established of the entries before `i`; that
nothing is expired early needs that `times` never runs ahead of, nor behind, the
second at which a source was heard.  `IInv` is the conjunction

* `TypeOK`, `LockInv` (a thread inside its block owns the lock), `HandInv` (what
  `listen` is about to store is a frame);
* `TableAligned`, `WriteHitsSender`;
* `UnsetConfined` (a buffer is unset only between `ListenNew` and `ListenStore`, and
  only at `bufnum`), `MixInv` (`frame` is the first `x - 1` buffers while `mix` is at
  work), `PicturesClean` (what is shown consists of frames);
* `TimesInv` (`times[k]` is the second `heard` has for the source, and
  `currenttime` is not ahead of the clock), `SweepLeavesNoneBehind`.

There is one lemma for each action; under it one step for each conjunct the
action can disturb.  `SequenceLemmas` holds what is needed of `Append` and of
`RemoveAt`.  `NoEarlyExpiry` then follows for `ExpireErase`, the only action that
removes an entry, from `TimesInv`.  `StableOrder` needs three facts: which actions
change `endpoints` (`AddressesChange`), that `Append` leaves the old places alone, and
that `RemoveAt` keeps the order of what it does not remove.  The refinement needs `IInv` at every step:
`ListenAcquire` maps to `Refresh`, `Join` or a stutter, `ExpireErase` to `Forget`,
`MixAcquire` to `Mix`, `SendCopy` to `Send`, `Tick` to `TimePasses` or a stutter,
everything else to a stutter.

With the console each step of `ConsoleSpec` is a step of `FrameServer` or leaves its
variables alone (`ConsoleStep`), so everything proved of `Spec` is proved of
`ConsoleSpec`.  `OnlyExpiryStrandsMark` is inductive: whatever the list loses `erased`
gains (`ErasedCounts`), and `CheckSize` sets `erased` to 0 only when it has seen a row
below the mark.

`ErrorBounded` is inductive with `TypeOK` in `Blend`.  The argument is one of products:
the exact blend is a weighted mean, so a deviation below `rounded` before a layer is
one of at most `rounded` after it; truncation adds less than one; and weight 0 or
`Full` multiplies a whole number, so that nothing is truncated (`MixedFacts`).

### 5.2 The pipeline

`TypeInv` is inductive as it stands and carries the limits of the rate.  `MixInv`
strengthens `NoMixing` by where the lines of a connection that is not finished
can be: at the end of the list.  `OnlyLastTorn` needs `TearInv`: what is still in a
connection are the last lines sent, in order; what has been pushed was sent before
them; and a torn line, in the connection or in the list, is the last one of a
client that has left.  `StepRefines` maps each step to a step of
`LossyQueue`: `ReadLine` and `ReadEnd` to `Put`, `Write` to `Deliver`, `Start` to
`Start`, `Die` to `Die`.  The bound on losses is proved of `LossyQueue`'s own steps.

### 5.3 The Teensy

`StreamsConfigured` says something about the end of a handshake only.  `IInv` of
`TeensyLink` says what is true on the way: while the forwarder sleeps, the Teensy
it found in `loop()` still has the command before it, or boots, or waits in
`setup()` for no longer than the forwarder has slept (`Sleeping`).  With `RebootWait +
Lag < SetupTimeout`, three seconds against five in the code, `setup()` is still
waiting when the number is written (`Awaiting`).  That no line reaches `setup()` needs
more: nothing lies before a Teensy that boots (`Quiet`), and the number is all that
lies before one that is configured (`NumberFirst`).

`NoTearing` needs to know what is under way at every moment between two latches.
`ShowInv` says that `displayMemory` is written only while the flag is clear
(`CopyInv`), that the flag is set from the start of the DMA to its interrupt, and
that the strip has received a beginning of the picture `show()` was called with
(`SendInv`).  It does not depend on what arrives over the serial line.

What arrives is `LoopInv`: the bytes on the line follow each other in their lines and
from line to line (`WireInv`), and `loop()` is inside a line whose cells it has drawn
from the first on, or its reading timed out (`ReadInv`).  From that, `count` never
passes the length of the strip, and a line that was not delayed is drawn whole.

### 5.4 Layouts

Pictures travel as bytes whose places several programs compute on their own.
The layouts are joined rows (`FlattenSeq`), so the first thing to know is where in such
a row an entry lies.  `SequenceLemmas` says it for rows of equal length
(`FlattenShape`, `FlattenHolds`): row `k` begins behind `n * (k - 1)` entries, whatever
their number.  The induction this takes is one over numbers, which the provers find
once it is put into sets: a set of naturals has a least element (`LeastNatural`, from
the library's `WFMin`), so what holds of 0 and passes on from each number to the next
holds up to `n` (`UpTo`), a recursion has a solution (`RecursionExists`) and no other.

*Wire.*  `ScreenIsDrawn` compares a screen with what was drawn long ago, so the
invariant says of every hop between them what is there: each transmission under way
carries a frame that was sent (`QueueTold`), each text before a browser tells one
(`InboxTold`), each screen shows one (`ScreenTold`).  That a hop keeps this is a lemma
about the two formulas that meet there: `draw()` and `listen()` (`DatagramLayout`,
`DecodedDatagram`), `send()` and the relay (`EncodedCarries`, `CleanText`), the relay
and the page (`TextPainted`).  The relay's conversion to text makes the one hypothesis
necessary: a byte from 128 to 254 is shown as another (run `wire_utf8`), so the theorem
is about colours without them.  `Typed` does not need it: whatever the relay makes of
a transmission, what is painted are bytes.

*ArduPixel.*  `drawCommand` takes a datagram from the network, as a loss does, so
that everything proved of `Wire` holds here (`DisplayRefinesWire`).  `LedsInPlace` takes
the layout of the datagram once more, against the third way to compute it and as far as
`packetBuffer` has kept it (`SubPixels`), and that the zigzag of `indirect` is the inverse
of where the LEDs hang; with less than 65535 LEDs its 16 bits never wrap.  What is read
behind the buffer only reaches the LEDs of windows that are not kept.

*StripOrder.*  `WallShowsImage` is about an image and the LEDs after it has arrived.
In between the sketch paints the next one; so the invariant `InTransit` says that the
stream holds, at the place of every LED, the pulses of the pixel that was *sent*
(`StreamTold`).  Four facts carry it: `image2data` puts them there, nothing in the
stream but its last byte is white space or a `#`, so that it arrives whole and
unshifted (`LineArrives`); eight pulses are the byte they were made of
(`ValueOfPulses`); and `Start` and `Step` lead to the pixel at whose place the LED hangs
(`PlaceOfSpot`), for each type by itself.  For type 6 the last fails except on a single
row or column, which is where the invariant excludes it.

## 6. What is only model-checked, or not modelled

Only model-checked: all liveness properties, since fairness and `ENABLED` are beyond the
prover, and the three refutations.

Left out of the modules:

* `Wire`: colour values 224 to 244 (`WireAssumption`), which start characters of
  three and four bytes in UTF-8; the canvas is opaque, so that mixing it alone
  yields the frame itself (`Blend`'s `ErrorBounded`).
* `Pipeline`: the dummy mode, and `serialDataConfigure`, which nothing calls.
* `TeensyWall`: `setPixel` and `getPixel`, which the sketch does not call, and the
  set-up of pins and timers.
* `Console`: what is printed, and the unlocked calls of curses; the vector of threads,
  to which `console()` pushes under the lock (372) while `launch_threads()` may still push
  without it (33): a data race at start-up on a vector that nothing reads.
* `ArduPixel`: the set-up of the network, the red dot `setup()` runs over the strip, what is
  printed on the serial port, packets that do not begin with `s2l`, which no client
  sends, and `readSubPixelValue`, which nothing calls.  The strip is 16-bit addressable
  and at least as large as the canvas (`ArduPixelAssumption`).  Clients of a frame server
  and of an Arduino at the same time.

Not modelled: `Buffer` (its mutex is only ever taken inside `Server::mutex_`) and
`Buffers` (only `test.cpp` uses it); the GTK client, which decodes a layout nobody sends;
the variants of the relay and the canvas demonstrations; the demo clients, which
only fill a canvas; earlier sketches; hardware experiments; vendored code, among it
the Open Lighting Architecture with its own copies of protobuf and gtest, which makes
up nearly all lines of the repository and which only the programs in `ola-test` use.
`PROJECT.json` lists each with its reason.  With these modules the code of syndilights
itself that keeps state, runs concurrently or computes a layout is modelled.

## 7. Running it

    tlc -config FrameServer.cfg MCFrameServer.tla   # and FrameServer_live.cfg
    tlc -config Console.cfg MCConsole.tla
    tlc -config Pipeline.cfg MCPipeline.tla
    tlc -config Wire.cfg MCWire.tla                 # and Wire_utf8.cfg
    tlc -config StripOrder.cfg MCStripOrder.tla     # and StripOrder_type6.cfg
    tlc -config TeensyWall.cfg TeensyWall.tla
    tlc -config TeensyLink.cfg TeensyLink.tla       # and TeensyLink_command.cfg
    tlc -config Blend.cfg Blend.tla

    tlapm FrameServerProofs.tla                     # Console too
    tlapm BlendProofs.tla
    tlapm PipelineProofs.tla
    tlapm TeensyLinkProofs.tla
    tlapm TeensyWallProofs.tla
    tlapm WireProofs.tla                            # ArduPixel too
    tlapm StripOrderProofs.tla
    tlapm SequenceLemmas.tla
