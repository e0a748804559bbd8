------------------------------ MODULE TeensyWall ------------------------------
(***************************************************************************)
(* The Teensy once it is configured: loop() of VideoDisplayTeensy31.ino    *)
(* reads lines from the serial port into drawingMemory, and show() of      *)
(* OctoWS2811.cpp copies that to displayMemory and starts the DMA that     *)
(* shifts it out to the strip while loop() already reads the next line.    *)
(*                                                                         *)
(* The actors are the host that writes to the port, the CPU, the DMA       *)
(* controller, its interrupt, and the strip, which takes what it was sent  *)
(* when the line has been quiet for 50 us.  A LED's 24 bytes are one cell. *)
(***************************************************************************)
EXTENDS Integers, Sequences

CONSTANTS
  N,          \* ledsPerStrip
  MaxLines,   \* bound: lines the host writes
  MaxWire     \* bound: bytes (cells) in the serial buffers

ASSUME TeensyWallAssumption ==
  /\ N \in Nat \ {0}
  /\ MaxLines \in Nat
  /\ MaxWire \in Nat \ {0}

VARIABLES
  \* the host and the serial line
  line,       \* [k, at]: the line being written, and its next byte
  lengths,    \* how many cells each line has
  wire,       \* bytes written and not yet read
  \* loop() and show()
  cpu,        \* program point
  count,      \* cells read, or copied, so far
  drawing,    \* drawingMemory
  frame,      \* displayMemory
  inProgress, \* update_in_progress
  \* DMA, interrupt, strip
  dma,        \* the next cell to send, or 0
  irq,        \* channel 3 has completed, isr() is still to run
  strip,      \* cells received since the strip last took over
  wall,       \* what the strip shows
  \* history
  current,    \* the line last begun in loop()
  delayed,    \* reading it timed out
  begun,      \* the drawing at the last DMA start, and its line
  wallOf      \* the line the wall shows

hostVars == <<line, lengths>>
cpuVars  == <<cpu, count, drawing, frame, inProgress>>
outVars  == <<dma, irq, strip, wall>>
history  == <<current, delayed, begun, wallOf>>
vars == <<hostVars, wire, cpuVars, outVars, history>>

Cell == 1..N
Colour == 0..MaxLines       \* every line has a colour of its own; 0 is dark
Picture == [Cell -> Colour]
Dark == [i \in Cell |-> 0]

-----------------------------------------------------------------------------
(* forward.py, send(): `*', the cells, `#', at any pace.  A line may be    *)
(* shorter than the strip but not longer: sketches send images of the size *)
(* they announce, and receiver.py:42-49 checks that.  A byte is known by   *)
(* its line and its place there: 0 is the `*', the last one the `#'.       *)

Byte(e) == IF e.at = 0 THEN "*" ELSE IF e.at <= lengths[e.k] THEN "cell" ELSE "#"

HostBegins ==
  /\ line.at = lengths[line.k] + 2
  /\ line.k < MaxLines
  /\ \E n \in 0..N : lengths' = [lengths EXCEPT ![line.k + 1] = n]
  /\ line' = [k |-> line.k + 1, at |-> 0]
  /\ UNCHANGED <<wire, cpuVars, outVars, history>>

HostWrites ==
  /\ line.at < lengths[line.k] + 2
  /\ Len(wire) < MaxWire
  /\ wire' = Append(wire, line)
  /\ line' = [line EXCEPT !.at = @ + 1]
  /\ UNCHANGED <<lengths, cpuVars, outVars, history>>

-----------------------------------------------------------------------------
(* loop() *)

Goto(from, to) == cpu = from /\ cpu' = to

\* Slip: any byte that is not a terminator begins a line.
Begins_Any(byte) == byte # "#"
Begins(byte) == byte = "*"

(* Serial.read(): `*' begins a line, other bytes are discarded. *)
ReadCommand ==
  /\ cpu = "command"
  /\ wire # << >>
  /\ wire' = Tail(wire)
  /\ IF Begins(Byte(Head(wire)))
     THEN /\ cpu' = "read"
          /\ count' = 0
          /\ current' = Head(wire).k
          /\ delayed' = FALSE
     ELSE UNCHANGED <<cpu, count, current, delayed>>
  /\ UNCHANGED <<hostVars, drawing, frame, inProgress, outVars, begun, wallOf>>

(* readBytesUntil('#', drawingMemory, ...): up to one byte more than the    *)
(* strip has, so the terminator of a full line is read too.                 *)
ReadByte ==
  /\ cpu = "read"
  /\ wire # << >>
  /\ wire' = Tail(wire)
  /\ IF Byte(Head(wire)) = "#"
     THEN cpu' = "busy" /\ UNCHANGED <<count, drawing>>
     ELSE /\ count' = count + 1
          /\ drawing' = [drawing EXCEPT ![count + 1] = Head(wire).k]
          /\ UNCHANGED cpu
  /\ UNCHANGED <<hostVars, frame, inProgress, outVars, history>>

(* Nothing has come for 50 ms: what there is is shown. *)
ReadTimeout ==
  /\ Goto("read", "busy")
  /\ wire = << >>
  /\ delayed' = TRUE
  /\ UNCHANGED <<hostVars, wire, count, drawing, frame, inProgress, outVars,
                 current, begun, wallOf>>

-----------------------------------------------------------------------------
(* show() *)

\* while (update_in_progress).  Slip: it is not waited for.
Free_Always == TRUE
Free == ~inProgress

AwaitUpdate ==
  /\ Goto("busy", "copy")
  /\ Free
  /\ count' = 0
  /\ UNCHANGED <<hostVars, wire, drawing, frame, inProgress, outVars, history>>

(* memcpy *)
Copy ==
  /\ cpu = "copy"
  /\ frame' = [frame EXCEPT ![count + 1] = drawing[count + 1]]
  /\ count' = count + 1
  /\ cpu' = IF count' = N THEN "reset" ELSE "copy"
  /\ UNCHANGED <<hostVars, wire, drawing, inProgress, outVars, history>>

\* while (micros() - update_completed_at < 50).  Slip: no wait.
Quiet_Already == TRUE
Quiet == strip = << >>

(* With interrupts off set the flag and enable the channels. *)
StartDma ==
  /\ Goto("reset", "command")
  /\ Quiet
  /\ inProgress' = TRUE
  /\ dma' = 1
  /\ begun' = [picture |-> drawing, k |-> current]
  /\ UNCHANGED <<hostVars, wire, count, drawing, frame, irq, strip, wall,
                 current, delayed, wallOf>>

-----------------------------------------------------------------------------
(* The DMA sends a cell; after the last one channel 3 raises its interrupt. *)
DmaCell ==
  /\ dma # 0
  /\ strip' = Append(strip, frame[dma])
  /\ dma' = IF dma = N THEN 0 ELSE dma + 1
  /\ irq' = (dma = N)
  /\ UNCHANGED <<hostVars, wire, cpuVars, wall, history>>

\* Slip: the flag is left set.
Isr_Busy ==
  /\ irq
  /\ irq' = FALSE
  /\ UNCHANGED <<hostVars, wire, cpuVars, dma, strip, wall, history>>

Isr ==
  /\ irq
  /\ irq' = FALSE
  /\ inProgress' = FALSE
  /\ UNCHANGED <<hostVars, wire, cpu, count, drawing, frame, dma, strip, wall, history>>

(* 50 us of silence: every LED takes the colour it has received. *)
Latch ==
  /\ dma = 0
  /\ strip # << >>
  /\ wall' = [i \in Cell |-> strip[i]]
  /\ strip' = << >>
  /\ wallOf' = begun.k
  /\ UNCHANGED <<hostVars, wire, cpuVars, dma, irq, current, delayed, begun>>

-----------------------------------------------------------------------------

(* setup() has cleared both memories and calls show(). *)
Init ==
  /\ line = [k |-> 0, at |-> 2]
  /\ lengths = [k \in 0..MaxLines |-> 0]
  /\ wire = << >>
  /\ cpu = "busy"
  /\ count = 0
  /\ drawing = Dark
  /\ frame = Dark
  /\ inProgress = FALSE
  /\ dma = 0
  /\ irq = FALSE
  /\ strip = << >>
  /\ wall \in {Dark, [i \in Cell |-> MaxLines]}
  /\ current = 0
  /\ delayed = FALSE
  /\ begun = [picture |-> Dark, k |-> 0]
  /\ wallOf = 0

Host == HostBegins \/ HostWrites
Loop == ReadCommand \/ ReadByte \/ ReadTimeout \/ AwaitUpdate \/ Copy \/ StartDma

Next == Host \/ Loop \/ DmaCell \/ Isr \/ Latch

Spec == Init /\ [][Next]_vars

(* Time passes, and neither the CPU nor the DMA controller stops. *)
FairSpec ==
  Spec /\ WF_vars(Loop) /\ WF_vars(DmaCell) /\ WF_vars(Isr) /\ WF_vars(Latch)

-----------------------------------------------------------------------------
(* Properties *)

TypeOK ==
  /\ line \in [k : 0..MaxLines, at : 0..N + 2]
  /\ lengths \in [0..MaxLines -> 0..N]
  /\ wire \in Seq([k : 0..MaxLines, at : 0..N + 1])
  /\ Len(wire) <= MaxWire
  /\ cpu \in {"command", "read", "busy", "copy", "reset"}
  /\ count \in 0..N
  /\ {drawing, frame, wall, begun.picture} \subseteq Picture
  /\ inProgress \in BOOLEAN
  /\ dma \in 0..N
  /\ irq \in BOOLEAN
  /\ Len(strip) <= N
  /\ {current, begun.k, wallOf} \subseteq 0..MaxLines

(***************************************************************************)
(* The wall only ever shows what was drawn when show() was called, never   *)
(* parts of two drawings, although the next line is drawn and copied while *)
(* the DMA runs (OctoWS2811.cpp:195-234).                                  *)
(***************************************************************************)
NoTearing == [][wall' # wall => wall' = begun.picture]_vars

\* The memories keep their shape whatever comes over the wire.
MemoryInv ==
  /\ line \in [k : 0..MaxLines, at : Nat]
  /\ lengths \in [0..MaxLines -> 0..N]
  /\ wire \in Seq([k : 0..MaxLines, at : Nat])
  /\ current \in 0..MaxLines
  /\ count \in Nat
  /\ dma \in 0..N
  /\ {drawing, frame, begun.picture} \subseteq Picture
  /\ strip \in Seq(Colour)

\* show() copies only when the DMA is done.
CopyInv ==
  /\ cpu = "copy" => count < N /\ \A i \in 1..count : frame[i] = drawing[i]
  /\ cpu = "reset" => frame = drawing
  /\ cpu \in {"copy", "reset"} => ~inProgress

\* What the strip has received is a beginning of the picture being shown.
SendInv ==
  /\ irq => inProgress /\ dma = 0
  /\ dma # 0 => inProgress /\ frame = begun.picture /\ Len(strip) = dma - 1
  /\ dma = 0 => strip = << >> \/ Len(strip) = N
  /\ \A i \in 1..Len(strip) : strip[i] = begun.picture[i]

(***************************************************************************)
(* What makes NoTearing inductive: the flag is set from the start of the   *)
(* DMA to the interrupt, the copy is only written while it is clear, and   *)
(* what is under way is always the picture show() was called with.         *)
(***************************************************************************)
ShowInv == MemoryInv /\ CopyInv /\ SendInv

(***************************************************************************)
(* A full line read without a pause is shown as it was sent, whatever was  *)
(* cut off or discarded before it: loop() finds its way back to the next   *)
(* `*' (ino:95-110).                                                       *)
(***************************************************************************)
Resynchronised ==
  cpu = "busy" /\ current # 0 /\ ~delayed =>
    \A i \in 1..lengths[current] : drawing[i] = current

\* In the stream of bytes the next one of the line follows, or another line.
Follows(e, f) ==
  \/ f.k = e.k /\ f.at = e.at + 1
  \/ e.at = lengths[e.k] + 1 /\ f.k = e.k + 1 /\ f.at = 0

WireInv ==
  /\ line.at <= lengths[line.k] + 2
  /\ current <= line.k
  /\ \A i \in 1..Len(wire) : wire[i].k <= line.k /\ wire[i].at <= lengths[wire[i].k] + 1
  /\ \A i \in 1..Len(wire) - 1 : Follows(wire[i], wire[i + 1])
  /\ wire # << >> => Follows(wire[Len(wire)], line)

\* The next byte that is read is the next one of the line begun.
ReadInv ==
  cpu = "read" =>
    /\ count <= lengths[current]
    /\ (IF wire = << >> THEN line ELSE Head(wire)) = [k |-> current, at |-> count + 1]
    /\ \A i \in 1..count : drawing[i] = current

(***************************************************************************)
(* What makes TypeOK and Resynchronised inductive: the bytes on the wire   *)
(* are consecutive, and loop() reads a line from its first byte on.        *)
(***************************************************************************)
LoopInv == ShowInv /\ TypeOK /\ WireInv /\ ReadInv /\ Resynchronised

(***************************************************************************)
(* Every line begun is eventually on the wall; show() never waits for      *)
(* good, neither for the flag nor for the strip.                           *)
(***************************************************************************)
EveryLineShown ==
  \A k \in 1..MaxLines : (current = k) ~> (wallOf = k)
=============================================================================
