-------------------------- MODULE TeensyWallProofs --------------------------
(***************************************************************************)
(* No picture is torn, for strips of every length and any number of lines: *)
(* show(), the DMA and its interrupt keep ShowInv.                         *)
(***************************************************************************)
EXTENDS TeensyWall, SequenceTheorems, TLAPS

USE TeensyWallAssumption

Place == [k : 0..MaxLines, at : Nat]

LEMMA InitShow == Init => ShowInv
<1> SUFFICES ASSUME Init PROVE ShowInv
  OBVIOUS
<1>1. MemoryInv
  <2>1. << >> \in Seq(Colour) /\ << >> \in Seq(Place)
    BY EmptySeq
  <2>2. Dark \in Picture
    BY DEF Dark, Picture, Colour
  <2> QED BY <2>1, <2>2 DEF Init, MemoryInv, Place
<1>2. CopyInv
  BY DEF Init, CopyInv
<1>3. SendInv
  BY DEF Init, SendInv
<1> QED BY <1>1, <1>2, <1>3 DEF ShowInv

(* The host touches neither memory.                                        *)
LEMMA HostShow == ShowInv /\ Host => ShowInv'
<1> SUFFICES ASSUME ShowInv, Host PROVE ShowInv'
  OBVIOUS
<1>1. UNCHANGED <<cpuVars, outVars, history>>
  BY DEF Host, HostBegins, HostWrites
<1>2. /\ line' \in Place
      /\ lengths' \in [0..MaxLines -> 0..N]
      /\ wire' \in Seq(Place)
  <2>1. /\ line \in Place /\ lengths \in [0..MaxLines -> 0..N]
        /\ wire \in Seq(Place)
    BY DEF ShowInv, MemoryInv, Place
  <2>2. CASE HostBegins
    <3>1. line' \in Place /\ wire' = wire
      BY <2>1, <2>2 DEF HostBegins, Place
    <3>2. lengths' \in [0..MaxLines -> 0..N]
      BY <2>1, <2>2 DEF HostBegins
    <3> QED BY <2>1, <3>1, <3>2
  <2>3. CASE HostWrites
    <3>1. wire' \in Seq(Place)
      BY <2>1, <2>3, AppendProperties DEF HostWrites
    <3>2. line' = [k |-> line.k, at |-> line.at + 1]
      BY <2>1, <2>3 DEF HostWrites, Place
    <3>3. line' \in Place
      BY <2>1, <3>2 DEF Place
    <3> QED BY <2>1, <2>3, <3>1, <3>3 DEF HostWrites
  <2> QED BY <2>2, <2>3 DEF Host
<1>3. MemoryInv'
  BY <1>1, <1>2 DEF ShowInv, MemoryInv, cpuVars, outVars, history, Place
<1>4. CopyInv'
  BY <1>1 DEF ShowInv, CopyInv, cpuVars
<1>5. SendInv'
  BY <1>1 DEF ShowInv, SendInv, cpuVars, outVars, history
<1> QED BY <1>3, <1>4, <1>5 DEF ShowInv

(* Reading writes drawingMemory only, and outside show().                  *)
LEMMA ReadCommandShow == ShowInv /\ ReadCommand => ShowInv'
<1> SUFFICES ASSUME ShowInv, ReadCommand PROVE ShowInv'
  OBVIOUS
<1> USE DEF ShowInv, ReadCommand, hostVars, outVars
<1>1. Head(wire).k \in 0..MaxLines /\ Tail(wire) \in Seq(Place)
  <2>1. wire \in Seq(Place) /\ wire # << >>
    BY DEF MemoryInv, Place
  <2>2. Head(wire) \in Place
    BY <2>1, HeadTailProperties
  <2>3. Tail(wire) \in Seq(Place)
    BY <2>1, HeadTailProperties
  <2> QED BY <2>2, <2>3 DEF Place
<1>2. current' \in 0..MaxLines /\ count' \in Nat
  <2>1. \/ current' = Head(wire).k /\ count' = 0
        \/ UNCHANGED <<count, current>>
    BY Zenon
  <2>2. current \in 0..MaxLines /\ count \in Nat
    BY DEF MemoryInv
  <2> QED BY <1>1, <2>1, <2>2
<1>3. MemoryInv'
  BY <1>1, <1>2 DEF MemoryInv, Place
<1>4. CopyInv'
  BY DEF CopyInv
<1>5. SendInv'
  BY DEF SendInv
<1> QED BY <1>3, <1>4, <1>5

LEMMA ReadByteShow == ShowInv /\ ReadByte => ShowInv'
<1> SUFFICES ASSUME ShowInv, ReadByte PROVE ShowInv'
  OBVIOUS
<1> USE DEF ShowInv, ReadByte, hostVars, outVars, history
<1>1. Head(wire).k \in 0..MaxLines /\ Tail(wire) \in Seq(Place)
  <2>1. wire \in Seq(Place) /\ wire # << >>
    BY DEF MemoryInv, Place
  <2>2. Head(wire) \in Place
    BY <2>1, HeadTailProperties
  <2>3. Tail(wire) \in Seq(Place)
    BY <2>1, HeadTailProperties
  <2> QED BY <2>2, <2>3 DEF Place
<1>2. drawing' \in Picture /\ count' \in Nat
  <2>1. \/ UNCHANGED <<count, drawing>>
        \/ /\ count' = count + 1
           /\ drawing' = [drawing EXCEPT ![count + 1] = Head(wire).k]
    BY Zenon
  <2>2. drawing \in Picture /\ count \in Nat
    BY DEF MemoryInv
  <2> HIDE DEF ShowInv, ReadByte
  <2> QED BY <1>1, <2>1, <2>2 DEF Picture, Colour
<1>3. MemoryInv'
  BY <1>1, <1>2 DEF MemoryInv, Place
<1>4. CopyInv'
  BY DEF CopyInv
<1>5. SendInv'
  BY DEF SendInv
<1> QED BY <1>3, <1>4, <1>5

LEMMA ReadTimeoutShow == ShowInv /\ ReadTimeout => ShowInv'
BY DEF ShowInv, MemoryInv, CopyInv, SendInv, ReadTimeout, Goto, hostVars, outVars

(* show() gets past the flag: the DMA has sent everything.                 *)
LEMMA AwaitUpdateShow == ShowInv /\ AwaitUpdate => ShowInv'
BY DEF ShowInv, MemoryInv, CopyInv, SendInv, AwaitUpdate, Free, Goto, hostVars, outVars,
   history

(* The copy is written while no DMA reads it.                              *)
LEMMA CopyShow == ShowInv /\ Copy => ShowInv'
<1> SUFFICES ASSUME ShowInv, Copy PROVE ShowInv'
  OBVIOUS
<1> USE DEF ShowInv, Copy, hostVars, outVars, history
<1>1. count \in 0..(N - 1) /\ ~inProgress /\ dma = 0
  BY DEF MemoryInv, CopyInv, SendInv
<1>2. frame \in Picture /\ drawing \in Picture
  BY DEF MemoryInv
<1>3. count + 1 \in Cell /\ drawing[count + 1] \in Colour
  BY <1>1, <1>2 DEF Cell, Picture
<1>4. frame' \in Picture /\ \A i \in Cell :
        frame'[i] = IF i = count + 1 THEN drawing[i] ELSE frame[i]
  BY <1>2, <1>3 DEF Picture
<1>5. MemoryInv'
  BY <1>4 DEF MemoryInv
<1>6. \A i \in 1..(count + 1) : frame'[i] = drawing[i]
  BY <1>1, <1>4 DEF CopyInv, Cell
<1>7. CopyInv'
  <2>1. CASE count + 1 = N
    <3>1. frame' = drawing
      BY <1>2, <1>4, <1>6, <2>1 DEF Picture, Cell
    <3> QED BY <1>1, <2>1, <3>1 DEF CopyInv
  <2>2. CASE count + 1 # N
    BY <1>1, <1>6, <2>2 DEF CopyInv
  <2> QED BY <2>1, <2>2
<1>8. SendInv'
  BY <1>1 DEF SendInv
<1> QED BY <1>5, <1>7, <1>8

(* The DMA starts on a silent strip with a complete copy.                  *)
LEMMA StartDmaShow == ShowInv /\ StartDma => ShowInv'
<1> SUFFICES ASSUME ShowInv, StartDma PROVE ShowInv'
  OBVIOUS
<1> USE DEF ShowInv, StartDma, Goto, Quiet, hostVars
<1>1. MemoryInv'
  BY DEF MemoryInv
<1>2. CopyInv'
  BY DEF CopyInv
<1>3. SendInv'
  BY DEF SendInv, CopyInv
<1> QED BY <1>1, <1>2, <1>3

(* The next cell is one of the picture that show() was called with.        *)
LEMMA DmaCellShow == ShowInv /\ DmaCell => ShowInv'
<1> SUFFICES ASSUME ShowInv, DmaCell PROVE ShowInv'
  OBVIOUS
<1> USE DEF ShowInv, DmaCell, hostVars, cpuVars, history
<1>1. /\ dma \in 1..N /\ inProgress /\ frame = begun.picture /\ Len(strip) = dma - 1
      /\ frame \in Picture /\ strip \in Seq(Colour)
  BY DEF SendInv, MemoryInv
<1>2. frame[dma] \in Colour
  BY <1>1 DEF Picture, Cell
<1>3. /\ strip' \in Seq(Colour) /\ Len(strip') = dma
      /\ \A i \in 1..Len(strip) : strip'[i] = strip[i]
      /\ strip'[dma] = frame[dma]
  BY <1>1, <1>2, AppendProperties
<1>4. MemoryInv'
  BY <1>1, <1>3 DEF MemoryInv
<1>5. CopyInv'
  BY <1>1 DEF CopyInv
<1>6. \A i \in 1..Len(strip') : strip'[i] = begun.picture[i]
  BY <1>1, <1>3 DEF SendInv
<1>7. irq' => inProgress' /\ dma' = 0
  BY <1>1, Zenon
<1>8. /\ dma' # 0 => inProgress' /\ frame' = begun'.picture /\ Len(strip') = dma' - 1
      /\ dma' = 0 => strip' = << >> \/ Len(strip') = N
  BY <1>1, <1>3
<1>9. \A i \in 1..Len(strip') : strip'[i] = begun'.picture[i]
  BY <1>6
<1>10. SendInv'
  BY <1>7, <1>8, <1>9, Zenon DEF SendInv
<1> QED BY <1>4, <1>5, <1>10

LEMMA IsrShow == ShowInv /\ Isr => ShowInv'
BY DEF ShowInv, MemoryInv, CopyInv, SendInv, Isr, hostVars, history

LEMMA LatchShow == ShowInv /\ Latch => ShowInv'
<1> SUFFICES ASSUME ShowInv, Latch PROVE ShowInv'
  OBVIOUS
<1> USE DEF ShowInv, Latch, hostVars, cpuVars
<1>1. MemoryInv'
  BY EmptySeq DEF MemoryInv
<1>2. CopyInv'
  BY DEF CopyInv
<1>3. SendInv'
  BY DEF SendInv
<1> QED BY <1>1, <1>2, <1>3

LEMMA NextShow == ShowInv /\ [Next]_vars => ShowInv'
<1> SUFFICES ASSUME ShowInv, [Next]_vars PROVE ShowInv'
  OBVIOUS
<1>1. CASE Host
  BY <1>1, HostShow
<1>2. CASE Loop
  BY <1>2, ReadCommandShow, ReadByteShow, ReadTimeoutShow, AwaitUpdateShow, CopyShow,
     StartDmaShow DEF Loop
<1>3. CASE DmaCell \/ Isr \/ Latch
  BY <1>3, DmaCellShow, IsrShow, LatchShow
<1>4. CASE UNCHANGED vars
  BY <1>4 DEF vars, hostVars, cpuVars, outVars, history, ShowInv, MemoryInv, CopyInv,
     SendInv
<1> QED BY <1>1, <1>2, <1>3, <1>4 DEF Next

(***************************************************************************)
(* The memories keep their shape, the copy is only written while the DMA   *)
(* is idle, and what has been sent is a beginning of the picture.          *)
(***************************************************************************)
THEOREM InductiveInvariant == Spec => []ShowInv
BY InitShow, NextShow, PTL DEF Spec

(* When the strip takes over, it has received the whole picture.           *)
LEMMA LatchShowsPicture == ShowInv /\ Latch => wall' = begun.picture
<1> SUFFICES ASSUME ShowInv, Latch PROVE wall' = begun.picture
  OBVIOUS
<1>1. Len(strip) = N /\ begun.picture \in Picture
  BY DEF ShowInv, SendInv, MemoryInv, Latch
<1>2. \A i \in Cell : strip[i] = begun.picture[i]
  BY <1>1 DEF ShowInv, SendInv, Cell
<1>3. begun.picture = [i \in Cell |-> begun.picture[i]]
  BY <1>1 DEF Picture
<1> QED BY <1>2, <1>3 DEF Latch

(***************************************************************************)
(* The wall only ever shows a drawing as it was when show() was called,    *)
(* for strips of every length.                                             *)
(***************************************************************************)
THEOREM NoPictureIsTorn == Spec => NoTearing
<1>1. ShowInv /\ [Next]_vars => [wall' # wall => wall' = begun.picture]_vars
  <2> SUFFICES ASSUME ShowInv, Next, wall' # wall PROVE wall' = begun.picture
    BY DEF vars, outVars
  <2>1. Latch
    BY DEF Next, Host, Loop, HostBegins, HostWrites, ReadCommand, ReadByte, ReadTimeout,
       AwaitUpdate, Copy, StartDma, DmaCell, Isr, outVars
  <2> QED BY <2>1, LatchShowsPicture
<1> QED BY <1>1, InductiveInvariant, PTL DEF Spec, NoTearing

-----------------------------------------------------------------------------
(* Lines are read from their beginning to their end *)

Element == [k : 0..MaxLines, at : 0..N + 1]

(* What the host does is felt by loop() through the next byte only.        *)
NextByte == IF wire = << >> THEN line ELSE Head(wire)

LEMMA InitLoop == Init => LoopInv
<1> SUFFICES ASSUME Init PROVE LoopInv
  OBVIOUS
<1>1. << >> \in Seq(Element) /\ Len(<< >>) = 0
  BY EmptySeq
<1>2. Dark \in Picture /\ [i \in Cell |-> MaxLines] \in Picture
  BY DEF Dark, Picture, Colour
<1>3. TypeOK
  BY <1>1, <1>2 DEF Init, TypeOK, Element
<1>4. WireInv /\ ReadInv /\ Resynchronised
  BY <1>1 DEF Init, WireInv, ReadInv, Resynchronised
<1> QED BY <1>3, <1>4, InitShow DEF LoopInv

(* A line begins when the last one is written; its length is new.          *)
LEMMA HostBeginsLoop ==
  ASSUME LoopInv, HostBegins
  PROVE  TypeOK' /\ WireInv' /\ ReadInv' /\ Resynchronised'
<1>a. /\ line \in [k : 0..MaxLines, at : 0..N + 2]
      /\ lengths \in [0..MaxLines -> 0..N]
      /\ wire \in Seq(Element) /\ current \in 0..MaxLines
  BY DEF LoopInv, TypeOK, Element
<1>b. /\ line.at = lengths[line.k] + 2 /\ line.k \in 0..(MaxLines - 1)
      /\ line' = [k |-> line.k + 1, at |-> 0]
      /\ UNCHANGED <<wire, cpuVars, outVars, history>>
  BY <1>a DEF HostBegins
<1>c. /\ lengths' \in [0..MaxLines -> 0..N]
      /\ \A k \in 0..MaxLines : k # line.k + 1 => lengths'[k] = lengths[k]
  BY <1>a DEF HostBegins
<1>1. TypeOK'
  <2>1. line' \in [k : 0..MaxLines, at : 0..N + 2]
    BY <1>b
  <2> QED BY <1>b, <1>c, <2>1 DEF LoopInv, TypeOK, cpuVars, outVars, history
<1>d. \A i \in 1..Len(wire) :
        /\ wire[i] \in Element /\ wire[i].k <= line.k
        /\ wire[i].at <= lengths[wire[i].k] + 1 /\ lengths'[wire[i].k] = lengths[wire[i].k]
  <2> SUFFICES ASSUME NEW i \in 1..Len(wire)
               PROVE  /\ wire[i] \in Element /\ wire[i].k <= line.k
                      /\ wire[i].at <= lengths[wire[i].k] + 1
                      /\ lengths'[wire[i].k] = lengths[wire[i].k]
    OBVIOUS
  <2>1. wire[i] \in Element
    BY <1>a
  <2>2. wire[i].k <= line.k /\ wire[i].at <= lengths[wire[i].k] + 1
    BY DEF LoopInv, WireInv
  <2>3. wire[i].k \in 0..MaxLines /\ wire[i].k # line.k + 1
    BY <1>b, <2>1, <2>2 DEF Element
  <2> QED BY <1>c, <2>1, <2>2, <2>3
<1>2. WireInv'
  <2>1. line'.at <= lengths'[line'.k] + 2
    BY <1>b, <1>c
  <2>2. current' <= line'.k
    BY <1>a, <1>b DEF LoopInv, WireInv, history
  <2>3. ASSUME NEW i \in 1..Len(wire')
        PROVE  wire'[i].k <= line'.k /\ wire'[i].at <= lengths'[wire'[i].k] + 1
    <3>1. wire' = wire /\ line'.k = line.k + 1 /\ line.k \in Nat
      BY <1>b
    <3>2. /\ wire[i].k \in Int /\ wire[i].k <= line.k
          /\ wire[i].at <= lengths[wire[i].k] + 1 /\ lengths'[wire[i].k] = lengths[wire[i].k]
      BY <1>d, <3>1 DEF Element
    <3> QED BY <3>1, <3>2
  <2>4. ASSUME NEW i \in 1..(Len(wire) - 1)
        PROVE  Follows(wire[i], wire[i + 1])'
    <3>1. Follows(wire[i], wire[i + 1]) /\ i \in 1..Len(wire)
      BY <1>a DEF LoopInv, WireInv
    <3> QED BY <1>b, <1>d, <3>1 DEF Follows
  <2>5. ASSUME wire # << >>
        PROVE  Follows(wire[Len(wire)], line)'
    <3>1. Follows(wire[Len(wire)], line) /\ Len(wire) \in 1..Len(wire)
      BY <1>a, <2>5, EmptySeq DEF LoopInv, WireInv
    <3>2. wire[Len(wire)].at \in Nat /\ lengths[line.k] \in Nat
          /\ lengths'[wire[Len(wire)].k] = lengths[wire[Len(wire)].k]
      BY <1>a, <1>d, <3>1 DEF Element
    <3>3. wire[Len(wire)].k = line.k /\ wire[Len(wire)].at = lengths[line.k] + 1
      <4>1. line.at # 0
        BY <1>b, <3>2
      <4>2. line.k = wire[Len(wire)].k /\ line.at = wire[Len(wire)].at + 1
        BY <3>1, <4>1 DEF Follows
      <4>3. line.at = lengths[line.k] + 2
        BY <1>b
      <4> QED BY <3>2, <4>2, <4>3
    <3>4. wire' = wire /\ line'.k = line.k + 1 /\ line'.at = 0
      BY <1>b
    <3> QED BY <3>2, <3>3, <3>4 DEF Follows
  <2> QED BY <1>b, <2>1, <2>2, <2>3, <2>4, <2>5 DEF WireInv
<1>e. lengths'[current] = lengths[current]
  BY <1>a, <1>b, <1>c DEF LoopInv, WireInv
<1>3. ReadInv'
  <2>1. ASSUME cpu = "read", wire = << >>
        PROVE  FALSE
    <3>1. line = [k |-> current, at |-> count + 1] /\ count <= lengths[current]
      BY <2>1 DEF LoopInv, ReadInv
    <3>2. line.k = current /\ line.at = count + 1 /\ count \in Nat /\ lengths[current] \in Nat
      BY <1>a, <3>1 DEF LoopInv, TypeOK
    <3> QED BY <1>b, <3>1, <3>2
  <2> QED BY <1>b, <1>e, <2>1 DEF LoopInv, ReadInv, cpuVars, history
<1>4. Resynchronised'
  BY <1>b, <1>e DEF LoopInv, Resynchronised, cpuVars, history
<1> QED BY <1>1, <1>2, <1>3, <1>4

(* A byte is appended to those that lead up to it.                         *)
LEMMA HostWritesLoop ==
  ASSUME LoopInv, HostWrites
  PROVE  TypeOK' /\ WireInv' /\ ReadInv' /\ Resynchronised'
<1>a. /\ line \in [k : 0..MaxLines, at : 0..N + 2]
      /\ lengths \in [0..MaxLines -> 0..N]
      /\ wire \in Seq(Element) /\ MaxWire \in Nat
  BY TeensyWallAssumption DEF LoopInv, TypeOK, Element
<1>b. /\ line.at < lengths[line.k] + 2 /\ Len(wire) < MaxWire
      /\ line' = [k |-> line.k, at |-> line.at + 1]
      /\ wire' = Append(wire, line)
      /\ UNCHANGED <<lengths, cpuVars, outVars, history>>
  BY <1>a DEF HostWrites
<1>c. line \in Element
  BY <1>a, <1>b DEF Element
<1>d. /\ wire' \in Seq(Element) /\ wire' # << >>
      /\ Len(wire) \in Nat /\ Len(wire') = Len(wire) + 1
      /\ \A i \in 1..Len(wire) : wire'[i] = wire[i]
      /\ wire'[Len(wire) + 1] = line
  <2>1. wire \in Seq(Element) /\ wire' = Append(wire, line)
    BY <1>a, <1>b
  <2>2. /\ Append(wire, line) \in Seq(Element)
        /\ Len(Append(wire, line)) = Len(wire) + 1
        /\ \A i \in 1..Len(wire) : Append(wire, line)[i] = wire[i]
        /\ Append(wire, line)[Len(wire) + 1] = line
    BY <1>c, <2>1, AppendProperties
  <2>3. Len(wire) \in Nat
    BY <2>1
  <2>4. wire' # << >>
    BY <2>1, <2>2, <2>3, EmptySeq
  <2> QED BY <2>1, <2>2, <2>3, <2>4
<1>1. TypeOK'
  <2>1. line' \in [k : 0..MaxLines, at : 0..N + 2]
    BY <1>a, <1>b
  <2>2. Len(wire') <= MaxWire
    BY <1>a, <1>b, <1>d
  <2>3. wire' \in Seq([k : 0..MaxLines, at : 0..N + 1])
    BY <1>d DEF Element
  <2> QED BY <1>b, <2>1, <2>2, <2>3 DEF LoopInv, TypeOK, cpuVars, outVars, history
<1>2. WireInv'
  <2>1. line'.at <= lengths'[line'.k] + 2
    BY <1>a, <1>b
  <2>2. current' <= line'.k
    BY <1>b DEF LoopInv, WireInv, history
  <2>3. ASSUME NEW i \in 1..Len(wire')
        PROVE  wire'[i].k <= line'.k /\ wire'[i].at <= lengths'[wire'[i].k] + 1
    <3>1. CASE i = Len(wire) + 1
      BY <1>a, <1>b, <1>d, <3>1
    <3>2. CASE i # Len(wire) + 1
      <4>1. i \in 1..Len(wire)
        BY <1>d, <3>2
      <4> QED BY <1>b, <1>d, <4>1 DEF LoopInv, WireInv
    <3> QED BY <3>1, <3>2
  <2>4. ASSUME NEW i \in 1..(Len(wire') - 1)
        PROVE  Follows(wire[i], wire[i + 1])'
    <3>1. CASE i = Len(wire)
      <4>1. wire # << >> /\ wire'[i] = wire[Len(wire)] /\ wire'[i + 1] = line
        BY <1>a, <1>d, <3>1
      <4> QED BY <1>b, <4>1 DEF LoopInv, WireInv, Follows
    <3>2. CASE i # Len(wire)
      <4>1. i \in 1..(Len(wire) - 1) /\ i \in 1..Len(wire) /\ i + 1 \in 1..Len(wire)
        BY <1>d, <3>2
      <4> QED BY <1>b, <1>d, <4>1 DEF LoopInv, WireInv, Follows
    <3> QED BY <3>1, <3>2
  <2>5. Follows(wire[Len(wire)], line)'
    BY <1>a, <1>b, <1>d DEF Follows
  <2> QED BY <2>1, <2>2, <2>3, <2>4, <2>5 DEF WireInv
<1>3. ReadInv'
  <2>1. NextByte' = NextByte
    <3>1. CASE wire = << >>
      BY <1>b, <1>d, <3>1 DEF NextByte
    <3>2. CASE wire # << >>
      <4>1. Head(wire) = wire[1] /\ Head(wire') = wire'[1] /\ 1 \in 1..Len(wire)
        BY <1>a, <1>d, <3>2, EmptySeq
      <4> QED BY <1>d, <3>2, <4>1 DEF NextByte
    <3> QED BY <3>1, <3>2
  <2> QED BY <1>b, <2>1 DEF LoopInv, ReadInv, NextByte, cpuVars, history
<1>4. Resynchronised'
  BY <1>b DEF LoopInv, Resynchronised, cpuVars, history
<1> QED BY <1>1, <1>2, <1>3, <1>4

(* The byte behind the one read is the next.                               *)
LEMMA PopLoop ==
  ASSUME LoopInv, wire # << >>, wire' = Tail(wire), UNCHANGED hostVars,
         current' = current \/ current' = Head(wire).k
  PROVE  /\ Head(wire) \in Element
         /\ Head(wire).at <= lengths[Head(wire).k] + 1
         /\ Follows(Head(wire), NextByte')
         /\ wire' \in Seq([k : 0..MaxLines, at : 0..N + 1]) /\ Len(wire') <= MaxWire
         /\ WireInv'
<1>a. /\ line \in [k : 0..MaxLines, at : 0..N + 2]
      /\ lengths \in [0..MaxLines -> 0..N]
      /\ wire \in Seq(Element) /\ Len(wire) <= MaxWire /\ MaxWire \in Nat
      /\ UNCHANGED <<line, lengths>>
  BY TeensyWallAssumption DEF LoopInv, TypeOK, Element, hostVars
<1>b. /\ Len(wire) \in Nat \ {0} /\ Head(wire) = wire[1] /\ Head(wire) \in Element
      /\ wire' \in Seq(Element) /\ Len(wire') = Len(wire) - 1
      /\ \A i \in 1..Len(wire') : wire'[i] = wire[i + 1]
  <2>1. Len(wire) \in Nat \ {0} /\ Head(wire) = wire[1]
    BY <1>a, EmptySeq
  <2>2. /\ Head(wire) \in Element /\ Tail(wire) \in Seq(Element)
        /\ Len(Tail(wire)) = Len(wire) - 1
        /\ \A i \in 1..Len(Tail(wire)) : Tail(wire)[i] = wire[i + 1]
    BY <1>a, HeadTailProperties
  <2> QED BY <2>1, <2>2
<1>c. /\ line.at <= lengths[line.k] + 2 /\ current <= line.k
      /\ \A i \in 1..Len(wire) : wire[i].k <= line.k /\ wire[i].at <= lengths[wire[i].k] + 1
      /\ \A i \in 1..(Len(wire) - 1) : Follows(wire[i], wire[i + 1])
      /\ Follows(wire[Len(wire)], line)
  BY DEF LoopInv, WireInv
<1>d. 1 \in 1..Len(wire)
  BY <1>b
<1>1. Head(wire).at <= lengths[Head(wire).k] + 1 /\ Head(wire).k <= line.k
  BY <1>b, <1>c, <1>d
<1>2. Follows(Head(wire), NextByte')
  <2>1. CASE wire' = << >>
    <3>1. Len(wire') = 0
      BY <2>1
    <3>2. Len(wire) = 1
      BY <1>b, <3>1
    <3> QED BY <1>a, <1>b, <1>c, <2>1, <3>2 DEF NextByte
  <2>2. CASE wire' # << >>
    <3>1. Head(wire') = wire[2] /\ 1 \in 1..(Len(wire) - 1)
      <4>1. Len(wire') \in Nat \ {0} /\ Head(wire') = wire'[1]
        BY <1>b, <2>2, EmptySeq
      <4> QED BY <1>b, <4>1
    <3> QED BY <1>b, <1>c, <2>2, <3>1 DEF NextByte
  <2> QED BY <2>1, <2>2
<1>3. WireInv'
  <2>1. current' <= line'.k
    BY <1>a, <1>c, <1>1
  <2>2. ASSUME NEW i \in 1..Len(wire')
        PROVE  wire'[i].k <= line'.k /\ wire'[i].at <= lengths'[wire'[i].k] + 1
    <3>1. i + 1 \in 1..Len(wire)
      BY <1>b
    <3> QED BY <1>a, <1>b, <1>c, <3>1
  <2>3. ASSUME NEW i \in 1..(Len(wire') - 1)
        PROVE  Follows(wire[i], wire[i + 1])'
    <3>1. /\ i \in 1..Len(wire') /\ i + 1 \in 1..Len(wire')
          /\ i + 1 \in 1..(Len(wire) - 1)
      BY <1>b
    <3>2. wire'[i] = wire[i + 1] /\ wire'[i + 1] = wire[(i + 1) + 1]
      BY <1>b, <3>1
    <3> QED BY <1>a, <1>c, <3>1, <3>2 DEF Follows
  <2>4. wire' # << >> => Follows(wire[Len(wire)], line)'
    <3> SUFFICES ASSUME wire' # << >> PROVE Follows(wire[Len(wire)], line)'
      OBVIOUS
    <3>1. Len(wire') \in 1..Len(wire')
      BY <1>b, EmptySeq
    <3>2. wire'[Len(wire')] = wire[Len(wire)]
      BY <1>b, <3>1
    <3> QED BY <1>a, <1>c, <3>2 DEF Follows
  <2> QED BY <1>a, <1>c, <2>1, <2>2, <2>3, <2>4 DEF WireInv
<1>4. wire' \in Seq([k : 0..MaxLines, at : 0..N + 1]) /\ Len(wire') <= MaxWire
  BY <1>a, <1>b DEF Element
<1> QED BY <1>b, <1>1, <1>2, <1>3, <1>4

(* A line is begun at its `*': its first cell is the next byte.            *)
LEMMA ReadCommandLoop ==
  ASSUME LoopInv, ReadCommand
  PROVE  TypeOK' /\ WireInv' /\ ReadInv' /\ Resynchronised'
<1>a. /\ cpu = "command" /\ wire # << >> /\ wire' = Tail(wire)
      /\ UNCHANGED <<hostVars, drawing, frame, inProgress, outVars, begun, wallOf>>
  BY DEF ReadCommand
<1>b. \/ /\ Byte(Head(wire)) = "*"
         /\ cpu' = "read" /\ count' = 0 /\ current' = Head(wire).k /\ delayed' = FALSE
      \/ UNCHANGED <<cpu, count, current, delayed>>
  BY Zenon DEF ReadCommand, Begins
<1>c. /\ Head(wire) \in Element /\ Head(wire).at <= lengths[Head(wire).k] + 1
      /\ Follows(Head(wire), NextByte')
      /\ wire' \in Seq([k : 0..MaxLines, at : 0..N + 1]) /\ Len(wire') <= MaxWire
      /\ WireInv'
  BY <1>a, <1>b, PopLoop
<1>d. /\ cpu' \in {"command", "read"} /\ count' \in 0..N /\ current' \in 0..MaxLines
  <2>1. count \in 0..N /\ current \in 0..MaxLines /\ 0 \in 0..N
    BY TeensyWallAssumption DEF LoopInv, TypeOK
  <2>2. Head(wire).k \in 0..MaxLines
    BY <1>c DEF Element
  <2>3. CASE cpu' = "read" /\ count' = 0 /\ current' = Head(wire).k /\ delayed' = FALSE
    BY <2>1, <2>2, <2>3
  <2>4. CASE UNCHANGED <<cpu, count, current, delayed>>
    BY <1>a, <2>1, <2>4
  <2> QED BY <1>b, <2>3, <2>4
<1>1. TypeOK'
  BY <1>a, <1>c, <1>d DEF LoopInv, TypeOK, hostVars, outVars
<1>2. ReadInv'
  <2> SUFFICES ASSUME cpu' = "read" PROVE ReadInv'
    BY DEF ReadInv
  <2>1. Byte(Head(wire)) = "*" /\ count' = 0 /\ current' = Head(wire).k
    BY <1>a, <1>b
  <2>2. Head(wire).at = 0
    BY <2>1 DEF Byte
  <2>3. lengths[Head(wire).k] \in 0..N /\ lengths' = lengths
    BY <1>a, <1>c DEF LoopInv, TypeOK, Element, hostVars
  <2>4. NextByte'.k = Head(wire).k /\ NextByte'.at = 1
    BY <1>c, <2>2, <2>3 DEF Follows
  <2>5. NextByte' \in [k : 0..MaxLines, at : Nat]
    <3>1. wire' # << >> => Head(wire') \in Element
      BY <1>c, HeadTailProperties DEF Element
    <3>2. line' \in [k : 0..MaxLines, at : 0..N + 2]
      BY <1>1 DEF TypeOK
    <3> QED BY <3>1, <3>2, TeensyWallAssumption DEF NextByte, Element
  <2>6. NextByte' = [k |-> current', at |-> count' + 1]
    BY <2>1, <2>4, <2>5
  <2> QED BY <2>1, <2>3, <2>6 DEF ReadInv, NextByte
<1>3. Resynchronised'
  BY <1>a, <1>d DEF Resynchronised
<1> QED BY <1>1, <1>2, <1>3, <1>c

(* A cell of the line begun goes to its place; its `#' comes when all have *)
(* been read.                                                              *)
LEMMA ReadByteLoop ==
  ASSUME LoopInv, ReadByte
  PROVE  TypeOK' /\ WireInv' /\ ReadInv' /\ Resynchronised'
<1>a. /\ cpu = "read" /\ wire # << >> /\ wire' = Tail(wire)
      /\ UNCHANGED <<hostVars, frame, inProgress, outVars, history>>
  BY DEF ReadByte
<1>b. /\ Head(wire) \in Element /\ Head(wire).at <= lengths[Head(wire).k] + 1
      /\ Follows(Head(wire), NextByte')
      /\ wire' \in Seq([k : 0..MaxLines, at : 0..N + 1]) /\ Len(wire') <= MaxWire
      /\ WireInv'
  BY <1>a, PopLoop DEF history
<1>c. /\ Head(wire) = [k |-> current, at |-> count + 1]
      /\ count <= lengths[current]
      /\ \A i \in 1..count : drawing[i] = current
  BY <1>a DEF LoopInv, ReadInv
<1>d. /\ count \in 0..N /\ current \in 0..MaxLines /\ lengths[current] \in 0..N
      /\ N \in Nat \ {0} /\ drawing \in Picture
  BY TeensyWallAssumption DEF LoopInv, TypeOK
<1>e. Head(wire).k = current /\ Head(wire).at = count + 1
  BY <1>c
<1>1. CASE Byte(Head(wire)) = "#"
  <2>1. cpu' = "busy" /\ UNCHANGED <<count, drawing>>
    BY <1>1, Zenon DEF ReadByte
  <2>2. count = lengths[current]
    <3>1. ~(count + 1 <= lengths[current])
      BY <1>1, <1>e DEF Byte
    <3> QED BY <1>c, <1>d, <3>1
  <2>3. TypeOK'
    BY <1>a, <1>b, <2>1 DEF LoopInv, TypeOK, hostVars, outVars, history
  <2>4. ReadInv'
    BY <2>1 DEF ReadInv
  <2>5. Resynchronised'
    BY <1>a, <1>c, <2>1, <2>2 DEF Resynchronised, hostVars, history
  <2> QED BY <1>b, <2>3, <2>4, <2>5
<1>2. CASE Byte(Head(wire)) # "#"
  <2>1. /\ cpu' = "read" /\ count' = count + 1
        /\ drawing' = [drawing EXCEPT ![count + 1] = current]
    BY <1>2, <1>a, <1>e, Zenon DEF ReadByte
  <2>2. count + 1 <= lengths[current]
    BY <1>2, <1>d, <1>e DEF Byte
  <2>3. count + 1 \in Cell /\ count' \in 0..N
    BY <1>d, <2>1, <2>2 DEF Cell
  <2>4. /\ drawing' \in Picture
        /\ \A i \in Cell : drawing'[i] = IF i = count + 1 THEN current ELSE drawing[i]
    BY <1>d, <2>1, <2>3 DEF Picture, Colour
  <2>5. TypeOK'
    BY <1>a, <1>b, <2>1, <2>3, <2>4 DEF LoopInv, TypeOK, hostVars, outVars, history
  <2>6. NextByte' = [k |-> current', at |-> count' + 1]
    <3>1. NextByte'.k = current /\ NextByte'.at = count + 2
      BY <1>b, <1>d, <1>e, <2>2 DEF Follows
    <3>2. NextByte' \in [k : 0..MaxLines, at : Nat]
      <4>1. wire' # << >> => Head(wire') \in Element
        BY <1>b, HeadTailProperties DEF Element
      <4>2. line' \in [k : 0..MaxLines, at : 0..N + 2]
        BY <2>5 DEF TypeOK
      <4> QED BY <4>1, <4>2, <1>d DEF NextByte, Element
    <3>3. current' = current /\ count' + 1 = count + 2
      BY <1>a, <1>d, <2>1 DEF history
    <3> QED BY <3>1, <3>2, <3>3
  <2>7. \A i \in 1..(count + 1) : drawing'[i] = current
    BY <1>c, <1>d, <2>2, <2>4 DEF Cell
  <2>8. ReadInv'
    BY <1>a, <2>1, <2>2, <2>6, <2>7 DEF ReadInv, NextByte, hostVars, history
  <2>9. Resynchronised'
    BY <2>1 DEF Resynchronised
  <2> QED BY <1>b, <2>5, <2>8, <2>9
<1> QED BY <1>1, <1>2

(* The wire is as it was: what loop() does with the line is its own affair. *)
LEMMA WireStays ==
  ASSUME LoopInv, UNCHANGED <<hostVars, wire, current>>
  PROVE  WireInv'
BY DEF LoopInv, WireInv, Follows, hostVars

(* Half a line may be drawn now, and delayed says so.                      *)
LEMMA ReadTimeoutLoop ==
  ASSUME LoopInv, ReadTimeout
  PROVE  TypeOK' /\ WireInv' /\ ReadInv' /\ Resynchronised'
<1>1. /\ cpu' = "busy" /\ delayed' = TRUE
      /\ UNCHANGED <<hostVars, wire, count, drawing, frame, inProgress, outVars, current,
                     begun, wallOf>>
  BY DEF ReadTimeout, Goto
<1>2. TypeOK'
  BY <1>1 DEF LoopInv, TypeOK, hostVars, outVars
<1>3. ReadInv' /\ Resynchronised'
  BY <1>1 DEF ReadInv, Resynchronised
<1> QED BY <1>1, <1>2, <1>3, WireStays

(* show(), the DMA and the strip leave the drawing alone.                  *)
LEMMA ShowLoop ==
  ASSUME LoopInv, AwaitUpdate \/ Copy \/ StartDma \/ DmaCell \/ Isr \/ Latch
  PROVE  TypeOK' /\ WireInv' /\ ReadInv' /\ Resynchronised'
<1>a. LoopInv => TypeOK /\ ShowInv
  BY DEF LoopInv
<1>1. UNCHANGED <<hostVars, wire, drawing, current>>
  BY DEF AwaitUpdate, Copy, StartDma, DmaCell, Isr, Latch, cpuVars, history
<1>2. \/ cpu' # "read" /\ cpu' # "busy"
      \/ cpu' = cpu /\ count' = count /\ UNCHANGED delayed
  BY DEF AwaitUpdate, Copy, StartDma, DmaCell, Isr, Latch, cpuVars, history, Goto
<1>3. ReadInv' /\ Resynchronised'
  <2>1. CASE cpu' # "read" /\ cpu' # "busy"
    BY <2>1 DEF ReadInv, Resynchronised
  <2>2. CASE cpu' = cpu /\ count' = count /\ UNCHANGED delayed
    <3>1. ReadInv'
      BY <1>1, <2>2 DEF LoopInv, ReadInv, hostVars
    <3>2. Resynchronised'
      BY <1>1, <2>2 DEF LoopInv, Resynchronised, hostVars
    <3> QED BY <3>1, <3>2
  <2> QED BY <1>2, <2>1, <2>2
<1>4. TypeOK'
  <2>1. CASE AwaitUpdate
    <3>1. /\ cpu' = "copy" /\ count' = 0
          /\ UNCHANGED <<hostVars, wire, drawing, frame, inProgress, outVars, history>>
      BY <2>1 DEF AwaitUpdate, Goto
    <3>2. 0 \in 0..N
      BY TeensyWallAssumption
    <3> QED BY <1>a, <3>1, <3>2 DEF TypeOK, hostVars, outVars, history
  <2>2. CASE Copy
    <3>1. count \in 0..(N - 1)
      BY <1>a, <2>2 DEF ShowInv, CopyInv, TypeOK, Copy
    <3>2. frame \in Picture /\ drawing \in Picture /\ count + 1 \in Cell
      BY <1>a, <3>1 DEF TypeOK, Cell
    <3>3. frame' \in Picture
      BY <2>2, <3>2 DEF Copy, Picture
    <3>4. count' \in 0..N /\ cpu' \in {"copy", "reset"}
      BY <2>2, <3>1 DEF Copy
    <3>5. UNCHANGED <<hostVars, wire, drawing, inProgress, outVars, history>>
      BY <2>2 DEF Copy
    <3> QED BY <1>a, <3>3, <3>4, <3>5 DEF TypeOK, hostVars, outVars, history
  <2>3. CASE StartDma
    <3>1. /\ cpu' = "command" /\ inProgress' = TRUE /\ dma' = 1
          /\ UNCHANGED <<hostVars, wire, count, drawing, frame, irq, strip, wall,
                         current, delayed, wallOf>>
      BY <2>3 DEF StartDma, Goto
    <3>2. begun'.picture = drawing /\ begun'.k = current
      BY <2>3 DEF StartDma
    <3>3. 1 \in 0..N
      BY TeensyWallAssumption
    <3> QED BY <1>a, <3>1, <3>2, <3>3 DEF TypeOK, hostVars
  <2>4. CASE DmaCell
    <3>0. ShowInv /\ TypeOK /\ dma # 0
      BY <1>a, <2>4 DEF DmaCell
    <3>a. dma \in 1..N /\ N \in Nat \ {0} /\ Len(strip) = dma - 1 /\ strip \in Seq(Colour)
      BY <3>0, TeensyWallAssumption DEF ShowInv, MemoryInv, SendInv
    <3>b. frame \in Picture
      BY <3>0 DEF TypeOK
    <3>1. /\ dma \in 1..N /\ N \in Nat \ {0} /\ Len(strip) = dma - 1 /\ strip \in Seq(Colour)
          /\ frame[dma] \in Colour
      BY <3>a, <3>b DEF Picture, Cell
    <3>2. Len(strip') = dma
      BY <2>4, <3>1, AppendProperties DEF DmaCell
    <3>3. dma' \in 0..N /\ Len(strip') <= N
      BY <2>4, <3>1, <3>2 DEF DmaCell
    <3>4. irq' \in BOOLEAN
      BY <2>4, Zenon DEF DmaCell
    <3>5. UNCHANGED <<hostVars, wire, cpuVars, wall, history>>
      BY <2>4 DEF DmaCell
    <3> QED BY <1>a, <3>3, <3>4, <3>5 DEF TypeOK, hostVars, cpuVars, history
  <2>5. CASE Isr
    BY <1>a, <2>5 DEF Isr, TypeOK, hostVars, history
  <2>6. CASE Latch
    <3>1. wall' \in Picture
      BY <1>a, <2>6, LatchShowsPicture DEF TypeOK
    <3>2. /\ strip' = << >> /\ Len(strip') = 0 /\ wallOf' = begun.k
          /\ UNCHANGED <<hostVars, wire, cpuVars, dma, irq, current, delayed, begun>>
      BY <2>6 DEF Latch
    <3> QED BY <1>a, <3>1, <3>2, TeensyWallAssumption DEF TypeOK, hostVars, cpuVars
  <2> QED BY <2>1, <2>2, <2>3, <2>4, <2>5, <2>6
<1> QED BY <1>1, <1>3, <1>4, WireStays

LEMMA NextLoop == LoopInv /\ [Next]_vars => LoopInv'
<1> SUFFICES ASSUME LoopInv, [Next]_vars PROVE LoopInv'
  OBVIOUS
<1>1. ShowInv'
  BY NextShow DEF LoopInv
<1>2. CASE Next
  BY <1>1, <1>2, HostBeginsLoop, HostWritesLoop, ReadCommandLoop, ReadByteLoop,
     ReadTimeoutLoop, ShowLoop DEF Next, Host, Loop, LoopInv
<1>3. CASE UNCHANGED vars
  <2>1. TypeOK'
    BY <1>3 DEF LoopInv, TypeOK, vars, hostVars, cpuVars, outVars, history
  <2>2. ReadInv' /\ Resynchronised'
    BY <1>3 DEF LoopInv, ReadInv, Resynchronised, vars, hostVars, cpuVars, history
  <2>3. WireInv'
    BY <1>3, WireStays DEF vars, history
  <2> QED BY <1>1, <2>1, <2>2, <2>3 DEF LoopInv
<1> QED BY <1>2, <1>3

(***************************************************************************)
(* loop() reads each line from its first byte on, and the memories keep    *)
(* their size: nothing is ever written behind the last LED, for every      *)
(* length of strip, any lines that fit it and any pauses between bytes.    *)
(***************************************************************************)
THEOREM LoopInvariant == Spec => []LoopInv
BY InitLoop, NextLoop, PTL DEF Spec

(***************************************************************************)
(* Every variable keeps its type; count, the place drawingMemory is        *)
(* written at, stays within the strip (ino:97).                            *)
(***************************************************************************)
THEOREM TypeCorrect == Spec => []TypeOK
<1>1. LoopInv => TypeOK
  BY DEF LoopInv
<1> QED BY <1>1, LoopInvariant, PTL

(***************************************************************************)
(* A line read without a pause is drawn as it was sent, whatever was cut   *)
(* off or discarded before (ino:95-110).                                   *)
(***************************************************************************)
THEOREM FindsTheNextLine == Spec => []Resynchronised
<1>1. LoopInv => Resynchronised
  BY DEF LoopInv
<1> QED BY <1>1, LoopInvariant, PTL
=============================================================================
