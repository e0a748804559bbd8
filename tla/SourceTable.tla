----------------------------- MODULE SourceTable -----------------------------
(***************************************************************************)
(* What the frame server promises to its clients and to the display, with  *)
(* its threads and its lock abstracted away.                               *)
(*                                                                         *)
(* The server keeps a table of at most NUMBUFS sources in the order they   *)
(* were first heard.  Each holds the newest frame of its sender and the    *)
(* second it was heard.  Mixing paints all of them, in table order, into   *)
(* one picture; sending hands the last complete picture to the display.    *)
(* A source is forgotten only after more than BUFTIMEOUT silent seconds.   *)
(*                                                                         *)
(* FrameServer is shown to implement this module.                          *)
(***************************************************************************)
EXTENDS Integers, Sequences, SequencesExt

CONSTANTS
  Sender,      \* the addresses a datagram can come from
  Frame,       \* the frames a datagram can carry
  Blank,       \* the content of the frame memory before the first mix
  NUMBUFS,     \* the largest number of sources
  BUFTIMEOUT   \* the number of seconds a source may stay silent

VARIABLES
  sources,     \* sequence of [ep, frame, heard]
  picture,     \* the last complete mix
  outgoing,    \* the picture being handed to the display
  now          \* the time in whole seconds

vars == <<sources, picture, outgoing, now>>

Source == [ep : Sender, frame : Frame, heard : Nat]

Painted == [k \in 1..Len(sources) |-> sources[k].frame]

Init ==
  /\ sources = << >>
  /\ picture = <<Blank>>
  /\ outgoing = << >>
  /\ now = 0

(***************************************************************************)
(* A frame f arrives from e: its place in the table is kept if it has one, *)
(* otherwise it is stacked on top if there is room.                        *)
(***************************************************************************)
Refresh(e, f) ==
  /\ \E k \in 1..Len(sources) :
       /\ sources[k].ep = e
       /\ sources' = [sources EXCEPT ![k] = [ep |-> e, frame |-> f, heard |-> now]]
  /\ UNCHANGED <<picture, outgoing, now>>

Join(e, f) ==
  /\ \A k \in 1..Len(sources) : sources[k].ep # e
  /\ Len(sources) < NUMBUFS
  /\ sources' = Append(sources, [ep |-> e, frame |-> f, heard |-> now])
  /\ UNCHANGED <<picture, outgoing, now>>

Forget(k) ==
  /\ now - sources[k].heard > BUFTIMEOUT
  /\ sources' = RemoveAt(sources, k)
  /\ UNCHANGED <<picture, outgoing, now>>

Mix ==
  /\ picture' = Painted
  /\ UNCHANGED <<sources, outgoing, now>>

Send ==
  /\ outgoing' = picture
  /\ UNCHANGED <<sources, picture, now>>

TimePasses ==
  /\ now' = now + 1
  /\ UNCHANGED <<sources, picture, outgoing>>

Next ==
  \/ \E e \in Sender, f \in Frame : Refresh(e, f) \/ Join(e, f)
  \/ \E k \in 1..Len(sources) : Forget(k)
  \/ Mix
  \/ Send
  \/ TimePasses

Spec == Init /\ [][Next]_vars
=============================================================================
