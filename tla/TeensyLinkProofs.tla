-------------------------- MODULE TeensyLinkProofs --------------------------
(***************************************************************************)
(* The configuration of the Teensy works for all times for which the       *)
(* forwarder sleeps less than setup() waits.                               *)
(***************************************************************************)
EXTENDS TeensyLink, SequenceTheorems, TLAPS

USE TeensyLinkAssumption DEF TeensyLinkAssumption

LEMMA InitIInv == Init => IInv
<1> SUFFICES ASSUME Init PROVE IInv
  OBVIOUS
<1>1. 0 \in 0..Boot /\ << >> \in Seq({"reboot", "number", "line"})
  BY EmptySeq
<1>2. TypeOK
  BY <1>1 DEF Init, TypeOK
<1>3. NumberInLoop /\ Sleeping /\ Awaiting /\ StreamsConfigured
  BY DEF Init, NumberInLoop, Sleeping, Awaiting, StreamsConfigured
<1>4. Quiet /\ NumberFirst /\ LinesReachLoop
  BY DEF Init, Quiet, NumberFirst, LinesReachLoop
<1> QED BY <1>2, <1>3, <1>4 DEF IInv

(* Only a line is a line: what else is written keeps the lines where they are. *)
LEMMA WriteKeepsLines ==
  ASSUME TypeOK, LinesReachLoop, NEW t \in {"reboot", "number"},
         wire' = Append(wire, t), teensy' = teensy
  PROVE  /\ wire' \in Seq({"reboot", "number", "line"})
         /\ LinesReachLoop'
<1>1. /\ wire' \in Seq({"reboot", "number", "line"})
      /\ Len(wire') = Len(wire) + 1 /\ Len(wire) \in Nat
      /\ \A k \in 1..Len(wire) : wire'[k] = wire[k]
      /\ wire'[Len(wire) + 1] = t
  BY AppendProperties DEF TypeOK
<1>2. ASSUME NEW k \in 1..Len(wire'), wire'[k] = "line"
      PROVE  teensy = "loop"
  <2>1. k \in 1..Len(wire)
    BY <1>1, <1>2
  <2> QED BY <1>1, <1>2, <2>1 DEF LinesReachLoop
<1> QED BY <1>1, <1>2 DEF LinesReachLoop

(* find_serial and reboot: a Teensy found in loop() has the command before it. *)
LEMMA RebootIInv == IInv /\ Reboot => IInv'
<1> SUFFICES ASSUME IInv, Reboot PROVE IInv'
  OBVIOUS
<1> USE DEF IInv, Reboot, teensyVars
<1>1. wire' \in Seq({"reboot", "number", "line"}) /\ LinesReachLoop'
  BY WriteKeepsLines
<1>2. TypeOK'
  BY <1>1 DEF TypeOK
<1>3. NumberInLoop'
  BY DEF NumberInLoop
<1>4. Append(<< >>, "reboot") = <<"reboot">>
  OBVIOUS
<1>5. Sleeping'
  BY <1>4 DEF Sleeping, TypeOK
<1>6. Awaiting' /\ StreamsConfigured'
  BY DEF Awaiting, StreamsConfigured
<1>7. Quiet' /\ NumberFirst'
  BY DEF Quiet, NumberFirst
<1> QED BY <1>1, <1>2, <1>3, <1>5, <1>6, <1>7

(* The forwarder wakes up: setup() is still waiting, so it gets the number. *)
LEMMA ConfigureIInv == IInv /\ Configure => IInv'
<1> SUFFICES ASSUME IInv, Configure PROVE IInv'
  OBVIOUS
<1> USE DEF IInv, Configure, teensyVars, Nap
<1>a. fpc = "sleep" /\ ftime > 0 /\ wire = << >> /\ fpc' # "stream"
  BY DEF Quiet, TypeOK
<1>b. Append(<< >>, "number") = <<"number">>
  OBVIOUS
<1>1. wire' \in Seq({"reboot", "number", "line"}) /\ LinesReachLoop'
  <2>1. CASE teensy = "boot"
    BY <2>1 DEF TypeOK, LinesReachLoop
  <2>2. CASE teensy # "boot"
    BY <2>2, WriteKeepsLines
  <2> QED BY <2>1, <2>2
<1>2. TypeOK'
  <2>1. stale' \in BOOLEAN
    BY Zenon DEF TypeOK
  <2>2. fpc' \in {"off", "echo"} /\ ftime' = 0 /\ 0 <= ReadTimeout
    OBVIOUS
  <2> QED BY <1>1, <2>1, <2>2 DEF TypeOK
<1>3. NumberInLoop'
  BY DEF NumberInLoop
<1>4. Sleeping' /\ StreamsConfigured'
  BY <1>a DEF Sleeping, StreamsConfigured
<1>5. Awaiting'
  BY <1>a, <1>b DEF Awaiting, Sleeping, TypeOK
<1>6. Quiet'
  BY <1>a DEF Quiet
<1>7. NumberFirst'
  BY <1>a, <1>b DEF NumberFirst, TypeOK
<1> QED BY <1>1, <1>2, <1>3, <1>4, <1>5, <1>6, <1>7

(* The echo is not looked at, but by then the number is known. *)
LEMMA ReadEchoIInv == IInv /\ ReadEcho => IInv'
<1> SUFFICES ASSUME IInv, ReadEcho PROVE IInv'
  OBVIOUS
<1> USE DEF IInv, ReadEcho, teensyVars
<1>1. ~stale => teensy = "loop"
  BY DEF Answered, NumberFirst, Quiet
<1>2. TypeOK'
  BY DEF TypeOK
<1>3. NumberInLoop' /\ Quiet' /\ LinesReachLoop'
  BY DEF NumberInLoop, Quiet, LinesReachLoop
<1>4. Sleeping' /\ Awaiting'
  BY DEF Sleeping, Awaiting
<1>5. StreamsConfigured'
  BY <1>1 DEF Awaiting, StreamsConfigured
<1>6. NumberFirst'
  BY <1>1 DEF NumberFirst
<1> QED BY <1>2, <1>3, <1>4, <1>5, <1>6

(* A line is only written to a Teensy that has its number. *)
LEMMA WriteLineIInv == IInv /\ WriteLine => IInv'
<1> SUFFICES ASSUME IInv, WriteLine PROVE IInv'
  OBVIOUS
<1> USE DEF IInv, WriteLine, forwarderVars, teensyVars
<1>1. teensy' = "loop"
  BY DEF NumberFirst
<1>2. wire' \in Seq({"reboot", "number", "line"})
  BY AppendProperties DEF TypeOK
<1>3. TypeOK'
  BY <1>2 DEF TypeOK
<1>4. NumberInLoop' /\ Quiet' /\ LinesReachLoop'
  BY <1>1 DEF NumberInLoop, Quiet, LinesReachLoop
<1>5. Sleeping' /\ Awaiting'
  BY DEF Sleeping, Awaiting
<1>6. StreamsConfigured' /\ NumberFirst'
  BY <1>1 DEF StreamsConfigured, NumberFirst
<1> QED BY <1>3, <1>4, <1>5, <1>6

LEMMA DieIInv == IInv /\ Die => IInv'
<1> SUFFICES ASSUME IInv, Die PROVE IInv'
  OBVIOUS
<1> USE DEF IInv, Die, teensyVars
<1>1. TypeOK'
  BY DEF TypeOK
<1>2. NumberInLoop' /\ Quiet' /\ LinesReachLoop'
  BY DEF NumberInLoop, Quiet, LinesReachLoop
<1>3. Sleeping' /\ Awaiting' /\ StreamsConfigured' /\ NumberFirst'
  BY DEF Sleeping, Awaiting, StreamsConfigured, NumberFirst
<1> QED BY <1>1, <1>2, <1>3

(* A restart, by command or by power, makes an open port stale. *)
LEMMA RestartsIInv == IInv /\ Restarts => IInv'
<1> SUFFICES ASSUME IInv, Restarts PROVE IInv'
  OBVIOUS
<1> USE DEF IInv, Restarts, Open
<1>1. wire' \in Seq({"reboot", "number", "line"}) /\ Len(wire') = 0
  BY EmptySeq
<1>2. TypeOK'
  BY <1>1 DEF TypeOK
<1>3. NumberInLoop' /\ Sleeping'
  BY DEF NumberInLoop, Sleeping
<1>4. Awaiting' /\ StreamsConfigured' /\ NumberFirst'
  BY DEF Awaiting, StreamsConfigured, NumberFirst
<1>5. Quiet' /\ LinesReachLoop'
  BY <1>1 DEF Quiet, LinesReachLoop
<1> QED BY <1>2, <1>3, <1>4, <1>5

(* No byte reaches a Teensy that boots. *)
LEMMA EnterSetupIInv == IInv /\ EnterSetup => IInv'
<1> SUFFICES ASSUME IInv, EnterSetup PROVE IInv'
  OBVIOUS
<1> USE DEF IInv, EnterSetup, forwarderVars
<1>1. wire = << >> /\ Len(wire') = 0
  BY DEF Quiet
<1>2. TypeOK'
  BY DEF TypeOK
<1>3. NumberInLoop' /\ Sleeping'
  BY DEF NumberInLoop, Sleeping, TypeOK
<1>4. Awaiting' /\ StreamsConfigured' /\ NumberFirst'
  BY DEF Awaiting, StreamsConfigured, NumberFirst
<1>5. Quiet' /\ LinesReachLoop'
  BY <1>1 DEF Quiet, LinesReachLoop
<1> QED BY <1>2, <1>3, <1>4, <1>5

(* setup() gets four bytes: if the forwarder found the Teensy in loop(),   *)
(* they can only be the number.                                            *)
LEMMA ReadNumberIInv == IInv /\ ReadNumber => IInv'
<1> SUFFICES ASSUME IInv, ReadNumber PROVE IInv'
  OBVIOUS
<1> USE DEF IInv, ReadNumber, FinishSetup, forwarderVars
<1>1. /\ Head(wire) \in {"reboot", "number", "line"}
      /\ Tail(wire) \in Seq({"reboot", "number", "line"})
  BY HeadTailProperties DEF TypeOK
<1>2. TypeOK'
  BY <1>1 DEF TypeOK
<1>3. NumberInLoop' /\ Sleeping'
  BY DEF NumberInLoop, Sleeping
<1>4. Awaiting'
  BY DEF Awaiting, NumberInLoop
<1>5. StreamsConfigured' /\ NumberFirst'
  BY DEF StreamsConfigured, NumberInLoop, NumberFirst
<1>6. Tail(<<"number">>) = << >> /\ (wire = << >> => wire' = << >>)
  OBVIOUS
<1>7. Quiet' /\ LinesReachLoop'
  BY <1>6 DEF Quiet, LinesReachLoop
<1> QED BY <1>2, <1>3, <1>4, <1>5, <1>7

(* setup() gives up: not while the forwarder that restarted it sleeps.     *)
LEMMA SetupTimesOutIInv == IInv /\ SetupTimesOut => IInv'
<1> SUFFICES ASSUME IInv, SetupTimesOut PROVE IInv'
  OBVIOUS
<1> USE DEF IInv, SetupTimesOut, FinishSetup, forwarderVars
<1>1. TypeOK'
  BY DEF TypeOK
<1>2. NumberInLoop'
  BY DEF NumberInLoop
<1>3. Sleeping'
  BY DEF Sleeping, TypeOK
<1>4. Awaiting' /\ StreamsConfigured' /\ NumberFirst'
  BY DEF Awaiting, StreamsConfigured, NumberInLoop, NumberFirst
<1>5. Quiet' /\ LinesReachLoop'
  BY DEF Quiet, LinesReachLoop
<1> QED BY <1>1, <1>2, <1>3, <1>4, <1>5

LEMMA LoopReadsIInv == IInv /\ LoopReads => IInv'
<1> SUFFICES ASSUME IInv, LoopReads PROVE IInv'
  OBVIOUS
<1>1. CASE Restarts
  BY <1>1, RestartsIInv
<1>2. CASE Head(wire) # "reboot" /\ wire' = Tail(wire)
           /\ UNCHANGED <<forwarderVars, teensyVars, echo>>
  <2> USE <1>2 DEF IInv, LoopReads, forwarderVars, teensyVars
  <2>1. Tail(wire) \in Seq({"reboot", "number", "line"})
    BY HeadTailProperties DEF TypeOK
  <2>2. TypeOK'
    BY <2>1 DEF TypeOK
  <2>3. NumberInLoop' /\ Sleeping'
    BY DEF NumberInLoop, Sleeping
  <2>4. Awaiting' /\ StreamsConfigured' /\ NumberFirst'
    BY DEF Awaiting, StreamsConfigured, NumberFirst
  <2>5. Quiet' /\ LinesReachLoop'
    BY DEF Quiet, LinesReachLoop
  <2> QED BY <2>2, <2>3, <2>4, <2>5
<1> QED BY <1>1, <1>2 DEF LoopReads

(* Both clocks advance together; neither passes its limit.                 *)
LEMMA TickIInv == IInv /\ Tick => IInv'
<1> SUFFICES ASSUME IInv, Tick PROVE IInv'
  OBVIOUS
<1> USE DEF IInv, Tick
<1>1. TypeOK'
  BY DEF TypeOK, Nap, Answered, MaxClock
<1>2. NumberInLoop' /\ StreamsConfigured' /\ LinesReachLoop'
  BY DEF NumberInLoop, StreamsConfigured, LinesReachLoop
<1>3. <<"reboot">> # << >> /\ <<"number">> # << >>
  OBVIOUS
<1>4. Sleeping'
  <2> SUFFICES ASSUME fpc = "sleep", found = "loop" PROVE Sleeping'
    BY DEF Sleeping
  <2>1. ftime' = ftime + 1 /\ ftime \in Nat
    BY DEF TypeOK, MaxClock
  <2>2. teensy # "loop"
    BY <1>3 DEF Sleeping
  <2> QED BY <2>1, <2>2 DEF Sleeping, TypeOK
<1>5. Awaiting' /\ NumberFirst'
  BY <1>3 DEF Awaiting, NumberFirst
<1>6. Quiet'
  BY DEF Quiet
<1> QED BY <1>1, <1>2, <1>4, <1>5, <1>6

LEMMA NextIInv == IInv /\ [Next]_vars => IInv'
<1> SUFFICES ASSUME IInv, [Next]_vars PROVE IInv'
  OBVIOUS
<1>1. CASE Forwarder
  BY <1>1, RebootIInv, ConfigureIInv, ReadEchoIInv, WriteLineIInv, DieIInv DEF Forwarder
<1>2. CASE Teensy
  BY <1>2, RestartsIInv, EnterSetupIInv, ReadNumberIInv, SetupTimesOutIInv,
     LoopReadsIInv DEF Teensy, PowerCycle
<1>3. CASE Tick
  BY <1>3, TickIInv
<1>4. CASE UNCHANGED vars
  <2> USE <1>4 DEF IInv, vars, forwarderVars, teensyVars
  <2>1. TypeOK'
    BY DEF TypeOK
  <2>2. NumberInLoop' /\ Quiet' /\ LinesReachLoop'
    BY DEF NumberInLoop, Quiet, LinesReachLoop
  <2>3. Sleeping' /\ Awaiting' /\ StreamsConfigured' /\ NumberFirst'
    BY DEF Sleeping, Awaiting, StreamsConfigured, NumberFirst
  <2> QED BY <2>1, <2>2, <2>3
<1> QED BY <1>1, <1>2, <1>3, <1>4 DEF Next

(***************************************************************************)
(* At every point of the handshake the rest of it leads to a configured    *)
(* Teensy, for all waiting times of forward.py and setup() that satisfy    *)
(* the assumption.                                                         *)
(***************************************************************************)
THEOREM InductiveInvariant == Spec => []IInv
BY InitIInv, NextIInv, PTL DEF Spec

(***************************************************************************)
(* A forwarder that found the Teensy in loop() streams to one that knows   *)
(* its number of LEDs, as long as the port it opened is not stale.         *)
(***************************************************************************)
THEOREM Configured == Spec => []StreamsConfigured
<1>1. IInv => StreamsConfigured
  BY DEF IInv
<1> QED BY <1>1, InductiveInvariant, PTL

(***************************************************************************)
(* No pixel of an image is ever taken for the number of LEDs: lines travel *)
(* to loop() only, wherever the forwarder found the Teensy.                *)
(***************************************************************************)
THEOREM LinesFindTheLoop == Spec => []LinesReachLoop
<1>1. IInv => LinesReachLoop
  BY DEF IInv
<1> QED BY <1>1, InductiveInvariant, PTL
=============================================================================
