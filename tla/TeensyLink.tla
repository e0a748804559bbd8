------------------------------ MODULE TeensyLink ------------------------------
(***************************************************************************)
(* How the forwarder configures the Teensy and streams to it:              *)
(* serialConfigure and send of forward.py against setup() and loop() of    *)
(* VideoDisplayTeensy31.ino.                                               *)
(*                                                                         *)
(* The forwarder finds the port, writes the reboot command, sleeps, finds  *)
(* the port again, writes the number of LEDs and reads it back.  setup()   *)
(* takes the first four bytes it gets for that number, or gives up after a *)
(* while and leaves it at 0; loop() restarts on a reboot command and       *)
(* discards a number.  Command and number are four bytes each, so one      *)
(* token each, and so is the line of an image (TeensyWall reads lines byte *)
(* by byte).  Time is counted in seconds, and nobody who can act lets time *)
(* pass.  The forwarder may die, and the Teensy be power-cycled, at any    *)
(* time.                                                                   *)
(***************************************************************************)
EXTENDS Integers, Sequences

CONSTANTS
  RebootWait,     \* time.sleep(3) in reboot()
  ReadTimeout,    \* ser.timeout = 5
  SetupTimeout,   \* Serial.setTimeout(5000)
  Boot,           \* the longest the Teensy takes from a restart to setup()
  Lag             \* the longest the forwarder oversleeps

ASSUME TeensyLinkAssumption ==
  /\ {RebootWait, ReadTimeout, SetupTimeout, Boot, Lag} \subseteq Nat
  /\ RebootWait > 0 /\ ReadTimeout > 0
  /\ RebootWait + Lag < SetupTimeout

VARIABLES
  fpc,      \* forwarder: off, sleep, echo, stream
  ftime,    \* seconds in sleep or echo
  found,    \* history: where the Teensy was when the port was first found
  stale,    \* the open port belongs to a Teensy that has restarted since
  teensy,   \* boot, setup, loop
  ttime,    \* seconds in boot or setup
  leds,     \* ledsPerStrip: "none", "configured", or what was taken for it
  wire,     \* to the Teensy
  echo      \* from the Teensy

forwarderVars == <<fpc, ftime, found, stale>>
teensyVars    == <<teensy, ttime, leds>>
vars == <<forwarderVars, teensyVars, wire, echo>>

-----------------------------------------------------------------------------
(* forward.py *)

Open == fpc \in {"echo", "stream"}

(* find_serial, then reboot: the port is closed again after the command.   *)
(* By the time a new forwarder gets here the bytes of the last are read.   *)
Reboot ==
  /\ fpc = "off"
  /\ teensy # "boot"
  /\ wire = << >>
  /\ fpc' = "sleep"
  /\ ftime' = 0
  /\ found' = teensy
  /\ wire' = Append(wire, "reboot")
  /\ UNCHANGED <<stale, teensyVars, echo>>

\* Slip: the Teensy is given more time than it waits itself.
Nap_Longer == RebootWait + SetupTimeout
Nap == RebootWait

(* find_serial raises if there is no port; else it is opened. *)
Configure ==
  /\ fpc = "sleep"
  /\ ftime >= Nap
  /\ ftime' = 0
  /\ IF teensy = "boot"
     THEN fpc' = "off" /\ UNCHANGED <<stale, wire>>
     ELSE /\ fpc' = "echo"
          /\ stale' = FALSE
          /\ wire' = Append(wire, "number")
  /\ UNCHANGED <<found, teensyVars, echo>>

\* ser.read(4).  Slip: no timeout is set.
Answered_Blocking == echo # "none" \/ stale
Answered == echo # "none" \/ stale \/ ftime = ReadTimeout

(* What is read back is printed, not compared. *)
ReadEcho ==
  /\ fpc = "echo"
  /\ Answered
  /\ fpc' = "stream"
  /\ ftime' = 0
  /\ echo' = "none"
  /\ UNCHANGED <<found, stale, teensyVars, wire>>

\* Bound: lines not yet read.
MaxWire == 2

(* send(): a port whose Teensy has restarted raises, and Die is the rest.  *)
\* Slip: the exception is caught, and the port found again.
WriteLine_Retry ==
  /\ fpc = "stream"
  /\ Len(wire) < MaxWire
  /\ wire' = Append(wire, "line")
  /\ UNCHANGED <<forwarderVars, teensyVars, echo>>
WriteLine ==
  /\ fpc = "stream"
  /\ ~stale
  /\ Len(wire) < MaxWire
  /\ wire' = Append(wire, "line")
  /\ UNCHANGED <<forwarderVars, teensyVars, echo>>

Die ==
  /\ fpc # "off"
  /\ fpc' = "off"
  /\ ftime' = 0
  /\ UNCHANGED <<found, stale, teensyVars, wire, echo>>

-----------------------------------------------------------------------------
(* VideoDisplayTeensy31.ino *)

(* A restart: what is under way on the line is gone. *)
Restarts ==
  /\ teensy' = "boot"
  /\ ttime' = 0
  /\ leds' = "none"
  /\ wire' = << >>
  /\ echo' = "none"
  /\ stale' = (stale \/ Open)
  /\ UNCHANGED <<fpc, ftime, found>>

PowerCycle == Restarts

EnterSetup ==
  /\ teensy = "boot"
  /\ teensy' = "setup"
  /\ ttime' = 0
  /\ UNCHANGED <<forwarderVars, leds, wire, echo>>

(* The number read is written back; without a reader it may be lost. *)
FinishSetup(number) ==
  /\ teensy = "setup"
  /\ teensy' = "loop"
  /\ ttime' = 0
  /\ leds' = number
  /\ echo' \in {number, IF Open THEN number ELSE "none"}
  /\ UNCHANGED forwarderVars

(* readBytes takes any four bytes. *)
ReadNumber ==
  /\ wire # << >>
  /\ wire' = Tail(wire)
  /\ FinishSetup(IF Head(wire) = "number" THEN "configured" ELSE Head(wire))

SetupTimesOut ==
  /\ ttime = SetupTimeout
  /\ wire = << >>
  /\ FinishSetup("none")
  /\ UNCHANGED wire

(* loop(): `!' restarts, the bytes of a number are unknown characters, and *)
(* what is between `*' and `#' is an image.                                *)
LoopReads ==
  /\ teensy = "loop"
  /\ wire # << >>
  /\ IF Head(wire) = "reboot"
     THEN Restarts
     ELSE wire' = Tail(wire) /\ UNCHANGED <<forwarderVars, teensyVars, echo>>

-----------------------------------------------------------------------------
\* Bound: the clocks stop here; nothing in the code waits as long.
MaxClock == RebootWait + Lag + ReadTimeout + SetupTimeout

(* A second passes, unless something is due. *)
Tick ==
  /\ fpc = "sleep" => ftime < Nap + Lag
  /\ fpc = "echo" => ~Answered
  /\ teensy = "boot" => ttime < Boot
  /\ teensy = "setup" => ttime < SetupTimeout
  /\ teensy # "boot" => wire = << >>
  /\ ftime' = IF fpc \in {"sleep", "echo"} /\ ftime < MaxClock THEN ftime + 1 ELSE ftime
  /\ ttime' = IF teensy \in {"boot", "setup"} THEN ttime + 1 ELSE ttime
  /\ UNCHANGED <<fpc, found, stale, teensy, leds, wire, echo>>

Init ==
  /\ fpc = "off"
  /\ ftime = 0
  /\ found = "boot"
  /\ stale = FALSE
  /\ teensy = "boot"
  /\ ttime = 0
  /\ leds = "none"
  /\ wire = << >>
  /\ echo = "none"

Forwarder == Reboot \/ Configure \/ ReadEcho \/ WriteLine \/ Die
Teensy == PowerCycle \/ EnterSetup \/ ReadNumber \/ SetupTimesOut \/ LoopReads

Next == Forwarder \/ Teensy \/ Tick

Spec == Init /\ [][Next]_vars

(* Time passes, and everyone acts in time. *)
FairSpec ==
  /\ Spec
  /\ WF_vars(Tick)
  /\ WF_vars(Configure \/ ReadEcho)
  /\ WF_vars(EnterSetup \/ ReadNumber \/ SetupTimesOut \/ LoopReads)

-----------------------------------------------------------------------------
(* Properties *)

TypeOK ==
  /\ fpc \in {"off", "sleep", "echo", "stream"}
  /\ ftime \in Nat
  /\ fpc = "sleep" => ftime <= RebootWait + Lag
  /\ fpc = "echo" => ftime <= ReadTimeout
  /\ found \in {"boot", "setup", "loop"}
  /\ stale \in BOOLEAN
  /\ teensy \in {"boot", "setup", "loop"}
  /\ ttime \in 0..(IF teensy = "boot" THEN Boot ELSE SetupTimeout)
  /\ leds \in {"none", "configured", "reboot", "line"}
  /\ wire \in Seq({"reboot", "number", "line"})
  /\ echo \in {"none", "configured", "reboot", "line"}

(***************************************************************************)
(* A forwarder that found the Teensy in loop() streams to one that knows   *)
(* its number of LEDs, although neither side checks what it read: the nap  *)
(* ends while setup() still waits (forward.py:59, ino:82).                 *)
(***************************************************************************)
StreamsConfigured ==
  fpc = "stream" /\ found = "loop" /\ ~stale => leds = "configured"

(***************************************************************************)
(* The pixels of an image only ever travel to a Teensy in loop(): setup()  *)
(* takes the first four bytes it gets for the number of LEDs, whatever     *)
(* they are (ino:83), and the forwarder neither compares the echo nor      *)
(* waits for it longer than a while (forward.py:101).                      *)
(***************************************************************************)
LinesReachLoop == \A k \in 1..Len(wire) : wire[k] = "line" => teensy = "loop"

\* The Teensy knows no number before loop().
NumberInLoop == teensy # "loop" => leds = "none"

\* While the forwarder sleeps, the Teensy it found in loop() has the command
\* before it, boots, or waits in setup() for no longer than the forwarder slept.
Sleeping ==
  fpc = "sleep" /\ found = "loop" =>
    \/ teensy = "loop" /\ wire = <<"reboot">> /\ ftime = 0
    \/ teensy = "boot" /\ wire = << >> /\ echo = "none"
    \/ teensy = "setup" /\ wire = << >> /\ echo = "none" /\ ttime <= ftime

\* While the forwarder waits for the echo, the number is on its way or known.
Awaiting ==
  fpc = "echo" /\ found = "loop" /\ ~stale =>
    \/ teensy = "setup" /\ wire = <<"number">> /\ echo = "none" /\ ftime = 0
    \/ leds = "configured"

\* Nothing is under way after a restart, nor once a forwarder has slept a while.
Quiet ==
  /\ teensy = "boot" => wire = << >>
  /\ teensy # "loop" => echo = "none"
  /\ fpc = "sleep" /\ ftime > 0 => wire = << >>

\* The number is all that lies before a setup() that is being configured, and
\* it is read long before the forwarder streams.
NumberFirst ==
  /\ fpc = "echo" /\ ~stale =>
       \/ teensy = "setup" /\ wire = <<"number">> /\ ftime = 0
       \/ teensy = "loop"
  /\ fpc = "stream" /\ ~stale => teensy = "loop"

(***************************************************************************)
(* The inductive invariant: what is left of the handshake from each point  *)
(* on leads to a configured Teensy, and no line is sent before that        *)
(* (forward.py:51-106, ino:79-91).                                         *)
(***************************************************************************)
IInv ==
  /\ TypeOK /\ NumberInLoop /\ Sleeping /\ Awaiting /\ StreamsConfigured
  /\ Quiet /\ NumberFirst /\ LinesReachLoop

(***************************************************************************)
(* The handshake ends, whatever the Teensy does (forward.py:90).           *)
(***************************************************************************)
HandshakeEnds == (fpc = "sleep") ~> (fpc \in {"stream", "off"})

(***************************************************************************)
(* forward.py:56 says of the bytes it writes "Send reboot command": the    *)
(* Teensy that reads them restarts.                                        *)
(***************************************************************************)
CommandRestarts ==
  [][wire # << >> /\ Head(wire) = "reboot" /\ Len(wire') < Len(wire)
       => teensy' = "boot"]_vars
=============================================================================
