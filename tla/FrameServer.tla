----------------------------- MODULE FrameServer -----------------------------
(***************************************************************************)
(* The frame server (src/frameserver/Server.cpp): five threads around the  *)
(* table of sources and the mixed frame, and the mutex that guards both.   *)
(*                                                                         *)
(*   listen   takes datagrams and stores them in the table                 *)
(*   mix      paints all the sources into the shared frame                 *)
(*   send     copies the shared frame and transmits the copy               *)
(*   expire   removes the sources that fell silent                         *)
(*   console  prints under the lock                                        *)
(*                                                                         *)
(* C++ indices start at 0 and these sequences at 1, so bufnum, x and i are *)
(* one more than in the source.  A frame is a member of Frame, whatever a  *)
(* datagram decodes to (module Wire); the mixed frame is the sequence of   *)
(* the frames painted on it, bottom first (module Blend says what painting *)
(* does to a pixel).                                                       *)
(***************************************************************************)
EXTENDS Integers, Sequences, SequencesExt

CONSTANTS
  Endpoint,        \* addresses datagrams come from
  NoEndpoint,      \* the default-constructed endpoint, left by a failed receive
  Frame,           \* what a datagram can decode to
  Unset,           \* the content of a new Buffer nobody has set
  Blank,           \* the content of Server::frame before the first mix
  NUMBUFS,
  BUFTIMEOUT,
  TicksPerSecond,  \* how finely real time is observed
  MaxSecond        \* bound: the clock stops here

ASSUME FramesAssumption ==
  /\ NoEndpoint \notin Endpoint
  /\ Unset \notin Frame
  /\ Blank \notin Frame
  /\ Blank # Unset

ASSUME LimitsAssumption ==
  /\ NUMBUFS \in Nat
  /\ BUFTIMEOUT \in Nat
  /\ TicksPerSecond \in Nat \ {0}
  /\ MaxSecond \in Nat

Thread == {"listen", "mix", "send", "expire", "console"}
Free == "free"
Sender == Endpoint \union {NoEndpoint}
Layer == Frame \union {Unset, Blank}

VARIABLES
  clock,        \* real time, [sec, tick]
  owner,        \* the thread that holds mutex_, or Free
  pc,           \* where each thread is
  recv_buf,     \* listen: the datagram in hand, [ep, frame]
  failed,       \* listen: receive_from reported an error
  bufnum,       \* listen: where the datagram is stored
  currenttime,  \* time_t shared by listen and expire
  buffers,      \* the frame of each source
  endpoints,    \* the address of each source
  times,        \* the second each source was last heard
  frame,        \* Server::frame: the layers painted on it
  size, x,      \* mix: number of buffers, loop index
  i,            \* expire: loop index
  data,         \* send: its copy of the frame
  sent,         \* the last picture that left on UDP
  heard         \* history: when listen last took up a datagram of each address

table == <<buffers, endpoints, times>>
listenVars == <<recv_buf, failed, bufnum>>
mixVars == <<frame, size, x>>
sendVars == <<data, sent>>
vars == <<clock, owner, pc, listenVars, currenttime, table, mixVars, i, sendVars, heard>>

-----------------------------------------------------------------------------
(* The lock.  Glib::Mutex::Lock acquires on construction, releases at the  *)
(* end of its block.                                                       *)

InLock ==
  [listen  |-> {"search", "store"},
   mix     |-> {"zero", "blend"},
   send    |-> {"copy"},
   expire  |-> {"scan"},
   console |-> {"print"}]

Goto(t, l) == pc' = [pc EXCEPT ![t] = l]

\* A slip: the thread goes on without waiting for the mutex.
Acquire_Barging(t) == owner' = t
Acquire(t) == owner = Free /\ owner' = t

\* A slip: an early return that keeps the mutex.
Release_Leaking(t) == owner = t /\ owner' = t
Release(t) == owner = t /\ owner' = Free

-----------------------------------------------------------------------------
(* listen *)

\* A slip: time() is called once, at the start.
ReadTime_Once == 0
ReadTime == clock.sec

Known(e) == \E k \in 1..Len(endpoints) : endpoints[k] = e

(***************************************************************************)
(* receive_from returns a datagram that starts with HASH.  One that does   *)
(* not is dropped by line 76, before anything is shared.                   *)
(***************************************************************************)
Receive(e, f) ==
  /\ pc.listen = "receive"
  /\ recv_buf' = [ep |-> e, frame |-> f]
  /\ failed' = FALSE
  /\ Goto("listen", "lock")
  /\ UNCHANGED <<clock, owner, bufnum, currenttime, table, mixVars, i, sendVars, heard>>

(***************************************************************************)
(* receive_from fails.  recv_buf is uninitialised stack memory and usually *)
(* still holds the previous datagram, so it may start with HASH and decode *)
(* to anything; the endpoint is the default one.  The error is looked at   *)
(* only after the frame is stored.                                         *)
(***************************************************************************)
ReceiveError(f) ==
  /\ pc.listen = "receive"
  /\ recv_buf' = [ep |-> NoEndpoint, frame |-> f]
  /\ failed' = TRUE
  /\ Goto("listen", "lock")
  /\ UNCHANGED <<clock, owner, bufnum, currenttime, table, mixVars, i, sendVars, heard>>

ListenAcquire ==
  /\ pc.listen = "lock"
  /\ Acquire("listen")
  /\ currenttime' = ReadTime
  /\ heard' = [heard EXCEPT ![recv_buf.ep] = clock]
  /\ Goto("listen", "search")
  /\ UNCHANGED <<clock, listenVars, table, mixVars, i, sendVars>>

\* A slip: the search runs before the lock is taken, so that the index it
\* found is used after an entry before it may have been erased.
Found_BeforeLocking(k) ==
  /\ \E n \in 0..1 : k - n \in 1..Len(endpoints) /\ endpoints[k - n] = recv_buf.ep
  /\ k \in 1..Len(endpoints)
Found(k) ==
  /\ k \in 1..Len(endpoints)
  /\ endpoints[k] = recv_buf.ep
  /\ \A j \in 1..(k - 1) : endpoints[j] # recv_buf.ep

ListenKnown ==
  /\ pc.listen = "search"
  /\ \E k \in 1..Len(endpoints) : Found(k) /\ bufnum' = k
  /\ Goto("listen", "store")
  /\ UNCHANGED <<clock, owner, recv_buf, failed, currenttime, table, mixVars, i, sendVars, heard>>

HasRoom == Len(buffers) < NUMBUFS

ListenNew ==
  /\ pc.listen = "search"
  /\ ~Known(recv_buf.ep)
  /\ HasRoom
  /\ buffers' = Append(buffers, Unset)
  /\ endpoints' = Append(endpoints, recv_buf.ep)
  /\ times' = Append(times, currenttime)
  /\ bufnum' = Len(buffers) + 1
  /\ Goto("listen", "store")
  /\ UNCHANGED <<clock, owner, recv_buf, failed, currenttime, mixVars, i, sendVars, heard>>

(* The table is full: `continue` skips the error check as well. *)
ListenRefuse ==
  /\ pc.listen = "search"
  /\ ~Known(recv_buf.ep)
  /\ ~HasRoom
  /\ Release("listen")
  /\ Goto("listen", "receive")
  /\ UNCHANGED <<clock, listenVars, currenttime, table, mixVars, i, sendVars, heard>>

Stored ==
  IF bufnum <= Len(buffers)
  THEN /\ buffers' = [buffers EXCEPT ![bufnum] = recv_buf.frame]
       /\ times' = [times EXCEPT ![bufnum] = currenttime]
       /\ UNCHANGED endpoints
  ELSE UNCHANGED table

(* A receive error ends the thread here: the exception leaves the loop. *)
ListenStore ==
  /\ pc.listen = "store"
  /\ Stored
  /\ Release("listen")
  /\ Goto("listen", IF failed THEN "dead" ELSE "receive")
  /\ UNCHANGED <<clock, listenVars, currenttime, mixVars, i, sendVars, heard>>

-----------------------------------------------------------------------------
(* mix *)

MixAcquire ==
  /\ pc.mix = "start"
  /\ Acquire("mix")
  /\ size' = Len(buffers)
  /\ Goto("mix", "zero")
  /\ UNCHANGED <<clock, listenVars, currenttime, table, frame, x, i, sendVars, heard>>

\* A slip: the previous picture is painted over, not zeroed.
Zeroed_Not == frame
Zeroed == << >>

MixZero ==
  /\ pc.mix = "zero"
  /\ frame' = Zeroed
  /\ x' = 1
  /\ Goto("mix", "blend")
  /\ UNCHANGED <<clock, owner, listenVars, currenttime, table, size, i, sendVars, heard>>

\* A slip: `x < size - 1`, the last source is not painted.
More_MissingLast == x < size
More == x <= size

MixBlend ==
  /\ pc.mix = "blend"
  /\ More
  /\ frame' = Append(frame, buffers[x])
  /\ x' = x + 1
  /\ UNCHANGED <<clock, owner, pc, listenVars, currenttime, table, size, i, sendVars, heard>>

MixDone ==
  /\ pc.mix = "blend"
  /\ ~More
  /\ Release("mix")
  /\ Goto("mix", "start")
  /\ UNCHANGED <<clock, listenVars, currenttime, table, mixVars, i, sendVars, heard>>

-----------------------------------------------------------------------------
(* send *)

SendAcquire ==
  /\ pc.send = "start"
  /\ Acquire("send")
  /\ Goto("send", "copy")
  /\ UNCHANGED <<clock, listenVars, currenttime, table, mixVars, i, sendVars, heard>>

SendCopy ==
  /\ pc.send = "copy"
  /\ data' = frame
  /\ Release("send")
  /\ Goto("send", "udp")
  /\ UNCHANGED <<clock, listenVars, currenttime, table, mixVars, i, sent, heard>>

SendUdp ==
  /\ pc.send = "udp"
  /\ sent' = data
  /\ Goto("send", "tcp")
  /\ UNCHANGED <<clock, owner, listenVars, currenttime, table, mixVars, i, data, heard>>

(* An exception while sending on UDP also skips the TCP connection. *)
SendUdpFails ==
  /\ pc.send = "udp"
  /\ Goto("send", "start")
  /\ UNCHANGED <<clock, owner, listenVars, currenttime, table, mixVars, i, sendVars, heard>>

(* The TCP connection is made and written to, or throws: the same to us. *)
SendTcp ==
  /\ pc.send = "tcp"
  /\ Goto("send", "start")
  /\ UNCHANGED <<clock, owner, listenVars, currenttime, table, mixVars, i, sendVars, heard>>

-----------------------------------------------------------------------------
(* expire *)

ExpireAcquire ==
  /\ pc.expire = "start"
  /\ Acquire("expire")
  /\ currenttime' = ReadTime
  /\ i' = 1
  /\ Goto("expire", "scan")
  /\ UNCHANGED <<clock, listenVars, table, mixVars, sendVars, heard>>

\* A slip: `>=` for `>`.
Silent_TooSoon(k) == currenttime - times[k] >= BUFTIMEOUT
Silent(k) == currenttime - times[k] > BUFTIMEOUT

\* Slips: one of the vectors is forgotten; the last source is moved into the
\* gap instead of closing it.
Erase_TwoOfThree(k) ==
  /\ buffers' = RemoveAt(buffers, k)
  /\ times' = RemoveAt(times, k)
  /\ UNCHANGED endpoints
MoveLast(s, k) == SubSeq([s EXCEPT ![k] = s[Len(s)]], 1, Len(s) - 1)
Erase_MovingLast(k) ==
  /\ buffers' = MoveLast(buffers, k)
  /\ times' = MoveLast(times, k)
  /\ endpoints' = MoveLast(endpoints, k)
Erase(k) ==
  /\ buffers' = RemoveAt(buffers, k)
  /\ times' = RemoveAt(times, k)
  /\ endpoints' = RemoveAt(endpoints, k)

\* A slip: the `i--` is missing, the source behind an erased one is skipped.
AfterErase_Skipping(k) == k + 1
AfterErase(k) == k

ExpireErase ==
  /\ pc.expire = "scan"
  /\ i <= Len(buffers)
  /\ Silent(i)
  /\ Erase(i)
  /\ i' = AfterErase(i)
  /\ UNCHANGED <<clock, owner, pc, listenVars, currenttime, mixVars, sendVars, heard>>

ExpireKeep ==
  /\ pc.expire = "scan"
  /\ i <= Len(buffers)
  /\ ~Silent(i)
  /\ i' = i + 1
  /\ UNCHANGED <<clock, owner, pc, listenVars, currenttime, table, mixVars, sendVars, heard>>

ExpireDone ==
  /\ pc.expire = "scan"
  /\ i > Len(buffers)
  /\ Release("expire")
  /\ Goto("expire", "start")
  /\ UNCHANGED <<clock, listenVars, currenttime, table, mixVars, i, sendVars, heard>>

-----------------------------------------------------------------------------
(* console, and time *)

ConsoleAcquire ==
  /\ pc.console = "start"
  /\ Acquire("console")
  /\ Goto("console", "print")
  /\ UNCHANGED <<clock, listenVars, currenttime, table, mixVars, i, sendVars, heard>>

(* refresh() writes to the terminal before the lock is released. *)
ConsolePrint ==
  /\ pc.console = "print"
  /\ Release("console")
  /\ Goto("console", "start")
  /\ UNCHANGED <<clock, listenVars, currenttime, table, mixVars, i, sendVars, heard>>

(* time() drops the fraction of the second that `tick` counts. *)
Tick ==
  /\ clock.sec < MaxSecond
  /\ clock' = IF clock.tick + 1 = TicksPerSecond
              THEN [sec |-> clock.sec + 1, tick |-> 0]
              ELSE [sec |-> clock.sec, tick |-> clock.tick + 1]
  /\ UNCHANGED <<owner, pc, listenVars, currenttime, table, mixVars, i, sendVars, heard>>

-----------------------------------------------------------------------------

Init ==
  /\ clock = [sec |-> 0, tick |-> 0]
  /\ owner = Free
  /\ pc = [listen |-> "receive", mix |-> "start", send |-> "start",
           expire |-> "start", console |-> "start"]
  /\ recv_buf \in [ep : {NoEndpoint}, frame : {Unset}]
  /\ failed = FALSE
  /\ bufnum = 1
  /\ currenttime = 0
  /\ buffers = << >> /\ endpoints = << >> /\ times = << >>
  /\ frame = <<Blank>>
  /\ size = 0 /\ x = 1
  /\ i = 1
  /\ data = << >>
  /\ sent = << >>
  /\ heard = [e \in Sender |-> [sec |-> 0, tick |-> 0]]

Listen ==
  \/ \E e \in Endpoint, f \in Frame : Receive(e, f)
  \/ \E f \in Frame : ReceiveError(f)
  \/ ListenAcquire
  \/ ListenKnown
  \/ ListenNew
  \/ ListenRefuse
  \/ ListenStore

MixThread == MixAcquire \/ MixZero \/ MixBlend \/ MixDone

SendThread == SendAcquire \/ SendCopy \/ SendUdp \/ SendUdpFails \/ SendTcp

ExpireThread == ExpireAcquire \/ ExpireErase \/ ExpireKeep \/ ExpireDone

ConsoleThread == ConsoleAcquire \/ ConsolePrint

Next == Listen \/ MixThread \/ SendThread \/ ExpireThread \/ ConsoleThread \/ Tick

Spec == Init /\ [][Next]_vars

(***************************************************************************)
(* Fairness.  Every thread sleeps (or waits for a datagram) between two    *)
(* turns, so the mutex is free again and again and a waiting thread gets   *)
(* it in the end: strong fairness of Acquire.  A thread that holds the     *)
(* lock runs on; for the console that means the terminal takes the output  *)
(* of refresh().  The display is on the same host: UDP sends do not fail   *)
(* for ever.  Nothing is assumed about datagrams or the clock.             *)
(***************************************************************************)
Fairness ==
  /\ SF_vars(ListenAcquire)
  /\ WF_vars(ListenKnown \/ ListenNew \/ ListenRefuse)
  /\ WF_vars(ListenStore)
  /\ SF_vars(MixAcquire)
  /\ WF_vars(MixZero \/ MixBlend \/ MixDone)
  /\ SF_vars(SendAcquire)
  /\ WF_vars(SendCopy)
  /\ SF_vars(SendUdp)
  /\ WF_vars(SendTcp)
  /\ SF_vars(ExpireAcquire)
  /\ WF_vars(ExpireErase \/ ExpireKeep \/ ExpireDone)
  /\ WF_vars(ConsolePrint)

FairSpec == Spec /\ Fairness

-----------------------------------------------------------------------------
(* Invariants *)

Time == [sec : Nat, tick : 0..(TicksPerSecond - 1)]

(* The type of every variable and the program points of every thread. *)
TypeOK ==
  /\ clock \in Time
  /\ owner \in Thread \union {Free}
  /\ pc \in [listen  : {"receive", "lock", "search", "store", "dead"},
             mix     : {"start", "zero", "blend"},
             send    : {"start", "copy", "udp", "tcp"},
             expire  : {"start", "scan"},
             console : {"start", "print"}]
  /\ recv_buf \in [ep : Sender, frame : Frame \union {Unset}]
  /\ failed \in BOOLEAN
  /\ bufnum \in Nat \ {0}
  /\ currenttime \in Nat
  /\ buffers \in Seq(Frame \union {Unset})
  /\ endpoints \in Seq(Sender)
  /\ times \in Seq(Nat)
  /\ frame \in Seq(Layer)
  /\ size \in Nat
  /\ x \in Nat \ {0}
  /\ i \in Nat \ {0}
  /\ data \in Seq(Layer)
  /\ sent \in Seq(Layer)
  /\ heard \in [Sender -> Time]

(***************************************************************************)
(* The three vectors of Server.h that describe a source by position stay   *)
(* in step: entry k of each is about the same source, no address has two   *)
(* entries, and there are never more than NUMBUFS, whatever listen         *)
(* (103-109) and expire (602-605) do to them and in whatever order.        *)
(***************************************************************************)
TableAligned ==
  /\ Len(buffers) = Len(endpoints)
  /\ Len(times) = Len(endpoints)
  /\ Len(endpoints) <= NUMBUFS
  /\ \A j, k \in 1..Len(endpoints) : j # k => endpoints[j] # endpoints[k]

(***************************************************************************)
(* The index found by the search of lines 91-99 still names the sender of  *)
(* the datagram when the frame is stored at line 148.                      *)
(***************************************************************************)
WriteHitsSender ==
  pc.listen = "store" => /\ bufnum \in 1..Len(endpoints)
                         /\ endpoints[bufnum] = recv_buf.ep

(***************************************************************************)
(* A Buffer is pushed (107) before it is set (148): its uninitialised      *)
(* frame never reaches the mixed frame, the copy send() makes, or the wire.*)
(***************************************************************************)
UnsetNeverShown ==
  Unset \notin Range(frame) \union Range(data) \union Range(sent)

(***************************************************************************)
(* What the sweep of expire() has passed is fresh: removing a source does  *)
(* not make it step over the next one (line 608).                          *)
(***************************************************************************)
SweepLeavesNoneBehind ==
  pc.expire = "scan" =>
    \A k \in 1..Len(times) : k < i => currenttime - times[k] <= BUFTIMEOUT

-----------------------------------------------------------------------------
(* What makes those invariants inductive *)

\* A thread is at a point inside its block exactly when it owns the mutex.
LockInv ==
  /\ (pc.listen \in InLock.listen) <=> (owner = "listen")
  /\ (pc.mix \in InLock.mix) <=> (owner = "mix")
  /\ (pc.send \in InLock.send) <=> (owner = "send")
  /\ (pc.expire \in InLock.expire) <=> (owner = "expire")
  /\ (pc.console \in InLock.console) <=> (owner = "console")

\* Past receive_from, listen holds a frame.
HandInv == pc.listen \in {"lock", "search", "store"} => recv_buf.frame \in Frame

\* The only unset buffer is the one listen is about to fill.
UnsetConfined ==
  \A k \in 1..Len(buffers) : buffers[k] = Unset => pc.listen = "store" /\ k = bufnum

\* While the mixer works, the frame holds the buffers it has been through.
MixInv ==
  /\ pc.mix \in InLock.mix => size = Len(buffers)
  /\ pc.mix = "blend" => /\ x <= size + 1
                         /\ Len(frame) = x - 1
                         /\ \A k \in 1..(x - 1) : frame[k] = buffers[k]

PicturesClean ==
  \A p \in {frame, data, sent} : \A k \in 1..Len(p) : p[k] # Unset

\* times is what the history says, but for the source listen is serving.
TimesInv ==
  /\ currenttime <= clock.sec
  /\ \A e \in Sender : \/ heard[e].sec < clock.sec
                       \/ heard[e].sec = clock.sec /\ heard[e].tick <= clock.tick
  /\ pc.listen \in InLock.listen => heard[recv_buf.ep].sec = currenttime
  /\ \A k \in 1..Len(endpoints) :
       \/ times[k] = heard[endpoints[k]].sec
       \/ /\ pc.listen \in InLock.listen
          /\ endpoints[k] = recv_buf.ep
          /\ times[k] <= currenttime

(***************************************************************************)
(* The inductive invariant: the lock excludes, the vectors are aligned,    *)
(* and what listen, mix and expire have done so far inside their blocks is *)
(* what the code after it relies on.                                       *)
(***************************************************************************)
IInv ==
  /\ TypeOK
  /\ LockInv
  /\ HandInv
  /\ TableAligned
  /\ WriteHitsSender
  /\ UnsetConfined
  /\ MixInv
  /\ PicturesClean
  /\ TimesInv
  /\ SweepLeavesNoneBehind

-----------------------------------------------------------------------------
(* Action properties *)

Listed(e) == \E k \in 1..Len(endpoints) : endpoints[k] = e

\* More than BUFTIMEOUT seconds of real time since t.
Overdue(t) ==
  \/ clock.sec - t.sec > BUFTIMEOUT
  \/ clock.sec - t.sec = BUFTIMEOUT /\ clock.tick > t.tick

(***************************************************************************)
(* No source is removed before BUFTIMEOUT seconds of real time have passed *)
(* since its last accepted datagram, though both ends of the interval are  *)
(* read in whole seconds and currenttime is shared by two threads.         *)
(***************************************************************************)
NoEarlyExpiry ==
  [][\A e \in Sender : Listed(e) /\ ~Listed(e)' => Overdue(heard[e])]_vars

(***************************************************************************)
(* The stacking order of the sources that stay never changes: expire()     *)
(* closes gaps and listen() only adds on top, so that whatever is below a  *)
(* source that stays was below it before.                                  *)
(***************************************************************************)
StableOrder ==
  [][\A m, n \in 1..Len(endpoints') :
       m < n /\ Listed(endpoints'[n]) =>
         \E j, k \in 1..Len(endpoints) :
           j < k /\ endpoints[j] = endpoints'[m] /\ endpoints[k] = endpoints'[n]]_vars

-----------------------------------------------------------------------------
(* Refinement *)

Arriving == pc.listen \in InLock.listen

Joining == pc.listen = "search" /\ ~Known(recv_buf.ep) /\ HasRoom

Arrival == [ep |-> recv_buf.ep, frame |-> recv_buf.frame, heard |-> currenttime]

Entry(k) ==
  IF Arriving /\ endpoints[k] = recv_buf.ep
  THEN Arrival
  ELSE [ep |-> endpoints[k], frame |-> buffers[k], heard |-> times[k]]

Entries == [k \in 1..Len(endpoints) |-> Entry(k)]

Sources == IF Joining THEN Append(Entries, Arrival) ELSE Entries

Picture == IF pc.mix \in InLock.mix THEN buffers ELSE frame

(***************************************************************************)
(* The abstract table changes when listen takes the lock, as what it will  *)
(* do is settled there; the abstract picture when mix takes it, since      *)
(* nobody can look at the frame until it is complete.                      *)
(***************************************************************************)
Abstract == INSTANCE SourceTable WITH
  Sender <- Sender, sources <- Sources, picture <- Picture, outgoing <- data,
  now <- clock.sec

(***************************************************************************)
(* The five threads and their lock implement the table of sources without  *)
(* threads: arrivals, expiry, mixing and sending are each atomic.          *)
(***************************************************************************)
ImplementsSourceTable == Abstract!Spec

-----------------------------------------------------------------------------
(* Liveness *)

Shows(e, f) == \E k \in 1..Len(endpoints) : k <= Len(buffers) /\ endpoints[k] = e /\ buffers[k] = f

(***************************************************************************)
(* A frame that is in the table is transmitted, unless its source sends    *)
(* another or expires first.                                               *)
(***************************************************************************)
FrameReachesDisplay ==
  \A e \in Sender, f \in Frame : Shows(e, f) ~> (f \in Range(sent) \/ ~Shows(e, f))

\* The whole seconds since the last accepted datagram exceed BUFTIMEOUT.
Stale(e) == Listed(e) /\ clock.sec - heard[e].sec > BUFTIMEOUT

(***************************************************************************)
(* A source that has fallen silent leaves the table, so that another can   *)
(* have its place: the sweep of expire() comes round to it.                *)
(***************************************************************************)
StaleSourceLeaves == \A e \in Sender : Stale(e) ~> ~Stale(e)
=============================================================================
