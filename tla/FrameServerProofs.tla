-------------------------- MODULE FrameServerProofs --------------------------
(***************************************************************************)
(* The frame server, for every set of addresses and frames, every NUMBUFS, *)
(* BUFTIMEOUT and clock.                                                   *)
(*                                                                         *)
(* The invariants: IInv holds initially and is preserved by each action,   *)
(* one lemma per action, one step per conjunct.                            *)
(*                                                                         *)
(* The refinement: FrameServer implements SourceTable, every step of a     *)
(* thread is one step of the table without threads, or leaves it as it     *)
(* was.                                                                    *)
(*                                                                         *)
(* The console: the thread of input() only reads what the other threads    *)
(* guard, so all that is proved of the frame server holds with it; and its *)
(* mark stays on the list of clients, for every number of them.            *)
(***************************************************************************)
EXTENDS Console, SequenceLemmas

-----------------------------------------------------------------------------
(* The invariants                                                          *)

(* Before the threads run the table is empty and nobody holds the lock.    *)
LEMMA InitIInv == Init => IInv
<1> SUFFICES ASSUME Init PROVE IInv
  OBVIOUS
<1> USE FramesAssumption, LimitsAssumption
<1>1. TypeOK
  <2>1. 0 \in 0..(TicksPerSecond - 1)
    OBVIOUS
  <2>2. clock \in Time /\ heard \in [Sender -> Time]
    BY <2>1 DEF Init, Time
  <2>3. frame \in Seq(Layer)
    BY DEF Init, Layer
  <2>4. /\ buffers \in Seq(Frame \union {Unset}) /\ endpoints \in Seq(Sender)
        /\ times \in Seq(Nat) /\ data \in Seq(Layer) /\ sent \in Seq(Layer)
    BY EmptySeq DEF Init
  <2>5. recv_buf \in [ep : Sender, frame : Frame \union {Unset}]
    BY DEF Init, Sender
  <2>6. pc \in [listen  : {"receive", "lock", "search", "store", "dead"},
                mix     : {"start", "zero", "blend"},
                send    : {"start", "copy", "udp", "tcp"},
                expire  : {"start", "scan"},
                console : {"start", "print"}]
    BY DEF Init
  <2>7. failed \in BOOLEAN
    BY Zenon DEF Init
  <2>8. /\ owner \in Thread \union {Free}
        /\ bufnum \in Nat \ {0} /\ currenttime \in Nat
        /\ size \in Nat /\ x \in Nat \ {0} /\ i \in Nat \ {0}
    BY DEF Init
  <2> QED BY <2>2, <2>3, <2>4, <2>5, <2>6, <2>7, <2>8, Zenon DEF TypeOK
<1>2. LockInv
  BY DEF Init, LockInv, InLock, Free
<1>3. HandInv /\ TableAligned /\ WriteHitsSender /\ UnsetConfined
  BY DEF Init, HandInv, TableAligned, WriteHitsSender, UnsetConfined
<1>4. MixInv /\ PicturesClean /\ SweepLeavesNoneBehind
  BY DEF Init, MixInv, InLock, PicturesClean, SweepLeavesNoneBehind
<1>5. TimesInv
  BY DEF Init, TimesInv, InLock, Sender
<1> QED BY <1>1, <1>2, <1>3, <1>4, <1>5 DEF IInv

(* A datagram arrives: only listen's own variables change.                 *)
LEMMA ReceiveIInv ==
  ASSUME NEW e \in Endpoint, NEW f \in Frame, IInv, Receive(e, f)
  PROVE  IInv'
<1> USE DEF table, listenVars, mixVars, sendVars, Goto, Acquire, Release
<1>1. TypeOK'
  BY DEF IInv, TypeOK, Receive, Sender
<1>2. LockInv'
  BY DEF IInv, Receive, LockInv, InLock
<1>3. HandInv' /\ TableAligned' /\ WriteHitsSender' /\ UnsetConfined'
  BY DEF IInv, Receive, HandInv, TableAligned, WriteHitsSender, UnsetConfined
<1>4. MixInv' /\ PicturesClean' /\ SweepLeavesNoneBehind'
  BY DEF IInv, Receive, MixInv, PicturesClean, SweepLeavesNoneBehind
<1>5. TimesInv'
  BY DEF IInv, Receive, TimesInv, InLock
<1> QED BY <1>1, <1>2, <1>3, <1>4, <1>5 DEF IInv

(* receive_from fails: the endpoint is the default one, a Sender as well.  *)
LEMMA ReceiveErrorIInv ==
  ASSUME NEW f \in Frame, IInv, ReceiveError(f)
  PROVE  IInv'
<1> USE DEF table, listenVars, mixVars, sendVars, Goto, Acquire, Release
<1>1. TypeOK'
  BY DEF IInv, TypeOK, ReceiveError, Sender
<1>2. LockInv'
  BY DEF IInv, ReceiveError, LockInv, InLock
<1>3. HandInv' /\ TableAligned' /\ WriteHitsSender' /\ UnsetConfined'
  BY DEF IInv, ReceiveError, HandInv, TableAligned, WriteHitsSender, UnsetConfined
<1>4. MixInv' /\ PicturesClean' /\ SweepLeavesNoneBehind'
  BY DEF IInv, ReceiveError, MixInv, PicturesClean, SweepLeavesNoneBehind
<1>5. TimesInv'
  BY DEF IInv, ReceiveError, TimesInv, InLock
<1> QED BY <1>1, <1>2, <1>3, <1>4, <1>5 DEF IInv

(* listen takes the free lock, so no sweep is under way when it            *)
(* overwrites currenttime.                                                 *)
LEMMA ListenAcquireIInv ==
  ASSUME IInv, ListenAcquire
  PROVE  IInv'
<1> USE DEF table, listenVars, mixVars, sendVars, Goto, Acquire, Release
<1>1. TypeOK'
  BY DEF IInv, TypeOK, ListenAcquire, Time, Thread, ReadTime
<1>2. LockInv'
  BY DEF IInv, TypeOK, ListenAcquire, LockInv, InLock, Free
<1>3. HandInv' /\ TableAligned' /\ WriteHitsSender' /\ UnsetConfined'
  BY DEF IInv, ListenAcquire, HandInv, TableAligned, WriteHitsSender, UnsetConfined
<1>4. MixInv' /\ PicturesClean'
  BY DEF IInv, ListenAcquire, MixInv, PicturesClean
<1>5. TimesInv'
  <2>1. /\ pc.listen = "lock" /\ recv_buf.ep \in Sender
        /\ heard \in [Sender -> Time] /\ endpoints \in Seq(Sender)
        /\ clock.sec \in Nat /\ clock.tick \in Int
    BY DEF IInv, TypeOK, Time, ListenAcquire
  <2>2. /\ currenttime' = clock.sec
        /\ heard' = [heard EXCEPT ![recv_buf.ep] = clock]
        /\ UNCHANGED <<clock, recv_buf, endpoints, times>>
    BY DEF ListenAcquire, ReadTime
  <2>3. \A e \in Sender : heard'[e] = IF e = recv_buf.ep THEN clock ELSE heard[e]
    BY <2>1, <2>2
  <2>4. \A k \in 1..Len(endpoints) :
          times[k] = heard[endpoints[k]].sec /\ times[k] <= clock.sec
    <3>1. \A k \in 1..Len(endpoints) : times[k] = heard[endpoints[k]].sec
      BY <2>1 DEF IInv, TimesInv, InLock
    <3>2. \A k \in 1..Len(endpoints) : endpoints[k] \in Sender
      BY <2>1
    <3>3. ASSUME NEW e \in Sender
          PROVE  heard[e].sec <= clock.sec
      <4>1. heard[e].sec \in Nat
        BY <2>1 DEF Time
      <4>2. heard[e].sec < clock.sec \/ heard[e].sec = clock.sec
        BY DEF IInv, TimesInv
      <4> QED BY <2>1, <4>1, <4>2
    <3> QED BY <3>1, <3>2, <3>3
  <2>5. pc'.listen \in InLock.listen
    BY DEF IInv, TypeOK, ListenAcquire, InLock
  <2>6. \A k \in 1..Len(endpoints') :
          \/ times'[k] = heard'[endpoints'[k]].sec
          \/ endpoints'[k] = recv_buf'.ep /\ times'[k] <= currenttime'
    BY <2>1, <2>2, <2>3, <2>4
  <2>7. ASSUME NEW e \in Sender
        PROVE  \/ heard'[e].sec < clock'.sec
               \/ heard'[e].sec = clock'.sec /\ heard'[e].tick <= clock'.tick
    <3>1. CASE e = recv_buf.ep
      BY <2>1, <2>2, <2>3, <3>1
    <3>2. CASE e # recv_buf.ep
      <4>1. heard'[e] = heard[e]
        BY <2>3, <3>2
      <4>2. \/ heard[e].sec < clock.sec
            \/ heard[e].sec = clock.sec /\ heard[e].tick <= clock.tick
        BY DEF IInv, TimesInv
      <4> QED BY <2>2, <4>1, <4>2
    <3> QED BY <3>1, <3>2
  <2>8. heard'[recv_buf'.ep].sec = currenttime' /\ currenttime' <= clock'.sec
    BY <2>1, <2>2, <2>3
  <2> QED BY <2>5, <2>6, <2>7, <2>8 DEF TimesInv
<1>6. SweepLeavesNoneBehind'
  <2>1. pc'.expire # "scan"
    BY DEF IInv, LockInv, InLock, TypeOK, ListenAcquire, Free
  <2> QED BY <2>1 DEF SweepLeavesNoneBehind
<1> QED BY <1>1, <1>2, <1>3, <1>4, <1>5, <1>6 DEF IInv

(* The index listen found holds the address it looked for.                 *)
LEMMA ListenKnownIInv ==
  ASSUME IInv, ListenKnown
  PROVE  IInv'
<1> USE DEF table, listenVars, mixVars, sendVars, Goto, Acquire, Release
<1>a. PICK k \in 1..Len(endpoints) : Found(k) /\ bufnum' = k
  BY DEF ListenKnown
<1>1. TypeOK'
  <2>1. bufnum' \in Nat \ {0}
    BY <1>a DEF IInv, TypeOK
  <2> QED BY <2>1 DEF IInv, TypeOK, ListenKnown
<1>2. LockInv'
  BY DEF IInv, ListenKnown, LockInv, InLock
<1>3. HandInv' /\ TableAligned' /\ UnsetConfined'
  BY DEF IInv, ListenKnown, HandInv, TableAligned, UnsetConfined
<1>4. WriteHitsSender'
  BY <1>a DEF Found, ListenKnown, WriteHitsSender
<1>5. MixInv' /\ PicturesClean' /\ SweepLeavesNoneBehind'
  BY DEF IInv, ListenKnown, MixInv, PicturesClean, SweepLeavesNoneBehind
<1>6. TimesInv'
  BY DEF IInv, ListenKnown, TimesInv, InLock
<1> QED BY <1>1, <1>2, <1>3, <1>4, <1>5, <1>6 DEF IInv

(* push_back on all three vectors of an address that was not there.        *)
LEMMA ListenNewIInv ==
  ASSUME IInv, ListenNew
  PROVE  IInv'
<1> USE DEF table, listenVars, mixVars, sendVars, Goto, Acquire, Release
<1>a. /\ recv_buf.ep \in Sender /\ Len(endpoints) \in Nat
      /\ buffers \in Seq(Frame \union {Unset})
      /\ endpoints \in Seq(Sender) /\ times \in Seq(Nat) /\ currenttime \in Nat
      /\ Len(buffers) = Len(endpoints) /\ Len(times) = Len(endpoints)
  BY DEF IInv, TypeOK, TableAligned
<1>b. /\ buffers' = Append(buffers, Unset)
      /\ endpoints' = Append(endpoints, recv_buf.ep)
      /\ times' = Append(times, currenttime)
      /\ bufnum' = Len(endpoints) + 1
  BY <1>a DEF ListenNew
<1>c. /\ buffers' \in Seq(Frame \union {Unset})
      /\ Len(buffers') = Len(endpoints) + 1
      /\ \A k \in 1..Len(endpoints) : buffers'[k] = buffers[k]
  BY <1>a, <1>b, AppendEntries
<1>d. /\ endpoints' \in Seq(Sender)
      /\ Len(endpoints') = Len(endpoints) + 1
      /\ \A k \in 1..Len(endpoints) : endpoints'[k] = endpoints[k]
      /\ endpoints'[Len(endpoints) + 1] = recv_buf.ep
  BY <1>a, <1>b, AppendEntries
<1>e. /\ times' \in Seq(Nat)
      /\ Len(times') = Len(endpoints) + 1
      /\ \A k \in 1..Len(endpoints) : times'[k] = times[k]
      /\ times'[Len(endpoints) + 1] = currenttime
  BY <1>a, <1>b, AppendEntries
<1>1. TypeOK'
  <2>1. bufnum' \in Nat \ {0}
    BY <1>a, <1>b
  <2> QED BY <1>c, <1>d, <1>e, <2>1 DEF IInv, TypeOK, ListenNew
<1>2. LockInv'
  BY DEF IInv, ListenNew, LockInv, InLock
<1>3. HandInv'
  BY DEF IInv, ListenNew, HandInv
<1>4. TableAligned'
  <2>1. Len(endpoints') <= NUMBUFS
    BY LimitsAssumption, <1>a, <1>d DEF ListenNew, HasRoom
  <2>2. ASSUME NEW j \in 1..Len(endpoints'), NEW k \in 1..Len(endpoints'), j # k
        PROVE  endpoints'[j] # endpoints'[k]
    <3>1. \A m \in 1..Len(endpoints) : endpoints[m] # recv_buf.ep
      BY DEF ListenNew, Known
    <3>2. CASE j \in 1..Len(endpoints) /\ k \in 1..Len(endpoints)
      BY <1>d, <2>2, <3>2 DEF IInv, TableAligned
    <3>3. CASE j = Len(endpoints) + 1
      <4>1. k \in 1..Len(endpoints)
        BY <1>a, <1>d, <2>2, <3>3
      <4> QED BY <1>d, <3>1, <3>3, <4>1
    <3>4. CASE k = Len(endpoints) + 1
      <4>1. j \in 1..Len(endpoints)
        BY <1>a, <1>d, <2>2, <3>4
      <4> QED BY <1>d, <3>1, <3>4, <4>1
    <3>5. \/ j \in 1..Len(endpoints) /\ k \in 1..Len(endpoints)
          \/ j = Len(endpoints) + 1 \/ k = Len(endpoints) + 1
      BY <1>a, <1>d
    <3> QED BY <3>2, <3>3, <3>4, <3>5
  <2> QED BY <1>c, <1>d, <1>e, <2>1, <2>2 DEF TableAligned
<1>5. WriteHitsSender'
  BY <1>a, <1>b, <1>d DEF ListenNew, WriteHitsSender
<1>6. UnsetConfined'
  BY <1>a, <1>b, <1>c DEF ListenNew, Goto, IInv, TypeOK, UnsetConfined
<1>7. MixInv' /\ PicturesClean' /\ SweepLeavesNoneBehind'
  BY DEF IInv, ListenNew, MixInv, LockInv, InLock, PicturesClean,
     SweepLeavesNoneBehind
<1>8. TimesInv'
  <2>1. /\ pc.listen = "search" /\ pc'.listen = "store"
        /\ UNCHANGED <<clock, heard, currenttime, recv_buf>>
    BY DEF IInv, TypeOK, ListenNew
  <2>2. heard[recv_buf.ep].sec = currenttime
    BY <2>1 DEF IInv, TimesInv, InLock
  <2>3. ASSUME NEW k \in 1..Len(endpoints')
        PROVE  \/ times'[k] = heard'[endpoints'[k]].sec
               \/ endpoints'[k] = recv_buf'.ep /\ times'[k] <= currenttime'
    <3>1. CASE k \in 1..Len(endpoints)
      BY <1>d, <1>e, <2>1, <3>1 DEF IInv, TimesInv
    <3>2. CASE k = Len(endpoints) + 1
      BY <1>d, <1>e, <2>1, <2>2, <3>2
    <3> QED BY <1>a, <1>d, <3>1, <3>2
  <2> QED BY <2>1, <2>2, <2>3 DEF IInv, TimesInv, InLock
<1> QED BY <1>1, <1>2, <1>3, <1>4, <1>5, <1>6, <1>7, <1>8 DEF IInv

(* A refused datagram leaves the table alone.                              *)
LEMMA ListenRefuseIInv ==
  ASSUME IInv, ListenRefuse
  PROVE  IInv'
<1> USE DEF table, listenVars, mixVars, sendVars, Goto, Acquire, Release
<1>1. TypeOK'
  BY DEF IInv, TypeOK, ListenRefuse
<1>2. LockInv'
  BY DEF IInv, TypeOK, ListenRefuse, LockInv, InLock, Free
<1>3. HandInv' /\ TableAligned' /\ WriteHitsSender' /\ UnsetConfined'
  BY DEF IInv, ListenRefuse, HandInv, TableAligned, WriteHitsSender, UnsetConfined
<1>4. MixInv' /\ PicturesClean' /\ SweepLeavesNoneBehind'
  BY DEF IInv, ListenRefuse, MixInv, PicturesClean, SweepLeavesNoneBehind
<1>5. TimesInv'
  <2>1. /\ pc.listen = "search" /\ pc'.listen = "receive"
        /\ UNCHANGED <<clock, heard, currenttime, recv_buf, times, endpoints>>
    BY DEF IInv, TypeOK, ListenRefuse
  <2>2. \A k \in 1..Len(endpoints) : endpoints[k] # recv_buf.ep
    BY DEF ListenRefuse, Known
  <2> QED BY <2>1, <2>2 DEF IInv, TimesInv, InLock
<1> QED BY <1>1, <1>2, <1>3, <1>4, <1>5 DEF IInv

(* The frame and the time go to the entry of the sender; nothing stays unset.*)
LEMMA ListenStoreIInv ==
  ASSUME IInv, ListenStore
  PROVE  IInv'
<1> USE DEF table, listenVars, mixVars, sendVars, Goto, Acquire, Release
<1>a. /\ bufnum \in 1..Len(endpoints) /\ endpoints[bufnum] = recv_buf.ep
      /\ recv_buf.frame \in Frame /\ currenttime \in Nat
      /\ buffers \in Seq(Frame \union {Unset}) /\ times \in Seq(Nat)
      /\ Len(buffers) = Len(endpoints) /\ Len(times) = Len(endpoints)
      /\ Len(endpoints) \in Nat
  BY DEF IInv, TypeOK, TableAligned, WriteHitsSender, HandInv, ListenStore
<1>b. /\ buffers' = [buffers EXCEPT ![bufnum] = recv_buf.frame]
      /\ times' = [times EXCEPT ![bufnum] = currenttime]
      /\ endpoints' = endpoints
  BY <1>a DEF ListenStore, Stored
<1>c. /\ buffers' \in Seq(Frame \union {Unset})
      /\ Len(buffers') = Len(endpoints)
      /\ \A k \in 1..Len(endpoints) :
           buffers'[k] = IF k = bufnum THEN recv_buf.frame ELSE buffers[k]
  BY <1>a, <1>b, ExceptEntries
<1>d. /\ times' \in Seq(Nat)
      /\ Len(times') = Len(endpoints)
      /\ \A k \in 1..Len(endpoints) :
           times'[k] = IF k = bufnum THEN currenttime ELSE times[k]
  BY <1>a, <1>b, ExceptEntries
<1>e. pc'.listen \in {"dead", "receive"}
  BY DEF IInv, TypeOK, ListenStore
<1>1. TypeOK'
  <2>1. pc' \in [listen  : {"receive", "lock", "search", "store", "dead"},
                 mix     : {"start", "zero", "blend"},
                 send    : {"start", "copy", "udp", "tcp"},
                 expire  : {"start", "scan"},
                 console : {"start", "print"}]
    BY DEF IInv, TypeOK, ListenStore
  <2> QED BY <1>b, <1>c, <1>d, <2>1 DEF IInv, TypeOK, ListenStore
<1>2. LockInv'
  BY DEF IInv, TypeOK, ListenStore, LockInv, InLock, Free
<1>3. HandInv' /\ WriteHitsSender'
  BY DEF IInv, ListenStore, HandInv, TypeOK, WriteHitsSender
<1>4. TableAligned'
  BY <1>b, <1>c, <1>d DEF IInv, TableAligned
<1>5. UnsetConfined'
  BY FramesAssumption, <1>a, <1>c DEF IInv, UnsetConfined, ListenStore
<1>6. MixInv' /\ PicturesClean' /\ SweepLeavesNoneBehind'
  BY DEF IInv, ListenStore, MixInv, LockInv, InLock, PicturesClean,
     SweepLeavesNoneBehind
<1>7. TimesInv'
  <2>1. /\ pc.listen = "store"
        /\ UNCHANGED <<clock, heard, currenttime, recv_buf, endpoints>>
    BY <1>b DEF ListenStore
  <2>2. heard[recv_buf.ep].sec = currenttime
    BY <2>1 DEF IInv, TimesInv, InLock
  <2>3. ASSUME NEW k \in 1..Len(endpoints)
        PROVE  times'[k] = heard[endpoints[k]].sec
    <3>1. CASE k = bufnum
      BY <1>a, <1>d, <2>2, <3>1
    <3>2. CASE k # bufnum
      <4>1. endpoints[k] # recv_buf.ep
        BY <1>a, <3>2 DEF IInv, TableAligned
      <4> QED BY <1>d, <3>2, <4>1 DEF IInv, TimesInv
    <3> QED BY <3>1, <3>2
  <2> QED BY <1>e, <2>1, <2>3 DEF IInv, TimesInv, InLock
<1> QED BY <1>1, <1>2, <1>3, <1>4, <1>5, <1>6, <1>7 DEF IInv

(* mix takes the lock and counts the buffers.                              *)
LEMMA MixAcquireIInv ==
  ASSUME IInv, MixAcquire
  PROVE  IInv'
<1> USE DEF table, listenVars, mixVars, sendVars, Goto, Acquire, Release
<1>1. TypeOK'
  <2>1. size' \in Nat
    BY DEF IInv, TypeOK, MixAcquire
  <2> QED BY <2>1 DEF IInv, TypeOK, MixAcquire, Thread
<1>2. LockInv'
  BY DEF IInv, TypeOK, MixAcquire, LockInv, InLock, Free
<1>3. HandInv' /\ TableAligned' /\ WriteHitsSender' /\ UnsetConfined'
  BY DEF IInv, MixAcquire, HandInv, TableAligned, WriteHitsSender, UnsetConfined
<1>4. MixInv' /\ PicturesClean' /\ SweepLeavesNoneBehind'
  BY DEF IInv, MixAcquire, MixInv, PicturesClean, SweepLeavesNoneBehind
<1>5. TimesInv'
  BY DEF IInv, MixAcquire, TimesInv
<1> QED BY <1>1, <1>2, <1>3, <1>4, <1>5 DEF IInv

(* The frame is emptied before the first buffer.                           *)
LEMMA MixZeroIInv ==
  ASSUME IInv, MixZero
  PROVE  IInv'
<1> USE DEF table, listenVars, mixVars, sendVars, Goto, Acquire, Release
<1>1. TypeOK'
  <2>1. frame' \in Seq(Layer) /\ x' \in Nat \ {0}
    BY EmptySeq DEF MixZero, Zeroed
  <2> QED BY <2>1 DEF IInv, TypeOK, MixZero
<1>2. LockInv'
  BY DEF IInv, MixZero, LockInv, InLock
<1>3. HandInv' /\ TableAligned' /\ WriteHitsSender' /\ UnsetConfined'
  BY DEF IInv, MixZero, HandInv, TableAligned, WriteHitsSender, UnsetConfined
<1>4. MixInv'
  <2>1. size' = Len(buffers') /\ Len(buffers) \in Nat
    BY DEF IInv, TypeOK, MixInv, InLock, MixZero
  <2>2. x' = 1 /\ frame' = << >>
    BY DEF MixZero, Zeroed
  <2> QED BY <2>1, <2>2, EmptySeq DEF MixInv
<1>5. PicturesClean'
  <2>1. frame' = << >> /\ UNCHANGED <<data, sent>>
    BY DEF MixZero, Zeroed
  <2>2. \A k \in 1..Len(frame') : frame'[k] # Unset
    BY <2>1, EmptySeq
  <2> QED BY <2>1, <2>2 DEF IInv, PicturesClean
<1>6. TimesInv'
  BY DEF IInv, MixZero, TimesInv
<1>7. SweepLeavesNoneBehind'
  BY DEF IInv, MixZero, SweepLeavesNoneBehind
<1> QED BY <1>1, <1>2, <1>3, <1>4, <1>5, <1>6, <1>7 DEF IInv

(* One more buffer is painted; it has been set, as listen is not in its block.*)
LEMMA MixBlendIInv ==
  ASSUME IInv, MixBlend
  PROVE  IInv'
<1> USE DEF table, listenVars, mixVars, sendVars, Goto, Acquire, Release
<1>a. /\ x \in 1..Len(buffers) /\ frame \in Seq(Layer) /\ Len(frame) = x - 1
      /\ buffers \in Seq(Frame \union {Unset})
  BY DEF IInv, TypeOK, MixInv, InLock, MixBlend, More
<1>b. buffers[x] \in Frame
  <2>1. pc.listen # "store"
    BY DEF IInv, LockInv, InLock, MixBlend
  <2> QED BY <1>a, <2>1 DEF IInv, UnsetConfined
<1>c. /\ frame' \in Seq(Layer)
      /\ Len(frame') = x
      /\ \A k \in 1..(x - 1) : frame'[k] = frame[k]
      /\ frame'[x] = buffers[x]
  <2>1. frame' = Append(frame, buffers[x]) /\ buffers[x] \in Layer
    BY <1>b DEF MixBlend, Layer
  <2>2. Len(frame) + 1 = x
    BY <1>a
  <2> QED BY <1>a, <2>1, <2>2, AppendEntries
<1>1. TypeOK'
  <2>1. x' \in Nat \ {0}
    BY DEF IInv, TypeOK, MixBlend
  <2> QED BY <1>c, <2>1 DEF IInv, TypeOK, MixBlend
<1>2. LockInv'
  BY DEF IInv, MixBlend, LockInv
<1>3. HandInv' /\ TableAligned' /\ WriteHitsSender' /\ UnsetConfined'
  BY DEF IInv, MixBlend, HandInv, TableAligned, WriteHitsSender, UnsetConfined
<1>4. MixInv'
  <2>1. /\ x' = x + 1 /\ x <= size
        /\ UNCHANGED <<pc, buffers, size>> /\ pc.mix = "blend"
    BY DEF MixBlend, More
  <2>2. size = Len(buffers) /\ \A k \in 1..(x - 1) : frame[k] = buffers[k]
    BY <2>1 DEF IInv, MixInv, InLock
  <2>3. \A k \in 1..x : frame'[k] = buffers[k]
    BY <1>a, <1>c, <2>2
  <2>4. (x + 1) - 1 = x /\ x + 1 <= size + 1
    BY <1>a, <2>1, <2>2
  <2> QED BY <1>c, <2>1, <2>2, <2>3, <2>4 DEF MixInv
<1>5. PicturesClean'
  <2>1. \A k \in 1..Len(frame') : frame'[k] # Unset
    BY FramesAssumption, <1>a, <1>b, <1>c DEF IInv, PicturesClean
  <2> QED BY <2>1 DEF IInv, PicturesClean, MixBlend
<1>6. TimesInv'
  BY DEF IInv, MixBlend, TimesInv
<1>7. SweepLeavesNoneBehind'
  BY DEF IInv, MixBlend, SweepLeavesNoneBehind
<1> QED BY <1>1, <1>2, <1>3, <1>4, <1>5, <1>6, <1>7 DEF IInv

(* mix leaves its block.                                                   *)
LEMMA MixDoneIInv ==
  ASSUME IInv, MixDone
  PROVE  IInv'
<1> USE DEF table, listenVars, mixVars, sendVars, Goto, Acquire, Release
<1>1. TypeOK'
  BY DEF IInv, TypeOK, MixDone
<1>2. LockInv'
  BY DEF IInv, TypeOK, MixDone, LockInv, InLock, Free
<1>3. HandInv' /\ TableAligned' /\ WriteHitsSender' /\ UnsetConfined'
  BY DEF IInv, MixDone, HandInv, TableAligned, WriteHitsSender, UnsetConfined
<1>4. MixInv' /\ PicturesClean' /\ SweepLeavesNoneBehind'
  BY DEF IInv, MixDone, MixInv, InLock, PicturesClean, SweepLeavesNoneBehind
<1>5. TimesInv'
  BY DEF IInv, MixDone, TimesInv
<1> QED BY <1>1, <1>2, <1>3, <1>4, <1>5 DEF IInv

(* send takes the lock.                                                    *)
LEMMA SendAcquireIInv ==
  ASSUME IInv, SendAcquire
  PROVE  IInv'
<1> USE DEF table, listenVars, mixVars, sendVars, Goto, Acquire, Release
<1>1. TypeOK'
  BY DEF IInv, TypeOK, SendAcquire, Thread
<1>2. LockInv'
  BY DEF IInv, TypeOK, SendAcquire, LockInv, InLock, Free
<1>3. HandInv' /\ TableAligned' /\ WriteHitsSender' /\ UnsetConfined'
  BY DEF IInv, SendAcquire, HandInv, TableAligned, WriteHitsSender, UnsetConfined
<1>4. MixInv' /\ PicturesClean' /\ SweepLeavesNoneBehind'
  BY DEF IInv, SendAcquire, MixInv, PicturesClean, SweepLeavesNoneBehind
<1>5. TimesInv'
  BY DEF IInv, SendAcquire, TimesInv
<1> QED BY <1>1, <1>2, <1>3, <1>4, <1>5 DEF IInv

(* send copies a frame without unset layers.                               *)
LEMMA SendCopyIInv ==
  ASSUME IInv, SendCopy
  PROVE  IInv'
<1> USE DEF table, listenVars, mixVars, sendVars, Goto, Acquire, Release
<1>1. TypeOK'
  BY DEF IInv, TypeOK, SendCopy
<1>2. LockInv'
  BY DEF IInv, TypeOK, SendCopy, LockInv, InLock, Free
<1>3. HandInv' /\ TableAligned' /\ WriteHitsSender' /\ UnsetConfined'
  BY DEF IInv, SendCopy, HandInv, TableAligned, WriteHitsSender, UnsetConfined
<1>4. MixInv' /\ PicturesClean' /\ SweepLeavesNoneBehind'
  BY DEF IInv, SendCopy, MixInv, PicturesClean, SweepLeavesNoneBehind
<1>5. TimesInv'
  BY DEF IInv, SendCopy, TimesInv
<1> QED BY <1>1, <1>2, <1>3, <1>4, <1>5 DEF IInv

(* The copy goes out on UDP.                                               *)
LEMMA SendUdpIInv ==
  ASSUME IInv, SendUdp
  PROVE  IInv'
<1> USE DEF table, listenVars, mixVars, sendVars, Goto, Acquire, Release
<1>1. TypeOK'
  BY DEF IInv, TypeOK, SendUdp
<1>2. LockInv'
  BY DEF IInv, SendUdp, LockInv, InLock
<1>3. HandInv' /\ TableAligned' /\ WriteHitsSender' /\ UnsetConfined'
  BY DEF IInv, SendUdp, HandInv, TableAligned, WriteHitsSender, UnsetConfined
<1>4. MixInv' /\ PicturesClean' /\ SweepLeavesNoneBehind'
  BY DEF IInv, SendUdp, MixInv, PicturesClean, SweepLeavesNoneBehind
<1>5. TimesInv'
  BY DEF IInv, SendUdp, TimesInv
<1> QED BY <1>1, <1>2, <1>3, <1>4, <1>5 DEF IInv

(* The UDP send throws.                                                    *)
LEMMA SendUdpFailsIInv ==
  ASSUME IInv, SendUdpFails
  PROVE  IInv'
<1> USE DEF table, listenVars, mixVars, sendVars, Goto, Acquire, Release
<1>1. TypeOK'
  BY DEF IInv, TypeOK, SendUdpFails
<1>2. LockInv'
  BY DEF IInv, SendUdpFails, LockInv, InLock
<1>3. HandInv' /\ TableAligned' /\ WriteHitsSender' /\ UnsetConfined'
  BY DEF IInv, SendUdpFails, HandInv, TableAligned, WriteHitsSender, UnsetConfined
<1>4. MixInv' /\ PicturesClean' /\ SweepLeavesNoneBehind'
  BY DEF IInv, SendUdpFails, MixInv, PicturesClean, SweepLeavesNoneBehind
<1>5. TimesInv'
  BY DEF IInv, SendUdpFails, TimesInv
<1> QED BY <1>1, <1>2, <1>3, <1>4, <1>5 DEF IInv

(* The copy goes out on TCP, or not.                                       *)
LEMMA SendTcpIInv ==
  ASSUME IInv, SendTcp
  PROVE  IInv'
<1> USE DEF table, listenVars, mixVars, sendVars, Goto, Acquire, Release
<1>1. TypeOK'
  BY DEF IInv, TypeOK, SendTcp
<1>2. LockInv'
  BY DEF IInv, SendTcp, LockInv, InLock
<1>3. HandInv' /\ TableAligned' /\ WriteHitsSender' /\ UnsetConfined'
  BY DEF IInv, SendTcp, HandInv, TableAligned, WriteHitsSender, UnsetConfined
<1>4. MixInv' /\ PicturesClean' /\ SweepLeavesNoneBehind'
  BY DEF IInv, SendTcp, MixInv, PicturesClean, SweepLeavesNoneBehind
<1>5. TimesInv'
  BY DEF IInv, SendTcp, TimesInv
<1> QED BY <1>1, <1>2, <1>3, <1>4, <1>5 DEF IInv

(* expire takes the lock, so listen is not between time() and the store.   *)
LEMMA ExpireAcquireIInv ==
  ASSUME IInv, ExpireAcquire
  PROVE  IInv'
<1> USE DEF table, listenVars, mixVars, sendVars, Goto, Acquire, Release
<1>1. TypeOK'
  <2>1. currenttime' \in Nat /\ i' \in Nat \ {0}
    BY DEF IInv, TypeOK, Time, ExpireAcquire, ReadTime
  <2> QED BY <2>1 DEF IInv, TypeOK, ExpireAcquire, Thread
<1>2. LockInv'
  BY DEF IInv, TypeOK, ExpireAcquire, LockInv, InLock, Free
<1>3. HandInv' /\ TableAligned' /\ WriteHitsSender' /\ UnsetConfined'
  BY DEF IInv, ExpireAcquire, HandInv, TableAligned, WriteHitsSender, UnsetConfined
<1>4. MixInv' /\ PicturesClean' /\ SweepLeavesNoneBehind'
  BY DEF IInv, ExpireAcquire, MixInv, PicturesClean, SweepLeavesNoneBehind
<1>5. TimesInv'
  <2>1. pc.listen \notin InLock.listen /\ pc'.listen = pc.listen
    BY DEF IInv, TypeOK, LockInv, ExpireAcquire, Free
  <2>2. currenttime' <= clock'.sec
    BY DEF IInv, TypeOK, Time, ExpireAcquire, ReadTime
  <2> QED BY <2>1, <2>2 DEF IInv, TimesInv, ExpireAcquire
<1> QED BY <1>1, <1>2, <1>3, <1>4, <1>5 DEF IInv

(* erase on all three vectors keeps them aligned and the sweep complete.   *)
LEMMA ExpireEraseIInv ==
  ASSUME IInv, ExpireErase
  PROVE  IInv'
<1> USE DEF table, listenVars, mixVars, sendVars, Goto, Acquire, Release
<1>a. /\ i \in 1..Len(endpoints) /\ Len(endpoints) \in Nat
      /\ buffers \in Seq(Frame \union {Unset})
      /\ endpoints \in Seq(Sender) /\ times \in Seq(Nat)
      /\ Len(buffers) = Len(endpoints) /\ Len(times) = Len(endpoints)
  BY DEF IInv, TypeOK, TableAligned, ExpireErase
<1>b. /\ buffers' = RemoveAt(buffers, i)
      /\ endpoints' = RemoveAt(endpoints, i)
      /\ times' = RemoveAt(times, i)
      /\ i' = i
  BY DEF ExpireErase, Erase, AfterErase
<1>c. /\ buffers' \in Seq(Frame \union {Unset})
      /\ Len(buffers') = Len(endpoints) - 1
      /\ \A k \in 1..(Len(endpoints) - 1) :
           buffers'[k] = IF k < i THEN buffers[k] ELSE buffers[k + 1]
  <2>1. i \in 1..Len(buffers)
    BY <1>a
  <2> QED BY <1>a, <1>b, <2>1, RemoveAtEntries
<1>d. /\ endpoints' \in Seq(Sender)
      /\ Len(endpoints') = Len(endpoints) - 1
      /\ \A k \in 1..(Len(endpoints) - 1) :
           endpoints'[k] = IF k < i THEN endpoints[k] ELSE endpoints[k + 1]
  BY <1>a, <1>b, RemoveAtEntries
<1>e. /\ times' \in Seq(Nat)
      /\ Len(times') = Len(endpoints) - 1
      /\ \A k \in 1..(Len(endpoints) - 1) :
           times'[k] = IF k < i THEN times[k] ELSE times[k + 1]
  <2>1. i \in 1..Len(times)
    BY <1>a
  <2> QED BY <1>a, <1>b, <2>1, RemoveAtEntries
<1>f. pc.listen \notin InLock.listen
  BY DEF IInv, LockInv, InLock, ExpireErase
<1>1. TypeOK'
  BY <1>b, <1>c, <1>d, <1>e DEF IInv, TypeOK, ExpireErase
<1>2. LockInv'
  BY DEF IInv, ExpireErase, LockInv
<1>3. HandInv' /\ WriteHitsSender'
  BY DEF IInv, ExpireErase, HandInv, WriteHitsSender, LockInv, InLock
<1>4. TableAligned'
  <2>1. \A j, k \in 1..Len(endpoints) : j # k => endpoints[j] # endpoints[k]
    BY DEF IInv, TableAligned
  <2>2. ASSUME NEW j \in 1..(Len(endpoints) - 1), NEW k \in 1..(Len(endpoints) - 1), j # k
        PROVE  endpoints'[j] # endpoints'[k]
    <3>1. PICK l \in 1..Len(endpoints) :
            endpoints'[j] = endpoints[l] /\ l = IF j < i THEN j ELSE j + 1
      BY <1>a, <1>d
    <3>2. PICK m \in 1..Len(endpoints) :
            endpoints'[k] = endpoints[m] /\ m = IF k < i THEN k ELSE k + 1
      BY <1>a, <1>d
    <3>3. l # m
      BY <1>a, <2>2, <3>1, <3>2
    <3> QED BY <2>1, <3>1, <3>2, <3>3
  <2>3. Len(endpoints') <= NUMBUFS
    BY LimitsAssumption, <1>a, <1>d DEF IInv, TableAligned
  <2> QED BY <1>c, <1>d, <1>e, <2>2, <2>3 DEF TableAligned
<1>5. UnsetConfined'
  <2>1. \A k \in 1..Len(buffers) : buffers[k] # Unset
    BY <1>f DEF IInv, UnsetConfined, InLock
  <2>2. ASSUME NEW k \in 1..Len(buffers')
        PROVE  buffers'[k] # Unset
    <3>1. /\ k \in 1..(Len(endpoints) - 1)
          /\ k \in 1..Len(buffers) /\ k + 1 \in 1..Len(buffers)
      BY <1>a, <1>c
    <3> QED BY <1>c, <2>1, <3>1
  <2> QED BY <2>2 DEF UnsetConfined
<1>6. MixInv' /\ PicturesClean'
  BY DEF IInv, ExpireErase, MixInv, LockInv, InLock, PicturesClean
<1>7. TimesInv'
  <2>1. \A k \in 1..Len(endpoints) : times[k] = heard[endpoints[k]].sec
    BY <1>f DEF IInv, TimesInv
  <2>2. ASSUME NEW k \in 1..Len(endpoints')
        PROVE  times'[k] = heard[endpoints'[k]].sec
    <3>1. /\ k \in 1..(Len(endpoints) - 1)
          /\ k \in 1..Len(endpoints) /\ k + 1 \in 1..Len(endpoints)
      BY <1>a, <1>d
    <3> QED BY <1>d, <1>e, <2>1, <3>1
  <2> QED BY <1>f, <2>2 DEF IInv, TimesInv, ExpireErase
<1>8. SweepLeavesNoneBehind'
  <2>1. \A k \in 1..Len(times) : k < i => currenttime - times[k] <= BUFTIMEOUT
    BY DEF IInv, SweepLeavesNoneBehind, ExpireErase
  <2>2. ASSUME NEW k \in 1..Len(times'), k < i
        PROVE  currenttime - times'[k] <= BUFTIMEOUT
    <3>1. k \in 1..(Len(endpoints) - 1)
      BY <1>e
    <3>2. k \in 1..Len(times)
      BY <1>a, <3>1
    <3>3. times'[k] = times[k]
      BY <1>e, <2>2, <3>1
    <3> QED BY <2>1, <2>2, <3>2, <3>3
  <2> QED BY <1>b, <2>2 DEF SweepLeavesNoneBehind, ExpireErase
<1> QED BY <1>1, <1>2, <1>3, <1>4, <1>5, <1>6, <1>7, <1>8 DEF IInv

(* A fresh source is passed.                                               *)
LEMMA ExpireKeepIInv ==
  ASSUME IInv, ExpireKeep
  PROVE  IInv'
<1> USE DEF table, listenVars, mixVars, sendVars, Goto, Acquire, Release
<1>1. TypeOK'
  BY DEF IInv, TypeOK, ExpireKeep
<1>2. LockInv'
  BY DEF IInv, ExpireKeep, LockInv
<1>3. HandInv' /\ TableAligned' /\ WriteHitsSender' /\ UnsetConfined'
  BY DEF IInv, ExpireKeep, HandInv, TableAligned, WriteHitsSender, UnsetConfined
<1>4. MixInv' /\ PicturesClean'
  BY DEF IInv, ExpireKeep, MixInv, PicturesClean
<1>5. TimesInv'
  BY DEF IInv, ExpireKeep, TimesInv
<1>6. SweepLeavesNoneBehind'
  <2>1. /\ times \in Seq(Nat) /\ i \in Nat /\ currenttime \in Nat
        /\ i' = i + 1 /\ UNCHANGED <<times, currenttime>>
    BY DEF IInv, TypeOK, ExpireKeep
  <2>2. i \in 1..Len(times) => currenttime - times[i] <= BUFTIMEOUT
    BY <2>1, LimitsAssumption DEF ExpireKeep, Silent
  <2>3. \A k \in 1..Len(times) : k < i => currenttime - times[k] <= BUFTIMEOUT
    BY DEF IInv, SweepLeavesNoneBehind, ExpireKeep
  <2>4. \A k \in 1..Len(times) : k < i + 1 => k < i \/ k = i
    BY <2>1
  <2> QED BY <2>1, <2>2, <2>3, <2>4 DEF SweepLeavesNoneBehind
<1> QED BY <1>1, <1>2, <1>3, <1>4, <1>5, <1>6 DEF IInv

(* The sweep ends.                                                         *)
LEMMA ExpireDoneIInv ==
  ASSUME IInv, ExpireDone
  PROVE  IInv'
<1> USE DEF table, listenVars, mixVars, sendVars, Goto, Acquire, Release
<1>1. TypeOK'
  BY DEF IInv, TypeOK, ExpireDone
<1>2. LockInv'
  BY DEF IInv, TypeOK, ExpireDone, LockInv, InLock, Free
<1>3. HandInv' /\ TableAligned' /\ WriteHitsSender' /\ UnsetConfined'
  BY DEF IInv, ExpireDone, HandInv, TableAligned, WriteHitsSender, UnsetConfined
<1>4. MixInv' /\ PicturesClean' /\ SweepLeavesNoneBehind'
  BY DEF IInv, ExpireDone, MixInv, PicturesClean, SweepLeavesNoneBehind
<1>5. TimesInv'
  BY DEF IInv, ExpireDone, TimesInv
<1> QED BY <1>1, <1>2, <1>3, <1>4, <1>5 DEF IInv

(* console takes the lock.                                                 *)
LEMMA ConsoleAcquireIInv ==
  ASSUME IInv, ConsoleAcquire
  PROVE  IInv'
<1> USE DEF table, listenVars, mixVars, sendVars, Goto, Acquire, Release
<1>1. TypeOK'
  BY DEF IInv, TypeOK, ConsoleAcquire, Thread
<1>2. LockInv'
  BY DEF IInv, TypeOK, ConsoleAcquire, LockInv, InLock, Free
<1>3. HandInv' /\ TableAligned' /\ WriteHitsSender' /\ UnsetConfined'
  BY DEF IInv, ConsoleAcquire, HandInv, TableAligned, WriteHitsSender, UnsetConfined
<1>4. MixInv' /\ PicturesClean' /\ SweepLeavesNoneBehind'
  BY DEF IInv, ConsoleAcquire, MixInv, PicturesClean, SweepLeavesNoneBehind
<1>5. TimesInv'
  BY DEF IInv, ConsoleAcquire, TimesInv
<1> QED BY <1>1, <1>2, <1>3, <1>4, <1>5 DEF IInv

(* console leaves its block.                                               *)
LEMMA ConsolePrintIInv ==
  ASSUME IInv, ConsolePrint
  PROVE  IInv'
<1> USE DEF table, listenVars, mixVars, sendVars, Goto, Acquire, Release
<1>1. TypeOK'
  BY DEF IInv, TypeOK, ConsolePrint
<1>2. LockInv'
  BY DEF IInv, TypeOK, ConsolePrint, LockInv, InLock, Free
<1>3. HandInv' /\ TableAligned' /\ WriteHitsSender' /\ UnsetConfined'
  BY DEF IInv, ConsolePrint, HandInv, TableAligned, WriteHitsSender, UnsetConfined
<1>4. MixInv' /\ PicturesClean' /\ SweepLeavesNoneBehind'
  BY DEF IInv, ConsolePrint, MixInv, PicturesClean, SweepLeavesNoneBehind
<1>5. TimesInv'
  BY DEF IInv, ConsolePrint, TimesInv
<1> QED BY <1>1, <1>2, <1>3, <1>4, <1>5 DEF IInv

(* Time passes: nothing was heard in the future.                           *)
LEMMA TickIInv ==
  ASSUME IInv, Tick
  PROVE  IInv'
<1> USE DEF table, listenVars, mixVars, sendVars, Goto, Acquire, Release
<1>1. TypeOK'
  <2>1. clock.sec \in Nat /\ clock.tick \in 0..(TicksPerSecond - 1)
    BY DEF IInv, TypeOK, Time
  <2>2. clock' \in Time
    BY LimitsAssumption, <2>1 DEF Tick, Time
  <2> QED BY <2>2 DEF IInv, TypeOK, Tick
<1>2. LockInv'
  BY DEF IInv, Tick, LockInv
<1>3. HandInv' /\ TableAligned' /\ WriteHitsSender' /\ UnsetConfined'
  BY DEF IInv, Tick, HandInv, TableAligned, WriteHitsSender, UnsetConfined
<1>4. MixInv' /\ PicturesClean' /\ SweepLeavesNoneBehind'
  BY DEF IInv, Tick, MixInv, PicturesClean, SweepLeavesNoneBehind
<1>5. TimesInv'
  <2>1. /\ clock.sec \in Nat /\ clock.tick \in Int /\ currenttime \in Nat
        /\ heard \in [Sender -> Time]
        /\ UNCHANGED <<pc, recv_buf, endpoints, times, heard, currenttime>>
    BY DEF IInv, TypeOK, Time, Tick, table, listenVars
  <2>2. \/ clock'.sec = clock.sec + 1
        \/ clock'.sec = clock.sec /\ clock'.tick = clock.tick + 1
    BY DEF Tick
  <2>3. \A e \in Sender : heard[e].sec \in Nat /\ heard[e].tick \in Int
    BY <2>1 DEF Time
  <2>4. ASSUME NEW e \in Sender
        PROVE  \/ heard[e].sec < clock'.sec
               \/ heard[e].sec = clock'.sec /\ heard[e].tick <= clock'.tick
    <3>1. \/ heard[e].sec < clock.sec
          \/ heard[e].sec = clock.sec /\ heard[e].tick <= clock.tick
      BY DEF IInv, TimesInv
    <3> QED BY <2>1, <2>2, <2>3, <3>1
  <2>5. currenttime <= clock'.sec
    BY <2>1, <2>2 DEF IInv, TimesInv
  <2> QED BY <2>1, <2>4, <2>5 DEF IInv, TimesInv
<1> QED BY <1>1, <1>2, <1>3, <1>4, <1>5 DEF IInv

(* No step of any thread leaves the invariant.                             *)
LEMMA NextIInv == IInv /\ [Next]_vars => IInv'
<1> SUFFICES ASSUME IInv, [Next]_vars PROVE IInv'
  OBVIOUS
<1>1. CASE Listen
  BY <1>1, ReceiveIInv, ReceiveErrorIInv, ListenAcquireIInv, ListenKnownIInv,
     ListenNewIInv, ListenRefuseIInv, ListenStoreIInv DEF Listen
<1>2. CASE MixThread
  BY <1>2, MixAcquireIInv, MixZeroIInv, MixBlendIInv, MixDoneIInv DEF MixThread
<1>3. CASE SendThread
  BY <1>3, SendAcquireIInv, SendCopyIInv, SendUdpIInv, SendUdpFailsIInv, SendTcpIInv
     DEF SendThread
<1>4. CASE ExpireThread
  BY <1>4, ExpireAcquireIInv, ExpireEraseIInv, ExpireKeepIInv, ExpireDoneIInv
     DEF ExpireThread
<1>5. CASE ConsoleThread
  BY <1>5, ConsoleAcquireIInv, ConsolePrintIInv DEF ConsoleThread
<1>6. CASE Tick
  BY <1>6, TickIInv
<1>7. CASE UNCHANGED vars
  <2> USE <1>7 DEF vars, table, listenVars, mixVars, sendVars, IInv
  <2>1. TypeOK' /\ LockInv' /\ HandInv'
    BY DEF TypeOK, LockInv, HandInv
  <2>2. TableAligned' /\ WriteHitsSender' /\ UnsetConfined'
    BY DEF TableAligned, WriteHitsSender, UnsetConfined
  <2>3. MixInv' /\ PicturesClean'
    BY DEF MixInv, PicturesClean
  <2>4. TimesInv' /\ SweepLeavesNoneBehind'
    BY DEF TimesInv, SweepLeavesNoneBehind
  <2> QED BY <2>1, <2>2, <2>3, <2>4
<1> QED BY <1>1, <1>2, <1>3, <1>4, <1>5, <1>6, <1>7 DEF Next

(***************************************************************************)
(* The inductive invariant: at every moment the lock excludes, and what    *)
(* each thread has done inside its block is what its next line expects.    *)
(***************************************************************************)
THEOREM InductiveInvariant == Spec => []IInv
  BY InitIInv, NextIInv, PTL DEF Spec

(* Every variable keeps its type, every thread is at one of its points.    *)
THEOREM TypeCorrect == Spec => []TypeOK
  BY InductiveInvariant, PTL DEF IInv

(***************************************************************************)
(* buffers, endpoints and times never get out of step, hold no address     *)
(* twice and stay within NUMBUFS.                                          *)
(***************************************************************************)
THEOREM VectorsStayAligned == Spec => []TableAligned
  BY InductiveInvariant, PTL DEF IInv

(* listen never stores a frame in the entry of another source.             *)
THEOREM StoreGoesToSender == Spec => []WriteHitsSender
  BY InductiveInvariant, PTL DEF IInv

(* The uninitialised frame of a new Buffer is never mixed, copied or sent. *)
THEOREM UnsetIsNeverShown == Spec => []UnsetNeverShown
<1>1. IInv => UnsetNeverShown
  <2>1. SUFFICES ASSUME IInv, NEW p \in {frame, data, sent}
                 PROVE  Unset \notin Range(p)
    BY DEF UnsetNeverShown
  <2>2. p \in Seq(Layer) /\ \A k \in 1..Len(p) : p[k] # Unset
    BY <2>1 DEF IInv, TypeOK, PicturesClean
  <2> QED BY <2>2, LenProperties DEF Range
<1> QED BY <1>1, InductiveInvariant, PTL

(* The sweep of expire() steps over no source.                             *)
THEOREM SweepIsComplete == Spec => []SweepLeavesNoneBehind
  BY InductiveInvariant, PTL DEF IInv

(* Only two actions change which addresses there are.                      *)
LEMMA AddressesChange ==
  ASSUME [Next]_vars, endpoints' # endpoints
  PROVE  ListenNew \/ ExpireErase
  BY DEF Next, Listen, MixThread, SendThread, ExpireThread, ConsoleThread,
     Receive, ReceiveError, ListenAcquire, ListenKnown, ListenRefuse, ListenStore, Stored,
     MixAcquire, MixZero, MixBlend, MixDone, SendAcquire, SendCopy, SendUdp,
     SendUdpFails, SendTcp, ExpireAcquire, ExpireKeep, ExpireDone, ConsoleAcquire,
     ConsolePrint, Tick, vars, table

(* Only the erase of the entry at i removes an address, and only its own.  *)
LEMMA RemovedOnlyWhenOverdue ==
  ASSUME IInv, [Next]_vars, NEW e \in Sender, Listed(e), ~Listed(e)'
  PROVE  Overdue(heard[e])
<1>1. PICK k \in 1..Len(endpoints) : endpoints[k] = e
  BY DEF Listed
<1>2. \A j \in 1..Len(endpoints') : endpoints'[j] # e
  BY DEF Listed
<1>3. endpoints' # endpoints
  BY <1>1, <1>2
<1>4. ~ListenNew
  <2>1. SUFFICES ASSUME ListenNew PROVE FALSE
    OBVIOUS
  <2>2. recv_buf.ep \in Sender /\ endpoints \in Seq(Sender)
    BY DEF IInv, TypeOK
  <2>3. /\ Len(endpoints') = Len(endpoints) + 1
        /\ endpoints'[k] = endpoints[k]
    BY <2>1, <2>2, AppendEntries DEF ListenNew
  <2> QED BY <1>1, <1>2, <2>2, <2>3
<1>5. ExpireErase
  BY <1>3, <1>4, AddressesChange
<1>6. /\ endpoints \in Seq(Sender) /\ Len(endpoints) \in Nat
      /\ i \in 1..Len(endpoints)
      /\ endpoints' = RemoveAt(endpoints, i)
      /\ currenttime - times[i] > BUFTIMEOUT
  BY <1>5 DEF IInv, TypeOK, TableAligned, ExpireErase, Erase, Silent
<1>7. k = i
  <2>1. SUFFICES ASSUME k # i PROVE FALSE
    OBVIOUS
  <2>2. /\ Len(endpoints') = Len(endpoints) - 1
        /\ \A j \in 1..(Len(endpoints) - 1) :
             endpoints'[j] = IF j < i THEN endpoints[j] ELSE endpoints[j + 1]
    BY <1>6, RemoveAtEntries
  <2>3. CASE k < i
    BY <1>1, <1>2, <1>6, <2>2, <2>3
  <2>4. CASE k > i
    <3>1. k - 1 \in 1..(Len(endpoints) - 1) /\ ~(k - 1 < i) /\ (k - 1) + 1 = k
      BY <1>6, <2>4
    <3> QED BY <1>1, <1>2, <2>2, <3>1
  <2> QED BY <1>6, <2>1, <2>3, <2>4
<1>8. times[i] = heard[e].sec /\ currenttime <= clock.sec
  BY <1>1, <1>5, <1>6, <1>7 DEF IInv, LockInv, TimesInv, InLock, ExpireErase
<1>9. heard[e].sec \in Nat /\ clock.sec \in Nat /\ currenttime \in Nat
  BY DEF IInv, TypeOK, Time
<1> QED BY LimitsAssumption, <1>6, <1>8, <1>9 DEF Overdue

(***************************************************************************)
(* No source is dropped within BUFTIMEOUT seconds of its last accepted     *)
(* datagram, although all times are whole seconds.                         *)
(***************************************************************************)
THEOREM NoSourceExpiresEarly == Spec => NoEarlyExpiry
<1>1. IInv /\ [Next]_vars =>
        [\A e \in Sender : Listed(e) /\ ~Listed(e)' => Overdue(heard[e])]_vars
  BY RemovedOnlyWhenOverdue
<1> QED BY <1>1, InductiveInvariant, PTL DEF Spec, NoEarlyExpiry

(* Erasing closes the gap, a newcomer is not listed and goes on top.       *)
LEMMA OrderIsKept ==
  ASSUME IInv, [Next]_vars,
         NEW m \in 1..Len(endpoints'), NEW n \in 1..Len(endpoints'),
         m < n, Listed(endpoints'[n])
  PROVE  \E j, k \in 1..Len(endpoints) :
           j < k /\ endpoints[j] = endpoints'[m] /\ endpoints[k] = endpoints'[n]
<1>1. endpoints \in Seq(Sender) /\ recv_buf.ep \in Sender /\ Len(endpoints) \in Nat
  BY DEF IInv, TypeOK
<1>2. CASE endpoints' = endpoints
  BY <1>2
<1>3. CASE ListenNew
  <2>1. /\ Len(endpoints') = Len(endpoints) + 1
        /\ \A l \in 1..Len(endpoints) : endpoints'[l] = endpoints[l]
        /\ endpoints'[Len(endpoints) + 1] = recv_buf.ep
    BY <1>1, <1>3, AppendEntries DEF ListenNew
  <2>2. ~Listed(recv_buf.ep)
    BY <1>3 DEF ListenNew, Known, Listed
  <2>3. n # Len(endpoints) + 1
    BY <2>1, <2>2
  <2>4. m \in 1..Len(endpoints) /\ n \in 1..Len(endpoints)
    BY <1>1, <2>1, <2>3
  <2> QED BY <2>1, <2>4
<1>4. CASE ExpireErase
  <2>1. i \in 1..Len(endpoints) /\ endpoints' = RemoveAt(endpoints, i)
    BY <1>4 DEF IInv, TypeOK, TableAligned, ExpireErase, Erase
  <2>2. /\ Len(endpoints') = Len(endpoints) - 1
        /\ \A l \in 1..(Len(endpoints) - 1) :
             endpoints'[l] = IF l < i THEN endpoints[l] ELSE endpoints[l + 1]
    BY <1>1, <2>1, RemoveAtEntries
  <2> DEFINE was(l) == IF l < i THEN l ELSE l + 1
  <2>3. ASSUME NEW l \in 1..Len(endpoints')
        PROVE  was(l) \in 1..Len(endpoints) /\ endpoints'[l] = endpoints[was(l)]
    BY <1>1, <2>1, <2>2
  <2>4. was(m) < was(n)
    <3>1. m \in Int /\ n \in Int /\ i \in Int
      BY <1>1, <2>1, <2>2
    <3> QED BY <3>1
  <2> HIDE DEF was
  <2> QED BY <2>3, <2>4
<1> QED BY <1>2, <1>3, <1>4, AddressesChange

(***************************************************************************)
(* A client keeps its place above the same others for as long as it stays, *)
(* for any number of clients (lines 107-109, 602-608).                     *)
(***************************************************************************)
THEOREM OrderIsStable == Spec => StableOrder
<1>1. IInv /\ [Next]_vars =>
        [\A m, n \in 1..Len(endpoints') :
           m < n /\ Listed(endpoints'[n]) =>
             \E j, k \in 1..Len(endpoints) :
               j < k /\ endpoints[j] = endpoints'[m] /\ endpoints[k] = endpoints'[n]]_vars
  BY OrderIsKept
<1> QED BY <1>1, InductiveInvariant, PTL DEF Spec, StableOrder

-----------------------------------------------------------------------------
(* The refinement                                                          *)

(* Nothing is listed, so the abstract table is empty.                      *)
LEMMA InitRefines == Init => Abstract!Init
<1> SUFFICES ASSUME Init PROVE Abstract!Init
  OBVIOUS
<1>1. Sources = << >>
  <2>1. ~Joining
    BY DEF Init, Joining
  <2>2. Entries = << >>
    BY DEF Init, Entries
  <2> QED BY <2>1, <2>2 DEF Sources
<1>2. Picture = <<Blank>> /\ data = << >> /\ clock.sec = 0
  BY DEF Init, Picture, InLock
<1> QED BY <1>1, <1>2 DEF Abstract!Init

(* The abstract table only depends on the vectors and on listen.           *)
LEMMA SourcesStay ==
  ASSUME UNCHANGED <<table, recv_buf, currenttime>>, pc'.listen = pc.listen
  PROVE  Sources' = Sources
  BY DEF table, Sources, Joining, Entries, Entry, Arriving, Arrival, Known, HasRoom

(* Outside its block, listen does not show in the abstract table.          *)
LEMMA SourcesOutsideListen ==
  ASSUME ~Arriving
  PROVE  Sources = [k \in 1..Len(endpoints) |->
                      [ep |-> endpoints[k], frame |-> buffers[k], heard |-> times[k]]]
<1>1. ~Joining
  BY DEF Joining, Arriving, InLock
<1> QED BY <1>1 DEF Sources, Entries, Entry

(* The abstract picture is the frame, and mix is in no other's way.        *)
LEMMA PictureStays ==
  ASSUME UNCHANGED frame, pc'.mix = pc.mix,
         UNCHANGED buffers \/ pc.mix \notin InLock.mix
  PROVE  Picture' = Picture
  BY DEF Picture

(* With the lock, listen has as good as refreshed its source, joined or    *)
(* been refused.                                                           *)
LEMMA ListenAcquireRefines ==
  ASSUME IInv, ListenAcquire
  PROVE  Abstract!Next \/ UNCHANGED Abstract!vars
<1> DEFINE e == recv_buf.ep
           f == recv_buf.frame
           plain == [k \in 1..Len(endpoints) |->
                      [ep |-> endpoints[k], frame |-> buffers[k], heard |-> times[k]]]
<1>1. /\ pc.listen = "lock" /\ pc'.listen = "search" /\ pc'.mix = pc.mix
      /\ currenttime' = clock.sec
      /\ UNCHANGED <<clock, recv_buf, endpoints, buffers, times, frame, data>>
  BY DEF ListenAcquire, ReadTime, Goto, IInv, TypeOK, table, listenVars, mixVars, sendVars
<1>2. Sources = plain
  BY <1>1, SourcesOutsideListen DEF Arriving, InLock
<1>3. Picture' = Picture
  BY <1>1, PictureStays
<1>4. e \in Sender /\ f \in Frame
  BY <1>1 DEF IInv, TypeOK, HandInv
<1>5. plain \in Seq([ep : Sender, frame : Frame, heard : Nat])
      /\ Len(plain) = Len(endpoints)
  <2>1. \A k \in 1..Len(endpoints) : buffers[k] \in Frame
    BY <1>1 DEF IInv, TypeOK, TableAligned, UnsetConfined
  <2>2. \A k \in 1..Len(endpoints) : endpoints[k] \in Sender /\ times[k] \in Nat
    BY DEF IInv, TypeOK, TableAligned
  <2> QED BY <2>1, <2>2 DEF IInv, TypeOK
<1>6. Entries' = [k \in 1..Len(endpoints) |->
                    IF endpoints[k] = e
                    THEN [ep |-> e, frame |-> f, heard |-> clock.sec]
                    ELSE plain[k]]
  BY <1>1 DEF Entries, Entry, Arriving, Arrival, InLock
<1>7. CASE Known(e)
  <2>1. PICK k \in 1..Len(endpoints) : endpoints[k] = e
    BY <1>7 DEF Known
  <2>2. Sources' = Entries'
    BY <1>1, <1>7 DEF Sources, Joining, Known
  <2>3. \A j \in 1..Len(endpoints) : endpoints[j] = e => j = k
    BY <2>1 DEF IInv, TableAligned
  <2>4. Entries' = [plain EXCEPT ![k] = [ep |-> e, frame |-> f, heard |-> clock.sec]]
    BY <1>6, <2>1, <2>3
  <2>5. k \in 1..Len(Sources) /\ Sources[k].ep = e
    BY <1>2, <1>5, <2>1
  <2>6. Abstract!Refresh(e, f)
    BY <1>1, <1>2, <1>3, <2>2, <2>4, <2>5 DEF Abstract!Refresh
  <2> QED BY <1>4, <2>6 DEF Abstract!Next
<1>8. CASE ~Known(e)
  <2>1. Entries' = plain
    BY <1>6, <1>8 DEF Known
  <2>2. Joining' <=> HasRoom
    BY <1>1, <1>8 DEF Joining, Known, HasRoom
  <2>3. CASE HasRoom
    <3>1. Sources' = Append(plain, [ep |-> e, frame |-> f, heard |-> clock.sec])
      BY <1>1, <2>1, <2>2, <2>3 DEF Sources, Arrival
    <3>2. \A k \in 1..Len(Sources) : Sources[k].ep # e
      BY <1>2, <1>5, <1>8 DEF Known
    <3>3. Len(Sources) < NUMBUFS
      BY <1>2, <1>5, <2>3 DEF HasRoom, IInv, TableAligned
    <3>4. Abstract!Join(e, f)
      BY <1>1, <1>2, <1>3, <3>1, <3>2, <3>3 DEF Abstract!Join
    <3> QED BY <1>4, <3>4 DEF Abstract!Next
  <2>4. CASE ~HasRoom
    <3>1. Sources' = Sources
      BY <1>2, <2>1, <2>2, <2>4 DEF Sources
    <3> QED BY <1>1, <1>3, <3>1 DEF Abstract!vars
  <2> QED BY <2>3, <2>4
<1> QED BY <1>7, <1>8

(* The search that succeeds changes nothing more.                          *)
LEMMA ListenKnownRefines ==
  ASSUME IInv, ListenKnown
  PROVE  UNCHANGED Abstract!vars
<1>1. /\ pc.listen = "search" /\ pc'.listen = "store" /\ pc'.mix = pc.mix
      /\ UNCHANGED <<clock, currenttime, recv_buf, endpoints, buffers, times, frame, data>>
  BY DEF ListenKnown, Goto, IInv, TypeOK, table, mixVars, sendVars
<1>2. Known(recv_buf.ep)
  BY DEF ListenKnown, Found, Known
<1>3. Sources' = Sources
  BY <1>1, <1>2 DEF Sources, Joining, Entries, Entry, Arriving, Arrival, InLock
<1>4. Picture' = Picture
  BY <1>1, PictureStays
<1> QED BY <1>1, <1>3, <1>4 DEF Abstract!vars

(* push_back makes real the entry that was already counted.                *)
LEMMA ListenNewRefines ==
  ASSUME IInv, ListenNew
  PROVE  UNCHANGED Abstract!vars
<1> DEFINE n == Len(endpoints)
<1>1. /\ pc.listen = "search" /\ pc'.listen = "store" /\ pc'.mix = pc.mix
      /\ ~Known(recv_buf.ep) /\ HasRoom /\ owner = "listen"
      /\ UNCHANGED <<clock, currenttime, recv_buf, frame, data>>
  BY DEF ListenNew, Goto, IInv, TypeOK, LockInv, InLock, mixVars, sendVars
<1>2. /\ n \in Nat
      /\ Len(endpoints') = n + 1
      /\ endpoints'[n + 1] = recv_buf.ep
      /\ \A k \in 1..n : /\ endpoints'[k] = endpoints[k]
                        /\ buffers'[k] = buffers[k]
                        /\ times'[k] = times[k]
  <2>1. /\ buffers \in Seq(Frame \union {Unset}) /\ endpoints \in Seq(Sender)
        /\ times \in Seq(Nat) /\ recv_buf.ep \in Sender /\ currenttime \in Nat
        /\ Len(buffers) = n /\ Len(times) = n
    BY DEF IInv, TypeOK, TableAligned
  <2>2. /\ buffers' = Append(buffers, Unset)
        /\ endpoints' = Append(endpoints, recv_buf.ep)
        /\ times' = Append(times, currenttime)
    BY DEF ListenNew
  <2> QED BY <2>1, <2>2, AppendEntries
<1>3. Sources = Append(Entries, Arrival)
  BY <1>1 DEF Sources, Joining
<1>4. Entries = [k \in 1..n |-> [ep |-> endpoints[k], frame |-> buffers[k], heard |-> times[k]]]
  BY <1>1 DEF Entries, Entry, Known
<1>5. Sources' = Entries'
  BY <1>1 DEF Sources, Joining
<1>6. Entries' = [k \in 1..(n + 1) |-> IF k = n + 1 THEN Arrival ELSE Entries[k]]
  <2>1. Entries' = [k \in 1..(n + 1) |-> Entry(k)']
    BY <1>2 DEF Entries
  <2>2. ASSUME NEW k, k = n + 1
        PROVE  Entry(k)' = Arrival
    <3>1. Arriving' /\ Arrival' = Arrival
      BY <1>1 DEF Arriving, Arrival, InLock
    <3>2. endpoints'[k] = recv_buf'.ep
      BY <1>1, <1>2, <2>2
    <3> QED BY <3>1, <3>2 DEF Entry
  <2>3. ASSUME NEW k \in 1..n
        PROVE  Entry(k)' = Entries[k]
    <3>1. endpoints'[k] # recv_buf'.ep
      BY <1>1, <1>2 DEF Known
    <3> QED BY <1>2, <1>4, <3>1 DEF Entry
  <2>4. ASSUME NEW k \in 1..(n + 1)
        PROVE  Entry(k)' = IF k = n + 1 THEN Arrival ELSE Entries[k]
    <3>1. k = n + 1 \/ k \in 1..n
      BY <1>2
    <3> QED BY <2>2, <2>3, <3>1, <1>2
  <2> QED BY <2>1, <2>4
<1>7. Append(Entries, Arrival) =
        [k \in 1..(n + 1) |-> IF k = n + 1 THEN Arrival ELSE Entries[k]]
  <2>1. Entries \in Seq([ep : Sender, frame : Frame \union {Unset}, heard : Nat])
        /\ Len(Entries) = n
    <3>1. \A k \in 1..n : /\ endpoints[k] \in Sender /\ times[k] \in Nat
                          /\ buffers[k] \in Frame \union {Unset}
      BY DEF IInv, TypeOK, TableAligned
    <3> QED BY <1>2, <1>4, <3>1
  <2>2. Arrival \in [ep : Sender, frame : Frame \union {Unset}, heard : Nat]
    BY DEF Arrival, IInv, TypeOK
  <2> DEFINE all == Append(Entries, Arrival)
  <2>3. /\ all \in Seq([ep : Sender, frame : Frame \union {Unset}, heard : Nat])
        /\ Len(all) = n + 1
        /\ \A k \in 1..n : all[k] = Entries[k]
        /\ all[n + 1] = Arrival
    BY <2>1, <2>2, AppendEntries
  <2> HIDE DEF all
  <2>4. all = [k \in 1..(n + 1) |-> all[k]]
    BY <2>3
  <2>5. \A k \in 1..(n + 1) : all[k] = IF k = n + 1 THEN Arrival ELSE Entries[k]
    BY <1>2, <2>3
  <2>6. all = [k \in 1..(n + 1) |-> IF k = n + 1 THEN Arrival ELSE Entries[k]]
    BY <2>4, <2>5
  <2> QED BY <2>6 DEF all
<1>8. Picture' = Picture
  BY <1>1, PictureStays DEF IInv, LockInv
<1> QED BY <1>1, <1>3, <1>5, <1>6, <1>7, <1>8 DEF Abstract!vars

(* A refused datagram matched no entry and found no room.                  *)
LEMMA ListenRefuseRefines ==
  ASSUME IInv, ListenRefuse
  PROVE  UNCHANGED Abstract!vars
<1>1. /\ pc.listen = "search" /\ pc'.listen = "receive" /\ pc'.mix = pc.mix
      /\ ~Known(recv_buf.ep) /\ ~HasRoom
      /\ UNCHANGED <<clock, currenttime, recv_buf, endpoints, buffers, times, frame, data>>
  BY DEF ListenRefuse, Goto, IInv, TypeOK, listenVars, table, mixVars, sendVars
<1>2. Sources' = Sources
  BY <1>1 DEF Sources, Joining, Entries, Entry, Arriving, Arrival, Known, HasRoom, InLock
<1>3. Picture' = Picture
  BY <1>1, PictureStays
<1> QED BY <1>1, <1>2, <1>3 DEF Abstract!vars

(* The store makes the entry of the sender what it already counted for.    *)
LEMMA ListenStoreRefines ==
  ASSUME IInv, ListenStore
  PROVE  UNCHANGED Abstract!vars
<1>1. /\ pc.listen = "store" /\ pc'.listen \in {"receive", "dead"} /\ pc'.mix = pc.mix
      /\ pc.mix \notin InLock.mix
      /\ UNCHANGED <<clock, currenttime, recv_buf, endpoints, frame, data>>
  BY DEF ListenStore, Stored, Goto, Release, IInv, TypeOK, LockInv, InLock, table,
     listenVars, mixVars, sendVars
<1>2. /\ bufnum \in 1..Len(endpoints)
      /\ \A k \in 1..Len(endpoints) : (endpoints[k] = recv_buf.ep) <=> (k = bufnum)
  BY <1>1 DEF IInv, WriteHitsSender, TableAligned
<1>3. /\ Len(buffers) = Len(endpoints) /\ Len(times) = Len(endpoints)
      /\ buffers \in Seq(Frame \union {Unset}) /\ times \in Seq(Nat)
      /\ recv_buf.frame \in Frame /\ currenttime \in Nat
  BY <1>1 DEF IInv, TypeOK, TableAligned, HandInv
<1>4. /\ buffers' = [buffers EXCEPT ![bufnum] = recv_buf.frame]
      /\ times' = [times EXCEPT ![bufnum] = currenttime]
  BY <1>2, <1>3 DEF ListenStore, Stored
<1>5. \A k \in 1..Len(endpoints) :
        /\ buffers'[k] = IF k = bufnum THEN recv_buf.frame ELSE buffers[k]
        /\ times'[k] = IF k = bufnum THEN currenttime ELSE times[k]
  BY <1>2, <1>3, <1>4, ExceptEntries
<1>6. ASSUME NEW k \in 1..Len(endpoints)
      PROVE  Entry(k)' = Entry(k)
  BY <1>1, <1>2, <1>5 DEF Entry, Arriving, Arrival, InLock
<1>7. Sources' = Sources
  BY <1>1, <1>6 DEF Sources, Joining, Entries
<1>8. Picture' = Picture
  BY <1>1, PictureStays
<1> QED BY <1>1, <1>7, <1>8 DEF Abstract!vars

(* With the lock, mix has as good as painted all the buffers.              *)
LEMMA MixAcquireRefines ==
  ASSUME IInv, MixAcquire
  PROVE  Abstract!Mix
<1>1. /\ pc.listen \notin InLock.listen /\ pc'.listen = pc.listen /\ pc'.mix = "zero"
      /\ UNCHANGED <<clock, currenttime, recv_buf, endpoints, buffers, times, data>>
  BY DEF MixAcquire, Acquire, Free, Goto, IInv, TypeOK, LockInv, table, listenVars, sendVars
<1>2. Sources' = Sources
  BY <1>1, SourcesStay DEF table
<1>3. Sources = [k \in 1..Len(endpoints) |->
                  [ep |-> endpoints[k], frame |-> buffers[k], heard |-> times[k]]]
  BY <1>1, SourcesOutsideListen DEF Arriving
<1>4. /\ buffers \in Seq(Frame \union {Unset}) /\ endpoints \in Seq(Sender)
      /\ times \in Seq(Nat)
      /\ Len(buffers) = Len(endpoints) /\ Len(times) = Len(endpoints)
  BY DEF IInv, TypeOK, TableAligned
<1>5. Len(Sources) = Len(buffers) /\ \A k \in 1..Len(buffers) : Sources[k].frame = buffers[k]
  BY <1>3, <1>4
<1>6. Abstract!Painted = buffers
  <2>1. buffers = [k \in 1..Len(buffers) |-> buffers[k]]
    BY <1>4
  <2> QED BY <1>5, <2>1 DEF Abstract!Painted
<1>7. Picture' = buffers
  BY <1>1 DEF Picture, InLock
<1> QED BY <1>1, <1>2, <1>6, <1>7 DEF Abstract!Mix

(* What mix does to the frame inside its block nobody sees.                *)
LEMMA MixInsideRefines ==
  ASSUME IInv, MixZero \/ MixBlend
  PROVE  UNCHANGED Abstract!vars
<1>1. /\ pc'.listen = pc.listen
      /\ pc.mix \in InLock.mix /\ pc'.mix \in InLock.mix
      /\ UNCHANGED <<clock, currenttime, recv_buf, endpoints, buffers, times, data>>
  BY DEF MixZero, MixBlend, Goto, IInv, TypeOK, InLock, table, listenVars, sendVars
<1>2. Sources' = Sources
  BY <1>1, SourcesStay DEF table
<1>3. Picture' = Picture
  BY <1>1 DEF Picture, InLock
<1> QED BY <1>1, <1>2, <1>3 DEF Abstract!vars

(* When mix leaves its block the frame holds exactly the buffers.          *)
LEMMA MixDoneRefines ==
  ASSUME IInv, MixDone
  PROVE  UNCHANGED Abstract!vars
<1>1. /\ pc'.listen = pc.listen /\ pc.mix = "blend" /\ pc'.mix = "start" /\ ~(x <= size)
      /\ UNCHANGED <<clock, currenttime, recv_buf, endpoints, buffers, times, frame, data>>
  BY DEF MixDone, More, Goto, IInv, TypeOK, table, listenVars, mixVars, sendVars
<1>2. Sources' = Sources
  BY <1>1, SourcesStay DEF table
<1>3. frame = buffers
  <2>1. /\ x \in Nat /\ size \in Nat /\ size = Len(buffers) /\ x <= size + 1
        /\ Len(frame) = x - 1 /\ \A k \in 1..(x - 1) : frame[k] = buffers[k]
    BY <1>1 DEF IInv, TypeOK, MixInv, InLock
  <2>2. x - 1 = Len(buffers)
    BY <1>1, <2>1
  <2>3. /\ frame = [k \in 1..Len(frame) |-> frame[k]]
        /\ buffers = [k \in 1..Len(buffers) |-> buffers[k]]
    BY DEF IInv, TypeOK
  <2> QED BY <2>1, <2>2, <2>3
<1>4. Picture' = Picture
  BY <1>1, <1>3 DEF Picture, InLock
<1> QED BY <1>1, <1>2, <1>4 DEF Abstract!vars

(* send copies while mix is out, so what it copies is a complete picture.  *)
LEMMA SendCopyRefines ==
  ASSUME IInv, SendCopy
  PROVE  Abstract!Send
<1>1. /\ pc'.listen = pc.listen /\ pc.mix \notin InLock.mix /\ pc'.mix = pc.mix
      /\ data' = frame
      /\ UNCHANGED <<clock, currenttime, recv_buf, endpoints, buffers, times, frame>>
  BY DEF SendCopy, Release, Goto, IInv, TypeOK, LockInv, table, listenVars, mixVars
<1>2. Sources' = Sources
  BY <1>1, SourcesStay DEF table
<1>3. Picture' = Picture /\ Picture = frame
  BY <1>1 DEF Picture
<1> QED BY <1>1, <1>2, <1>3 DEF Abstract!Send

(* Erasing entry i from the three vectors forgets the abstract source i.   *)
LEMMA ExpireEraseRefines ==
  ASSUME IInv, ExpireErase
  PROVE  Abstract!Next
<1> DEFINE n == Len(endpoints)
           S == [ep : Sender, frame : Frame \union {Unset}, heard : Nat]
<1>1. /\ pc.listen \notin InLock.listen /\ pc'.listen = pc.listen
      /\ pc.mix \notin InLock.mix /\ pc'.mix = pc.mix
      /\ UNCHANGED <<clock, currenttime, recv_buf, frame, data>>
  BY DEF ExpireErase, IInv, LockInv, InLock, listenVars, mixVars, sendVars
<1>2. /\ i \in 1..n /\ n \in Nat
      /\ i \in 1..Len(buffers) /\ i \in 1..Len(times)
      /\ buffers \in Seq(Frame \union {Unset}) /\ endpoints \in Seq(Sender)
      /\ times \in Seq(Nat) /\ Len(buffers) = n /\ Len(times) = n
      /\ currenttime - times[i] > BUFTIMEOUT
      /\ currenttime \in Nat /\ currenttime <= clock.sec /\ clock.sec \in Nat
  BY DEF ExpireErase, Silent, IInv, TypeOK, Time, TableAligned, TimesInv
<1>3. /\ buffers' = RemoveAt(buffers, i) /\ endpoints' = RemoveAt(endpoints, i)
      /\ times' = RemoveAt(times, i)
  BY DEF ExpireErase, Erase
<1>4. /\ Len(endpoints') = n - 1
      /\ \A k \in 1..(n - 1) :
           endpoints'[k] = IF k < i THEN endpoints[k] ELSE endpoints[k + 1]
  BY <1>2, <1>3, RemoveAtEntries
<1>5. \A k \in 1..(n - 1) : buffers'[k] = IF k < i THEN buffers[k] ELSE buffers[k + 1]
  <2>1. /\ buffers \in Seq(Frame \union {Unset}) /\ i \in 1..Len(buffers)
        /\ Len(buffers) = n
    BY <1>2
  <2> HIDE DEF n
  <2> QED BY <1>3, <2>1, RemoveAtEntries
<1>6. \A k \in 1..(n - 1) : times'[k] = IF k < i THEN times[k] ELSE times[k + 1]
  <2>1. times \in Seq(Nat) /\ i \in 1..Len(times) /\ Len(times) = n
    BY <1>2
  <2> HIDE DEF n
  <2> QED BY <1>3, <2>1, RemoveAtEntries
<1>7. Sources = [k \in 1..n |->
                  [ep |-> endpoints[k], frame |-> buffers[k], heard |-> times[k]]]
  BY <1>1, SourcesOutsideListen DEF Arriving
<1>8. Sources \in Seq(S) /\ Len(Sources) = n
  <2>1. \A k \in 1..n : /\ endpoints[k] \in Sender /\ times[k] \in Nat
                        /\ buffers[k] \in Frame \union {Unset}
    BY <1>2
  <2> QED BY <1>2, <1>7, <2>1
<1>9. /\ RemoveAt(Sources, i) \in Seq(S) /\ Len(RemoveAt(Sources, i)) = n - 1
      /\ \A k \in 1..(n - 1) :
           RemoveAt(Sources, i)[k] = IF k < i THEN Sources[k] ELSE Sources[k + 1]
  <2>1. i \in 1..Len(Sources)
    BY <1>2, <1>8
  <2> HIDE DEF S
  <2> QED BY <1>8, <2>1, RemoveAtEntries
<1>10. Sources' = [k \in 1..(n - 1) |->
                    [ep |-> endpoints'[k], frame |-> buffers'[k], heard |-> times'[k]]]
  BY <1>1, <1>4, SourcesOutsideListen DEF Sources, Joining, Entries, Entry, Arriving, InLock
<1>11. ASSUME NEW k \in 1..(n - 1)
       PROVE  RemoveAt(Sources, i)[k] =
                [ep |-> endpoints'[k], frame |-> buffers'[k], heard |-> times'[k]]
  <2>1. k \in 1..n /\ k + 1 \in 1..n
    BY <1>2
  <2> QED BY <1>4, <1>5, <1>6, <1>7, <1>9, <2>1
<1>12. Sources' = RemoveAt(Sources, i)
  <2> DEFINE left == RemoveAt(Sources, i)
  <2>1. left = [k \in 1..(n - 1) |-> left[k]]
    BY <1>2, <1>9
  <2>2. \A k \in 1..(n - 1) :
          left[k] = [ep |-> endpoints'[k], frame |-> buffers'[k], heard |-> times'[k]]
    BY <1>11
  <2> HIDE DEF left
  <2>3. Sources' = left
    BY <1>10, <2>1, <2>2
  <2> QED BY <2>3 DEF left
<1>13. clock.sec - Sources[i].heard > BUFTIMEOUT
  <2>1. Sources[i].heard = times[i] /\ times[i] \in Nat
    BY <1>2, <1>7
  <2> QED BY LimitsAssumption, <1>2, <2>1
<1>14. Picture' = Picture
  BY <1>1, PictureStays
<1>15. Abstract!Forget(i)
  BY <1>1, <1>12, <1>13, <1>14 DEF Abstract!Forget, Abstract!RemoveAt, RemoveAt
<1> QED BY <1>2, <1>8, <1>15 DEF Abstract!Next

(* Time passes in ticks; a second passes or not.                           *)
LEMMA TickRefines ==
  ASSUME IInv, Tick
  PROVE  Abstract!Next \/ UNCHANGED Abstract!vars
<1>1. /\ UNCHANGED <<table, recv_buf, currenttime, frame, data, pc>>
      /\ clock'.sec = clock.sec \/ clock'.sec = clock.sec + 1
  BY DEF Tick, listenVars, mixVars, sendVars
<1>2. Sources' = Sources
  BY <1>1, SourcesStay
<1>3. Picture' = Picture
  BY <1>1, PictureStays DEF table
<1> QED BY <1>1, <1>2, <1>3 DEF Abstract!Next, Abstract!TimePasses, Abstract!vars

(* The steps the abstract table does not show.                             *)
LEMMA QuietStepRefines ==
  ASSUME IInv,
         \/ \E e \in Endpoint, f \in Frame : Receive(e, f)
         \/ \E f \in Frame : ReceiveError(f)
         \/ SendAcquire \/ SendUdp \/ SendUdpFails \/ SendTcp
         \/ ExpireAcquire \/ ExpireKeep \/ ExpireDone
         \/ ConsoleThread
         \/ UNCHANGED vars
  PROVE  UNCHANGED Abstract!vars
<1>1. /\ pc'.mix = pc.mix
      /\ UNCHANGED <<clock, table, frame, data>>
  BY DEF Receive, ReceiveError, SendAcquire, SendUdp, SendUdpFails, SendTcp, ExpireAcquire,
     ExpireKeep, ExpireDone, ConsoleThread, ConsoleAcquire, ConsolePrint, Goto, IInv,
     TypeOK, vars, table, listenVars, mixVars, sendVars
<1>2. Picture' = Picture
  BY <1>1, PictureStays DEF table
<1>3. \/ UNCHANGED <<recv_buf, currenttime>> /\ pc'.listen = pc.listen
      \/ ~Arriving /\ ~Arriving'
  BY DEF Receive, ReceiveError, SendAcquire, SendUdp, SendUdpFails, SendTcp, ExpireAcquire,
     ExpireKeep, ExpireDone, ConsoleThread, ConsoleAcquire, ConsolePrint, Goto, Acquire,
     Free, Arriving, InLock, IInv, TypeOK, LockInv, vars, listenVars
<1>4. Sources' = Sources
  <2>1. CASE UNCHANGED <<recv_buf, currenttime>> /\ pc'.listen = pc.listen
    BY <1>1, <2>1, SourcesStay
  <2>2. CASE ~Arriving /\ ~Arriving'
    BY <1>1, <2>2 DEF table, Sources, Joining, Entries, Entry, Arriving, InLock
  <2> QED BY <1>3, <2>1, <2>2
<1> QED BY <1>1, <1>2, <1>4 DEF Abstract!vars

(* Every step of FrameServer is one of SourceTable, or a stutter.          *)
LEMMA NextRefines == IInv /\ [Next]_vars => [Abstract!Next]_(Abstract!vars)
<1> SUFFICES ASSUME IInv, [Next]_vars PROVE Abstract!Next \/ UNCHANGED Abstract!vars
  OBVIOUS
<1>1. CASE Listen
  BY <1>1, QuietStepRefines, ListenAcquireRefines, ListenKnownRefines, ListenNewRefines,
     ListenRefuseRefines, ListenStoreRefines DEF Listen
<1>2. CASE MixThread
  BY <1>2, MixAcquireRefines, MixInsideRefines, MixDoneRefines DEF MixThread, Abstract!Next
<1>3. CASE SendThread
  BY <1>3, QuietStepRefines, SendCopyRefines DEF SendThread, Abstract!Next
<1>4. CASE ExpireThread
  BY <1>4, QuietStepRefines, ExpireEraseRefines DEF ExpireThread
<1>5. CASE ConsoleThread \/ UNCHANGED vars
  BY <1>5, QuietStepRefines
<1>6. CASE Tick
  BY <1>6, TickRefines
<1> QED BY <1>1, <1>2, <1>3, <1>4, <1>5, <1>6 DEF Next

(***************************************************************************)
(* The frame server behaves like one table without threads: arrivals,      *)
(* expiry, mixing and sending are atomic, whatever the interleaving of the *)
(* five threads, the number of sources and the limits.                     *)
(***************************************************************************)
THEOREM Refinement == Spec => ImplementsSourceTable
  BY InitRefines, NextRefines, InductiveInvariant, PTL
     DEF Spec, ImplementsSourceTable, Abstract!Spec

-----------------------------------------------------------------------------
(* The console                                                             *)

LEMMA ConsoleStep == [ConsoleNext]_allVars => [Next]_vars
<1> SUFFICES ASSUME [ConsoleNext]_allVars PROVE [Next]_vars
  OBVIOUS
<1>1. CASE Server
  BY <1>1 DEF Server
<1>2. CASE StartInput
  BY <1>2 DEF StartInput
<1>3. CASE Input
  BY <1>3 DEF Input, FirstSize, ModeKey, KeyUp, KeyDown, CheckSize, MoveDown, OtherKey, NoteKey
<1>4. CASE UNCHANGED allVars
  BY <1>4 DEF allVars
<1> QED BY <1>1, <1>2, <1>3, <1>4 DEF ConsoleNext

(***************************************************************************)
(* With the operator at the keyboard the server is the same server         *)
(* (lines 402-446 and 580-584 of Server.cpp).                              *)
(***************************************************************************)
THEOREM ServerUndisturbed == ConsoleSpec => Spec
BY ConsoleStep, PTL DEF ConsoleSpec, Spec

(* The mark starts at the first row. *)
LEMMA MarkInit == ConsoleInit => OnlyExpiryStrandsMark
<1> SUFFICES ASSUME ConsoleInit PROVE OnlyExpiryStrandsMark
  OBVIOUS
<1>1. consoleinit \in BOOLEAN /\ mode \in Mode
  BY DEF ConsoleInit, Mode
<1>2. selected_buffer = 0 /\ selected_buffer \in Nat /\ key = NoKey /\ key # "move" /\ erased \in Nat
  BY DEF ConsoleInit, NoKey
<1> QED BY <1>1, <1>2 DEF OnlyExpiryStrandsMark, ConsoleTypeOK

(* What the list loses, `erased' gains, and more if the list grows. *)
LEMMA ErasedCounts ==
  ASSUME TypeOK, TypeOK', ConsoleTypeOK, Server
  PROVE  erased' \in Nat /\ Len(buffers) + erased <= Len(buffers') + erased'
<1>1. Len(buffers) \in Nat /\ Len(buffers') \in Nat
  BY DEF TypeOK
<1>2. erased \in Nat
  BY DEF ConsoleTypeOK
<1>3. erased' = IF Len(buffers') < Len(buffers)
                THEN erased + (Len(buffers) - Len(buffers')) ELSE erased
  BY DEF Server
<1> QED BY <1>1, <1>2, <1>3

(* The mark goes down by one only after CheckSize has seen the row.        *)
LEMMA MarkStep ==
  ASSUME OnlyExpiryStrandsMark, TypeOK, TypeOK', [ConsoleNext]_allVars
  PROVE  OnlyExpiryStrandsMark'
<1>0. Len(buffers) \in Nat /\ Len(buffers') \in Nat /\ ConsoleTypeOK
  BY DEF TypeOK, OnlyExpiryStrandsMark
<1>a. ASSUME UNCHANGED vars
      PROVE  Len(buffers') = Len(buffers)
  BY <1>a DEF vars, table
<1> USE DEF OnlyExpiryStrandsMark, ConsoleTypeOK, NoKey
<1>1. CASE Server
  <2>1. erased' \in Nat /\ Len(buffers) + erased <= Len(buffers') + erased'
    BY <1>0, <1>1, ErasedCounts
  <2>2. UNCHANGED <<consoleinit, mode, selected_buffer, key>>
    BY <1>1 DEF Server
  <2> QED BY <1>0, <2>1, <2>2
<1>2. CASE StartInput
  BY <1>0, <1>2, <1>a DEF StartInput
<1>3. ASSUME NEW m \in Mode, ModeKey(m)
      PROVE  OnlyExpiryStrandsMark'
  BY <1>0, <1>3, <1>a DEF ModeKey, Reading
<1>4. CASE KeyUp
  BY <1>0, <1>4, <1>a DEF KeyUp, Reading
<1>5. CASE KeyDown
  BY <1>0, <1>5, <1>a DEF KeyDown, Reading
<1>6. CASE CheckSize
  BY <1>0, <1>6, <1>a DEF CheckSize, HasNext
<1>7. CASE MoveDown
  BY <1>0, <1>7, <1>a DEF MoveDown
<1>8. CASE OtherKey
  BY <1>0, <1>8, <1>a DEF OtherKey, Reading
<1>9. CASE NoteKey
  BY <1>0, <1>9, <1>a DEF NoteKey
<1>10. CASE FirstSize
  BY <1>0, <1>10, <1>a DEF FirstSize
<1>11. CASE UNCHANGED allVars
  <2>1. UNCHANGED vars /\ UNCHANGED consoleVars
    BY <1>11 DEF allVars
  <2> QED BY <1>0, <1>a, <2>1 DEF consoleVars
<1> QED
  BY <1>1, <1>2, <1>3, <1>4, <1>5, <1>6, <1>7, <1>8, <1>9, <1>10, <1>11 DEF ConsoleNext, Input

(***************************************************************************)
(* The mark lies below the last client by no more rows than expire() has   *)
(* erased since input() last compared it with the size of the list         *)
(* (430-431, 597-610), for any number of clients and any NUMBUFS.          *)
(***************************************************************************)
THEOREM MarkStrandedByExpiry == ConsoleSpec => []OnlyExpiryStrandsMark
<1>1. ConsoleSpec => []TypeOK
  BY ServerUndisturbed, TypeCorrect, PTL
<1>2. OnlyExpiryStrandsMark /\ TypeOK /\ TypeOK' /\ [ConsoleNext]_allVars => OnlyExpiryStrandsMark'
  BY MarkStep
<1> QED BY <1>1, <1>2, MarkInit, PTL DEF ConsoleSpec
=============================================================================
