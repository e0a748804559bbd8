--------------------------- MODULE PipelineProofs ---------------------------
(***************************************************************************)
(* Theorems about Pipeline: types and frame rates, what a dying forwarder  *)
(* can lose, that clients do not mix, and that receiver, redis and         *)
(* forwarder implement LossyQueue.                                         *)
(***************************************************************************)
EXTENDS Pipeline, SequenceTheorems, TLAPS

(* Pushing at one end and popping at the other, and the line in hand.      *)
LEMMA PushFacts ==
  ASSUME NEW S, NEW q \in Seq(S), NEW e \in S
  PROVE  /\ Append(q, e) \in Seq(S)
         /\ Len(Append(q, e)) = Len(q) + 1
         /\ \A k \in 1..Len(q) : Append(q, e)[k] = q[k]
         /\ Append(q, e)[Len(q) + 1] = e
         /\ << >> \o q = q
  BY AppendProperties, ConcatEmptySeq

LEMMA PopFacts ==
  ASSUME NEW S, NEW q \in Seq(S), q # << >>
  PROVE  /\ Head(q) \in S
         /\ Tail(q) \in Seq(S)
         /\ Len(Tail(q)) = Len(q) - 1
         /\ Len(q) \in Nat \ {0}
         /\ \A k \in 1..Len(Tail(q)) : Tail(q)[k] = q[k + 1]
         /\ Head(q) = q[1]
         /\ <<Head(q)>> \o Tail(q) = q
<1>1. Len(q) \in Nat \ {0} /\ Head(q) = q[1]
  BY EmptySeq
<1>2. /\ Head(q) \in S
      /\ Tail(q) \in Seq(S)
      /\ Len(Tail(q)) = Len(q) - 1
      /\ \A k \in 1..Len(Tail(q)) : Tail(q)[k] = q[k + 1]
  BY HeadTailProperties
<1>3. <<Head(q)>> \in Seq(S) /\ Len(<<Head(q)>>) = 1
  BY <1>2
<1>4. /\ <<Head(q)>> \o Tail(q) \in Seq(S)
      /\ Len(<<Head(q)>> \o Tail(q)) = 1 + Len(Tail(q))
      /\ \A i \in 1..(1 + Len(Tail(q))) :
           (<<Head(q)>> \o Tail(q))[i] =
             IF i <= 1 THEN <<Head(q)>>[i] ELSE Tail(q)[i - 1]
  BY <1>2, <1>3, ConcatProperties
<1>5. ASSUME NEW i \in 1..Len(q)
      PROVE  (<<Head(q)>> \o Tail(q))[i] = q[i]
  <2>1. CASE i = 1
    BY <1>1, <1>2, <1>4, <2>1
  <2>2. CASE i # 1
    BY <1>1, <1>2, <1>4, <2>2
  <2> QED BY <2>1, <2>2
<1>6. <<Head(q)>> \o Tail(q) = q
  BY <1>1, <1>2, <1>4, <1>5, SeqEqual
<1> QED BY <1>1, <1>2, <1>6

LEMMA HandFacts ==
  ASSUME NEW S, NEW q \in Seq(S), NEW h \in S
  PROVE  /\ <<h>> \o q \in Seq(S)
         /\ <<h>> \o q # << >>
         /\ Len(<<h>> \o q) = Len(q) + 1
         /\ Head(<<h>> \o q) = h
         /\ Tail(<<h>> \o q) = q
         /\ \A e \in S : <<h>> \o Append(q, e) = Append(<<h>> \o q, e)
<1> DEFINE hq == <<h>> \o q
<1>0. <<h>> \in Seq(S) /\ Len(<<h>>) = 1 /\ <<h>>[1] = h /\ Len(q) \in Nat
  OBVIOUS
<1>1. /\ hq \in Seq(S)
      /\ Len(hq) = 1 + Len(q)
      /\ \A i \in 1..(1 + Len(q)) : hq[i] = IF i <= 1 THEN <<h>>[i] ELSE q[i - 1]
  BY <1>0, ConcatProperties
<1> HIDE DEF hq
<1>2. hq # << >> /\ Head(hq) = h
  BY <1>0, <1>1
<1>3. Tail(hq) = q
  <2>1. /\ Tail(hq) \in Seq(S)
        /\ Len(Tail(hq)) = Len(q)
        /\ \A i \in 1..Len(q) : Tail(hq)[i] = hq[i + 1]
    BY <1>0, <1>1, <1>2, HeadTailProperties
  <2>2. ASSUME NEW i \in 1..Len(q) PROVE Tail(hq)[i] = q[i]
    BY <1>0, <1>1, <2>1
  <2> QED BY <2>1, <2>2, SeqEqual
<1>4. ASSUME NEW e \in S PROVE <<h>> \o Append(q, e) = Append(hq, e)
  <2>1. Append(q, e) = q \o <<e>> /\ Append(hq, e) = hq \o <<e>> /\ <<e>> \in Seq(S)
    BY <1>1, AppendIsConcat
  <2> QED BY <1>0, <2>1, ConcatAssociative DEF hq
<1> QED BY <1>0, <1>1, <1>2, <1>3, <1>4 DEF hq

-----------------------------------------------------------------------------
(* Types and frame rates *)

TypeInv == TypeOK /\ RateWithinLimits

LEMMA ConstantFacts ==
  /\ MaxSize \in Nat \ {0} /\ MaxRate \in Nat \ {0}
  /\ MaxLines \in Nat /\ MaxStarts \in Nat
  /\ None \notin Nat /\ None \notin Line /\ None # "open"
  /\ \A a \in Ask : a.size \in Nat /\ a.rate \in Nat
BY PipelineAssumption

(* What a client's steps can change. *)
LEMMA ClientsTyped ==
  ASSUME TypeInv, NEW c \in Client,
         Connect(c) \/ Answer(c) \/ SendLine(c) \/ LeaveUnanswered(c) \/ Leave(c)
  PROVE  TypeInv'
<1> USE ConstantFacts DEF TypeInv
<1>1. CASE Connect(c)
  BY <1>1 DEF Connect, TypeOK, Ranges, RateWithinLimits, redisVars, forwarderVars
<1>2. CASE Answer(c)
  BY <1>2 DEF Answer, TypeOK, Ranges, RateWithinLimits, redisVars, forwarderVars
<1>3. CASE SendLine(c)
  <2>1. [client |-> c, n |-> sent[c] + 1, whole |-> TRUE] \in Line
    BY <1>3 DEF SendLine, TypeOK, Ranges, Line
  <2>2. stream' \in [Client -> Seq(Line)]
    BY <1>3, <2>1, PushFacts DEF SendLine, TypeOK, Ranges
  <2>3. sent' \in [Client -> 0..MaxLines]
    BY <1>3 DEF SendLine, TypeOK, Ranges
  <2> QED BY <1>3, <2>2, <2>3 DEF SendLine, TypeOK, Ranges, RateWithinLimits, redisVars, forwarderVars
<1>4. CASE LeaveUnanswered(c)
  <2>0. \A a \in Ask : [NoAsk EXCEPT !.size = a.size] \in [size : {b.size : b \in Ask}, rate : {0}]
    BY DEF NoAsk
  <2>1. ask' \in [Client -> Ask \cup {NoAsk} \cup [size : {a.size : a \in Ask}, rate : {0}]]
    <3>1. CASE UNCHANGED ask
      BY <3>1 DEF TypeOK, Ranges
    <3>2. CASE \E a \in Ask : ask' = [ask EXCEPT ![c] = [NoAsk EXCEPT !.size = a.size]]
      BY <2>0, <3>2 DEF TypeOK, Ranges
    <3> QED BY <1>4, <3>1, <3>2 DEF LeaveUnanswered
  <2> QED BY <1>4, <2>1 DEF LeaveUnanswered, TypeOK, Ranges, RateWithinLimits, redisVars, forwarderVars
<1>5. CASE Leave(c)
  <2>1. CASE UNCHANGED <<stream, sent>>
    BY <1>5, <2>1 DEF Leave, TypeOK, Ranges, RateWithinLimits, redisVars, forwarderVars
  <2>2. CASE /\ sent[c] < MaxLines
             /\ sent' = [sent EXCEPT ![c] = @ + 1]
             /\ stream' = [stream EXCEPT
                  ![c] = Append(@, [client |-> c, n |-> sent[c] + 1, whole |-> FALSE])]
    <3>1. [client |-> c, n |-> sent[c] + 1, whole |-> FALSE] \in Line
      BY <2>2 DEF TypeOK, Ranges, Line
    <3>2. stream' \in [Client -> Seq(Line)]
      BY <2>2, <3>1, PushFacts DEF TypeOK, Ranges
    <3>3. sent' \in [Client -> 0..MaxLines]
      BY <2>2 DEF TypeOK, Ranges
    <3> QED BY <1>5, <3>2, <3>3 DEF Leave, TypeOK, Ranges, RateWithinLimits, redisVars, forwarderVars
  <2> QED BY <1>5, <2>1, <2>2 DEF Leave
<1> QED BY <1>1, <1>2, <1>3, <1>4, <1>5

(* An answer that passes the check is a rate the forwarder can use. *)
LEMMA AcceptableRate ==
  ASSUME TypeOK, NEW c \in Client, Acceptable(ask[c])
  PROVE  ask[c].rate \in 0..MaxRate
<1>1. ask[c].rate \in Nat
  <2>1. CASE ask[c] \in Ask
    BY <2>1, ConstantFacts
  <2>2. CASE ask[c] = NoAsk
    BY <2>2 DEF NoAsk
  <2>3. CASE ask[c] \in [size : {a.size : a \in Ask}, rate : {0}]
    BY <2>3
  <2> QED BY <2>1, <2>2, <2>3 DEF TypeOK, Ranges
<1> QED BY <1>1, ConstantFacts DEF Acceptable

(* The receiver. *)
LEMMA ReceiverTyped ==
  ASSUME TypeInv, NEW c \in Client, Accept(c) \/ Handle(c)
  PROVE  TypeInv'
<1> USE ConstantFacts DEF TypeInv
<1>1. CASE Accept(c)
  BY <1>1 DEF Accept, TypeOK, Ranges, Field, RateWithinLimits, redisVars, forwarderVars
<1>0. ASSUME Finished(c), UNCHANGED <<ask, sent, redisVars, forwarderVars, pushed, written>>
      PROVE  TypeInv'
  <2>1. stream' \in [Client -> Seq(Line)]
    BY <1>0 DEF Finished, TypeOK, Ranges
  <2> QED BY <1>0, <2>1 DEF Finished, TypeOK, Ranges, RateWithinLimits, redisVars, forwarderVars
<1>2. CASE GetConfig(c)
  <2>1. CASE config[handler[c]] # None
    BY <1>2, <2>1 DEF GetConfig, After, Field, TypeOK, Ranges, RateWithinLimits, redisVars, forwarderVars
  <2>2. CASE config[handler[c]] = None
    BY <1>0, <1>2, <2>2 DEF GetConfig
  <2> QED BY <2>1, <2>2
<1>3. CASE Negotiate(c)
  <2>1. CASE Acceptable(ask[c])
    <3>1. ask[c].rate \in 0..MaxRate
      BY <2>1, AcceptableRate
    <3>2. config' = [config EXCEPT !["cur_framerate"] = ask[c].rate]
      BY <1>3, <2>1 DEF Negotiate
    <3>3. /\ config' \in [Field -> Nat \cup {None}]
          /\ config'["size"] = config["size"]
          /\ config'["max_framerate"] = config["max_framerate"]
          /\ config'["cur_framerate"] \in 0..MaxRate
      BY <3>1, <3>2 DEF TypeOK, Field
    <3>4. config'["cur_framerate"] # None
      BY <3>3
    <3>5. handler' \in [Client -> Field \cup {"none", "negotiate", "read", "done"}]
      <4>1. handler \in [Client -> Field \cup {"none", "negotiate", "read", "done"}]
        BY DEF TypeOK, Ranges
      <4>2. handler' = [handler EXCEPT ![c] = "read"]
        BY <1>3, <2>1 DEF Negotiate
      <4> HIDE DEF TypeInv
      <4> QED BY <4>1, <4>2
    <3>6. UNCHANGED <<client, stream, ask, sent, new, forwarderVars, pushed, written>>
      BY <1>3, <2>1 DEF Negotiate
    <3>7. Ranges'
      BY <3>5, <3>6 DEF TypeOK, Ranges, forwarderVars
    <3>8. TypeOK'
      BY <3>3, <3>6, <3>7 DEF TypeOK, forwarderVars
    <3> QED BY <3>3, <3>4, <3>6, <3>8 DEF RateWithinLimits, forwarderVars
  <2>2. CASE ~Acceptable(ask[c])
    BY <1>0, <1>3, <2>2 DEF Negotiate, redisVars
  <2> QED BY <2>1, <2>2
<1>4. CASE ReadLine(c)
  <2>1. stream[c] \in Seq(Line) /\ stream[c] # << >>
    BY <1>4 DEF ReadLine, Readable, TypeOK, Ranges
  <2>2. Head(stream[c]) \in Line /\ Tail(stream[c]) \in Seq(Line)
    BY <2>1, PopFacts
  <2>3. stream' \in [Client -> Seq(Line)]
    BY <1>4, <2>2 DEF ReadLine, TypeOK, Ranges
  <2>4. new' \in Seq(Line) /\ pushed' \in Seq(Line)
    BY <1>4, <2>2, PushFacts DEF ReadLine, Pushed, TypeOK, Ranges
  <2> QED BY <1>4, <2>3, <2>4 DEF ReadLine, TypeOK, Ranges, RateWithinLimits, forwarderVars
<1>5. CASE ReadEnd(c)
  BY <1>0, <1>5 DEF ReadEnd
<1>6. CASE Reset(c)
  BY <1>0, <1>6 DEF Reset
<1> QED BY <1>1, <1>2, <1>3, <1>4, <1>5, <1>6 DEF Handle

(* The forwarder. *)
LEMMA ForwarderTyped ==
  ASSUME TypeInv, Forwarder
  PROVE  TypeInv'
<1> USE ConstantFacts DEF TypeInv
<1>1. CASE Start
  BY <1>1 DEF Start, Goto, Field, TypeOK, Ranges, RateWithinLimits, clientVars, redisVars
<1>2. CASE PublishConfig
  <2>1. PICK field \in Field :
          /\ Goto(field, IF field = "cur_framerate" THEN "configure" ELSE After(field))
          /\ config' = [config EXCEPT ![field] = Limit(field)]
    BY <1>2 DEF PublishConfig
  <2>2. /\ config' \in [Field -> Nat \cup {None}]
        /\ config'["size"] \in {None, MaxSize}
        /\ config'["max_framerate"] \in {None, MaxRate}
        /\ config'["cur_framerate"] \in {None} \cup 0..MaxRate
        /\ field = "cur_framerate" => config'["cur_framerate"] # None
    BY <2>1 DEF Limit, Field, TypeOK
  <2>3. /\ fpc' \in Field \cup {"configure"}
        /\ field # "cur_framerate" => fpc' \in Field
        /\ fpc # "write"
    BY <2>1 DEF Goto, After, Field
  <2> QED BY <1>2, <2>2, <2>3 DEF PublishConfig, Field, TypeOK, Ranges, RateWithinLimits, clientVars
<1>3. CASE SerialConfigure
  BY <1>3 DEF SerialConfigure, Goto, Field, TypeOK, Ranges, RateWithinLimits, clientVars, redisVars
<1>4. CASE Poll
  BY <1>4 DEF Poll, Goto, Field, TypeOK, Ranges, RateWithinLimits, clientVars, redisVars
<1>5. CASE Pop
  <2>1. Head(new) \in Line /\ Tail(new) \in Seq(Line)
    BY <1>5, PopFacts DEF Pop, TypeOK, Ranges
  <2> QED BY <1>5, <2>1 DEF Pop, Goto, Field, TypeOK, Ranges, RateWithinLimits, clientVars
<1>6. CASE Write
  <2>1. written' \in Seq(Line)
    BY <1>6, PushFacts DEF Write, Goto, TypeOK, Ranges
  <2> QED BY <1>6, <2>1 DEF Write, Goto, Field, TypeOK, Ranges, RateWithinLimits, clientVars, redisVars
<1>7. CASE Pace
  BY <1>7 DEF Pace, Goto, Field, TypeOK, Ranges, RateWithinLimits, clientVars, redisVars
<1>8. CASE UpdateFramerate
  <2>1. config["cur_framerate"] \in 0..MaxRate
    BY <1>8 DEF UpdateFramerate, Goto, TypeOK, Field
  <2>2. rate' \in 1..MaxRate
    BY <1>8, <2>1 DEF UpdateFramerate, Effective
  <2> QED BY <1>8, <2>2 DEF UpdateFramerate, Goto, Field, TypeOK, Ranges, RateWithinLimits, clientVars, redisVars
<1>9. CASE Die
  BY <1>9 DEF Die, Field, TypeOK, Ranges, RateWithinLimits, clientVars, redisVars
<1> QED BY <1>1, <1>2, <1>3, <1>4, <1>5, <1>6, <1>7, <1>8, <1>9 DEF Forwarder, Running

LEMMA TypeInit == Init => TypeInv
BY ConstantFacts DEF TypeInv, Init, TypeOK, Ranges, Field, NoAsk, RateWithinLimits

LEMMA TypeStep == TypeInv /\ [Next]_vars => TypeInv'
<1> SUFFICES ASSUME TypeInv, [Next]_vars PROVE TypeInv'
  OBVIOUS
<1>1. CASE Clients
  BY <1>1, ClientsTyped DEF Clients
<1>2. CASE Receiver
  BY <1>2, ReceiverTyped DEF Receiver
<1>3. CASE Forwarder
  BY <1>3, ForwarderTyped
<1>4. CASE UNCHANGED vars
  BY <1>4 DEF vars, clientVars, redisVars, forwarderVars, TypeInv, TypeOK, Ranges, RateWithinLimits
<1> QED BY <1>1, <1>2, <1>3, <1>4 DEF Next

(***************************************************************************)
(* Each process finds in redis what it expects, whatever clients ask for   *)
(* and whenever they leave (receiver.py:14-49, forward.py:121-135).        *)
(***************************************************************************)
THEOREM TypeCorrect == Spec => []TypeOK
<1>1. TypeInv => TypeOK
  BY DEF TypeInv
<1> QED BY <1>1, TypeInit, TypeStep, PTL DEF Spec

(***************************************************************************)
(* The forwarder's rate stays in 1..max_framerate, whatever the clients    *)
(* have asked for (receiver.py:42-49, forward.py:30-36).                   *)
(***************************************************************************)
THEOREM RateUsable == Spec => []RateWithinLimits
<1>1. TypeInv => RateWithinLimits
  BY DEF TypeInv
<1> QED BY <1>1, TypeInit, TypeStep, PTL DEF Spec

-----------------------------------------------------------------------------
(* Clients do not mix *)

(***************************************************************************)
(* Why: one handler at a time is under way, it only pushes lines of its    *)
(* own client, and a handler that is reading has pushed last, if at all.   *)
(***************************************************************************)
Point == Field \cup {"none", "negotiate", "read", "done"}

OneHandler == \A c, d \in Serving : c = d

OwnStream ==
  \A c \in Client : \A i \in 1..Len(stream[c]) : stream[c][i].client = c

PushedByHandler ==
  \A i \in 1..Len(pushed) : handler[pushed[i].client] \in {"read", "done"}

ReaderIsLast ==
  \A i \in 1..Len(pushed) :
    handler[pushed[i].client] = "read" =>
      pushed[Len(pushed)].client = pushed[i].client

MixInv ==
  TypeInv /\ OneHandler /\ OwnStream /\ PushedByHandler /\ ReaderIsLast /\ NoMixing

(* Nothing is disturbed while handlers only move on and streams keep their *)
(* owners, unless a handler that has pushed begins again.                  *)
LEMMA HandlersMove ==
  ASSUME MixInv, NEW c \in Client, UNCHANGED pushed,
         handler' \in [Client -> Point],
         \A d \in Client \ {c} : handler'[d] = handler[d],
         handler[c] # "done",
         handler[c] = "none" => Serving = {},
         handler'[c] # "none",
         handler[c] = "read" => handler'[c] \in {"read", "done"},
         OwnStream'
  PROVE  OneHandler' /\ OwnStream' /\ PushedByHandler' /\ ReaderIsLast' /\ NoMixing'
<1>1. OneHandler'
  BY DEF MixInv, OneHandler, Serving
<1>2. ASSUME NEW i \in 1..Len(pushed) PROVE pushed[i].client \in Client
  <2>1. pushed \in Seq(Line)
    BY DEF MixInv, TypeInv, TypeOK, Ranges
  <2>2. pushed[i] \in Line
    BY <2>1, ElementOfSeq
  <2> QED BY <2>2 DEF Line
<1>3. PushedByHandler'
  BY <1>2 DEF MixInv, PushedByHandler
<1>4. ReaderIsLast'
  BY <1>2 DEF MixInv, ReaderIsLast, PushedByHandler
<1> QED BY <1>1, <1>3, <1>4 DEF MixInv, NoMixing

LEMMA ClientsDoNotMix ==
  ASSUME MixInv, NEW c \in Client,
         Connect(c) \/ Answer(c) \/ SendLine(c) \/ LeaveUnanswered(c) \/ Leave(c)
  PROVE  OneHandler' /\ OwnStream' /\ PushedByHandler' /\ ReaderIsLast' /\ NoMixing'
<1>1. UNCHANGED <<handler, pushed>>
  BY DEF Connect, Answer, SendLine, LeaveUnanswered, Leave
<1>2. OwnStream'
  <2>1. CASE UNCHANGED stream
    BY <2>1 DEF MixInv, OwnStream
  <2>2. ASSUME NEW line \in Line, line.client = c, stream' = [stream EXCEPT ![c] = Append(@, line)]
        PROVE  OwnStream'
    <3>1. /\ stream[c] \in Seq(Line)
          /\ stream'[c] = Append(stream[c], line)
          /\ \A d \in Client \ {c} : stream'[d] = stream[d]
      BY <2>2 DEF MixInv, TypeInv, TypeOK, Ranges
    <3>2. \A i \in 1..Len(stream'[c]) : stream'[c][i].client = c
      BY <2>2, <3>1, PushFacts DEF MixInv, OwnStream
    <3> QED BY <3>1, <3>2 DEF MixInv, OwnStream
  <2>3. ASSUME sent[c] < MaxLines, NEW whole \in BOOLEAN
        PROVE  [client |-> c, n |-> sent[c] + 1, whole |-> whole] \in Line
    BY <2>3, ConstantFacts DEF MixInv, TypeInv, TypeOK, Ranges, Line
  <2>4. CASE Connect(c) \/ Answer(c) \/ LeaveUnanswered(c)
    BY <2>1, <2>4 DEF Connect, Answer, LeaveUnanswered
  <2>5. CASE SendLine(c)
    BY <2>2, <2>3, <2>5 DEF SendLine
  <2>6. CASE Leave(c)
    BY <2>1, <2>2, <2>3, <2>6 DEF Leave
  <2> QED BY <2>4, <2>5, <2>6
<1> QED BY <1>1, <1>2 DEF MixInv, OneHandler, Serving, PushedByHandler, ReaderIsLast, NoMixing

LEMMA ReceiverDoesNotMix ==
  ASSUME MixInv, NEW c \in Client, Accept(c) \/ Handle(c)
  PROVE  OneHandler' /\ OwnStream' /\ PushedByHandler' /\ ReaderIsLast' /\ NoMixing'
<1>0. /\ handler \in [Client -> Field \cup {"none", "negotiate", "read", "done"}]
      /\ stream \in [Client -> Seq(Line)]
      /\ pushed \in Seq(Line)
  BY DEF MixInv, TypeInv, TypeOK, Ranges
<1>1. CASE Accept(c)
  <2>1. OwnStream'
    BY <1>1 DEF Accept, MixInv, OwnStream
  <2>2. /\ handler' \in [Client -> Point]
        /\ handler'[c] = "size"
        /\ handler[c] = "none"
        /\ \A d \in Client \ {c} : handler'[d] = handler[d]
        /\ Serving = {}
        /\ UNCHANGED pushed
    BY <1>0, <1>1 DEF Accept, Idle, Field, Point
  <2> QED BY <2>1, <2>2, HandlersMove
<1>2. ASSUME Finished(c), UNCHANGED pushed, handler[c] \notin {"none", "done"}
      PROVE  OneHandler' /\ OwnStream' /\ PushedByHandler' /\ ReaderIsLast' /\ NoMixing'
  <2>1. OwnStream'
    BY <1>0, <1>2 DEF Finished, MixInv, OwnStream
  <2>2. /\ handler' \in [Client -> Point]
        /\ handler'[c] = "done"
        /\ \A d \in Client \ {c} : handler'[d] = handler[d]
    BY <1>0, <1>2 DEF Finished, Field, Point
  <2> QED BY <1>2, <2>1, <2>2, HandlersMove
<1>3. CASE GetConfig(c)
  <2>1. CASE config[handler[c]] # None
    <3>1. OwnStream'
      BY <1>3, <2>1 DEF GetConfig, MixInv, OwnStream
    <3>2. /\ handler' = [handler EXCEPT ![c] = After(handler[c])]
          /\ handler[c] \in Field
          /\ UNCHANGED pushed
      BY <1>3, <2>1 DEF GetConfig
    <3>3. /\ handler' \in [Client -> Point]
          /\ handler'[c] \in {"max_framerate", "cur_framerate", "negotiate"}
          /\ \A d \in Client \ {c} : handler'[d] = handler[d]
          /\ handler[c] \notin {"none", "done", "read"}
      BY <1>0, <3>2 DEF After, Field, Point
    <3> QED BY <3>1, <3>2, <3>3, HandlersMove
  <2>2. CASE config[handler[c]] = None
    BY <1>2, <1>3, <2>2 DEF GetConfig, Field
  <2> QED BY <2>1, <2>2
<1>4. CASE Negotiate(c)
  <2>1. CASE Acceptable(ask[c])
    <3>1. OwnStream'
      BY <1>4, <2>1 DEF Negotiate, MixInv, OwnStream
    <3>2. /\ handler' = [handler EXCEPT ![c] = "read"]
          /\ handler[c] = "negotiate"
          /\ UNCHANGED pushed
      BY <1>4, <2>1 DEF Negotiate, forwarderVars
    <3>3. /\ handler' \in [Client -> Point]
          /\ handler'[c] = "read"
          /\ \A d \in Client \ {c} : handler'[d] = handler[d]
      BY <1>0, <3>2 DEF Field, Point
    <3> QED BY <3>1, <3>2, <3>3, HandlersMove
  <2>2. CASE ~Acceptable(ask[c])
    BY <1>2, <1>4, <2>2 DEF Negotiate
  <2> QED BY <2>1, <2>2
<1>5. CASE ReadLine(c)
  <2> DEFINE line == Head(stream[c])
             n == Len(pushed)
  <2>1. /\ stream[c] \in Seq(Line) /\ stream[c] # << >> /\ n \in Nat
        /\ handler[c] = "read" /\ UNCHANGED handler
        /\ stream' = [stream EXCEPT ![c] = Tail(@)]
        /\ pushed' = Append(pushed, line)
    BY <1>0, <1>5 DEF ReadLine, Readable
  <2>2. line \in Line /\ line.client = c
    BY <2>1, PopFacts DEF MixInv, OwnStream
  <2>3. OwnStream'
    <3>1. /\ stream'[c] = Tail(stream[c])
          /\ \A d \in Client \ {c} : stream'[d] = stream[d]
      BY <1>0, <2>1
    <3>2. ASSUME NEW i \in 1..Len(Tail(stream[c]))
          PROVE  Tail(stream[c])[i].client = c
      <4>1. Tail(stream[c])[i] = stream[c][i + 1] /\ i + 1 \in 1..Len(stream[c])
        BY <2>1, PopFacts
      <4> QED BY <4>1 DEF MixInv, OwnStream
    <3> QED BY <3>1, <3>2 DEF MixInv, OwnStream
  <2> HIDE DEF line
  <2>4. /\ Len(pushed') = n + 1
        /\ \A i \in 1..n : pushed'[i] = pushed[i]
        /\ pushed'[n + 1] = line
    BY <1>0, <2>1, <2>2, PushFacts
  <2>5. ASSUME NEW i \in 1..n PROVE pushed[i].client \in Client
    <3>1. pushed[i] \in Line
      BY <1>0, ElementOfSeq
    <3> QED BY <3>1 DEF Line
  <2>6. OneHandler'
    BY <2>1 DEF MixInv, OneHandler, Serving
  <2>7. PushedByHandler'
    <3>1. ASSUME NEW i \in 1..(n + 1)
          PROVE  handler[pushed'[i].client] \in {"read", "done"}
      <4>1. CASE i = n + 1
        BY <2>1, <2>2, <2>4, <4>1
      <4>2. CASE i \in 1..n
        BY <2>4, <4>2 DEF MixInv, PushedByHandler
      <4> QED BY <2>1, <4>1, <4>2
    <3> QED BY <2>1, <2>4, <3>1 DEF PushedByHandler
  <2>8. \A d \in Client : handler[d] = "read" => d = c
    BY <2>1, <1>0 DEF MixInv, OneHandler, Serving
  <2>9. ReaderIsLast'
    <3>1. ASSUME NEW i \in 1..(n + 1), handler[pushed'[i].client] = "read"
          PROVE  pushed'[i].client = c
      <4>1. CASE i = n + 1
        BY <2>2, <2>4, <4>1
      <4>2. CASE i \in 1..n
        BY <2>4, <2>5, <2>8, <3>1, <4>2
      <4> QED BY <2>1, <4>1, <4>2
    <3> QED BY <2>1, <2>2, <2>4, <3>1 DEF ReaderIsLast
  <2>10. NoMixing'
    <3>1. ASSUME NEW i \in 1..(n + 1), NEW k \in 1..(n + 1), i < k,
                 pushed'[i].client = pushed'[k].client, NEW j \in i..k
          PROVE  pushed'[j].client = pushed'[i].client
      <4>1. CASE k \in 1..n
        <5>1. i \in 1..n /\ j \in 1..n
          BY <2>1, <3>1, <4>1
        <5> QED BY <2>4, <3>1, <4>1, <5>1 DEF MixInv, NoMixing
      <4>2. CASE k = n + 1
        <5>1. i \in 1..n /\ pushed[i].client = c
          BY <2>1, <2>2, <2>4, <3>1, <4>2
        <5>2. pushed[n].client = c
          BY <2>1, <5>1 DEF MixInv, ReaderIsLast
        <5>3. CASE j = n + 1
          BY <2>2, <2>4, <5>1, <5>3
        <5>4. CASE j = i
          BY <5>4
        <5>5. CASE j # i /\ j # n + 1
          <6>1. n \in 1..n /\ j \in i..n /\ i < n /\ j \in 1..n
            BY <2>1, <3>1, <4>2, <5>1, <5>5
          <6> QED BY <2>4, <5>1, <5>2, <6>1 DEF MixInv, NoMixing
        <5> QED BY <5>3, <5>4, <5>5
      <4> QED BY <2>1, <4>1, <4>2
    <3>2. Len(pushed') = n + 1
      BY <2>4
    <3> QED BY <3>1, <3>2, Zenon DEF NoMixing
  <2> QED BY <2>3, <2>6, <2>7, <2>9, <2>10
<1>6. CASE ReadEnd(c)
  BY <1>2, <1>6 DEF ReadEnd
<1>7. CASE Reset(c)
  BY <1>2, <1>7 DEF Reset
<1> QED BY <1>1, <1>3, <1>4, <1>5, <1>6, <1>7 DEF Handle

LEMMA MixInit == Init => MixInv
BY TypeInit DEF Init, MixInv, OneHandler, Serving, OwnStream, PushedByHandler,
  ReaderIsLast, NoMixing

LEMMA MixStep == MixInv /\ [Next]_vars => MixInv'
<1> SUFFICES ASSUME MixInv, [Next]_vars PROVE MixInv'
  OBVIOUS
<1>0. TypeInv'
  BY TypeStep DEF MixInv
<1>1. CASE Clients
  BY <1>0, <1>1, ClientsDoNotMix DEF Clients, MixInv
<1>2. CASE Receiver
  BY <1>0, <1>2, ReceiverDoesNotMix DEF Receiver, MixInv
<1>3. CASE Forwarder \/ UNCHANGED vars
  <2>1. UNCHANGED <<stream, handler, pushed>>
    BY <1>3 DEF Forwarder, Running, Start, PublishConfig, SerialConfigure, Poll, Pop,
      Write, Pace, UpdateFramerate, Die, vars, clientVars
  <2> QED BY <1>0, <2>1 DEF MixInv, OneHandler, Serving, OwnStream, PushedByHandler,
        ReaderIsLast, NoMixing
<1> QED BY <1>1, <1>2, <1>3 DEF Next

(***************************************************************************)
(* However many sketches connect, their images do not alternate in the     *)
(* list (receiver.py:60-76).                                               *)
(***************************************************************************)
THEOREM ClientsStayApart == Spec => []NoMixing
<1>1. MixInv => NoMixing
  BY DEF MixInv
<1> QED BY <1>1, MixInit, MixStep, PTL DEF Spec

-----------------------------------------------------------------------------
(* Torn lines *)

(***************************************************************************)
(* Why: a connection holds the lines sent last, in order; what has been    *)
(* pushed was sent before them; and a torn line, in the connection or in   *)
(* the list, is the last one of a client that has left.                    *)
(***************************************************************************)
StreamInOrder ==
  \A c \in Client : \A k \in 1..Len(stream[c]) :
    /\ stream[c][k].n = sent[c] - Len(stream[c]) + k
    /\ stream[c][k].whole \/ (k = Len(stream[c]) /\ client[c] = "closed")

PushedBefore ==
  \A i \in 1..Len(pushed) :
    /\ pushed[i].n + Len(stream[pushed[i].client]) <= sent[pushed[i].client]
    /\ \/ pushed[i].whole
       \/ stream[pushed[i].client] = << >> /\ client[pushed[i].client] = "closed"

OrderInv == StreamInOrder /\ PushedBefore /\ OnlyLastTorn

TearInv == MixInv /\ OrderInv

LEMMA TearFacts ==
  ASSUME TearInv
  PROVE  /\ sent \in [Client -> 0..MaxLines] /\ \A d \in Client : sent[d] \in Nat
         /\ client \in [Client -> {"out", "backlog", "open", "answered", "closed"}]
         /\ stream \in [Client -> Seq(Line)]
         /\ pushed \in Seq(Line)
         /\ \A d \in Client : Len(stream[d]) \in Nat
         /\ \A i \in 1..Len(pushed) : pushed[i].client \in Client /\ pushed[i].n \in Nat
<1>1. /\ sent \in [Client -> 0..MaxLines] /\ stream \in [Client -> Seq(Line)]
      /\ client \in [Client -> {"out", "backlog", "open", "answered", "closed"}]
      /\ pushed \in Seq(Line)
  BY DEF TearInv, MixInv, TypeInv, TypeOK, Ranges
<1>2. \A d \in Client : sent[d] \in Nat
  BY <1>1
<1>3. \A d \in Client : Len(stream[d]) \in Nat
  BY <1>1, LenProperties
<1>4. ASSUME NEW i \in 1..Len(pushed)
      PROVE  pushed[i].client \in Client /\ pushed[i].n \in Nat
  <2>1. pushed[i] \in Line
    BY <1>1, ElementOfSeq
  <2> QED BY <2>1 DEF Line
<1> QED BY <1>1, <1>2, <1>3, <1>4

(* A client that has left stays away, and nothing is sent.                 *)
LEMMA NothingSent ==
  ASSUME TearInv, UNCHANGED <<stream, sent, pushed>>,
         \A d \in Client : client[d] = "closed" => client'[d] = "closed"
  PROVE  OrderInv'
BY TearFacts DEF TearInv, OrderInv, StreamInOrder, PushedBefore, OnlyLastTorn

(* The connection is closed: what was in it is gone.                       *)
LEMMA FinishedKeepsOrder ==
  ASSUME TearInv, NEW c \in Client, Finished(c), UNCHANGED <<sent, pushed>>
  PROVE  OrderInv'
<1>1. /\ stream' = [stream EXCEPT ![c] = << >>]
      /\ client' = [client EXCEPT ![c] = "closed"]
  BY DEF Finished
<1>2. /\ stream'[c] = << >> /\ client'[c] = "closed" /\ Len(stream'[c]) = 0
      /\ \A d \in Client \ {c} : stream'[d] = stream[d] /\ client'[d] = client[d]
  BY <1>1, TearFacts
<1>3. StreamInOrder'
  BY <1>2 DEF TearInv, OrderInv, StreamInOrder
<1>4. PushedBefore'
  <2> SUFFICES ASSUME NEW i \in 1..Len(pushed)
               PROVE  /\ pushed[i].n + Len(stream'[pushed[i].client]) <= sent[pushed[i].client]
                      /\ \/ pushed[i].whole
                         \/ /\ stream'[pushed[i].client] = << >>
                            /\ client'[pushed[i].client] = "closed"
    BY DEF PushedBefore
  <2>1. /\ pushed[i].n + Len(stream[pushed[i].client]) <= sent[pushed[i].client]
        /\ pushed[i].whole \/ (stream[pushed[i].client] = << >>
                               /\ client[pushed[i].client] = "closed")
    BY DEF TearInv, OrderInv, PushedBefore
  <2>2. CASE pushed[i].client = c
    <3>1. pushed[i].n + 0 <= sent[c]
      BY <2>1, <2>2, TearFacts
    <3> QED BY <1>2, <2>2, <3>1
  <2>3. CASE pushed[i].client # c
    BY <1>2, <2>1, <2>3, TearFacts
  <2> QED BY <2>2, <2>3
<1> QED BY <1>3, <1>4 DEF TearInv, OrderInv, OnlyLastTorn

(* One more line, torn only if the client leaves with it.                  *)
LEMMA SendingKeepsOrder ==
  ASSUME TearInv, NEW c \in Client, NEW whole \in BOOLEAN, UNCHANGED pushed,
         sent[c] < MaxLines, client[c] = "answered",
         sent' = [sent EXCEPT ![c] = @ + 1],
         stream' = [stream EXCEPT
           ![c] = Append(@, [client |-> c, n |-> sent[c] + 1, whole |-> whole])],
         client'[c] = "closed" \/ whole,
         \A d \in Client \ {c} : client'[d] = client[d]
  PROVE  OrderInv'
<1> DEFINE line == [client |-> c, n |-> sent[c] + 1, whole |-> whole]
           l == Len(stream[c])
<1>1. line \in Line
  BY TearFacts, ConstantFacts DEF Line
<1>2. line.n = sent[c] + 1 /\ line.whole = whole
  OBVIOUS
<1> HIDE DEF line
<1>3. /\ stream'[c] = Append(stream[c], line)
      /\ sent'[c] = sent[c] + 1
      /\ \A d \in Client \ {c} : stream'[d] = stream[d] /\ sent'[d] = sent[d]
  BY TearFacts DEF line
<1>4. /\ Len(stream'[c]) = l + 1 /\ l \in Nat /\ sent[c] \in Nat
      /\ \A k \in 1..l : stream'[c][k] = stream[c][k]
      /\ stream'[c][l + 1] = line
  BY <1>1, <1>3, TearFacts, PushFacts
<1>5. ASSUME NEW k \in 1..l
      PROVE  stream[c][k].n = sent[c] - l + k /\ stream[c][k].whole
  <2>1. client[c] # "closed"
    OBVIOUS
  <2> QED BY <2>1 DEF TearInv, OrderInv, StreamInOrder
<1>6. ASSUME NEW k \in 1..(l + 1)
      PROVE  /\ stream'[c][k].n = sent'[c] - Len(stream'[c]) + k
             /\ stream'[c][k].whole \/ (k = Len(stream'[c]) /\ client'[c] = "closed")
  <2>1. CASE k = l + 1
    <3>1. stream'[c][k].n = sent[c] + 1 /\ stream'[c][k].whole = whole
      BY <1>2, <1>4, <2>1
    <3>2. sent'[c] - Len(stream'[c]) + k = sent[c] + 1
      BY <1>3, <1>4, <2>1
    <3>3. k = Len(stream'[c])
      BY <1>4, <2>1
    <3> QED BY <3>1, <3>2, <3>3
  <2>2. CASE k \in 1..l
    <3>1. stream'[c][k].n = sent[c] - l + k /\ stream'[c][k].whole
      BY <1>4, <1>5, <2>2
    <3>2. sent'[c] - Len(stream'[c]) + k = sent[c] - l + k
      BY <1>3, <1>4
    <3> QED BY <3>1, <3>2
  <2> QED BY <1>4, <2>1, <2>2
<1>7. StreamInOrder'
  <2> SUFFICES ASSUME NEW d \in Client, NEW k \in 1..Len(stream'[d])
               PROVE  /\ stream'[d][k].n = sent'[d] - Len(stream'[d]) + k
                      /\ stream'[d][k].whole \/ (k = Len(stream'[d]) /\ client'[d] = "closed")
    BY DEF StreamInOrder
  <2>1. CASE d = c
    BY <1>4, <1>6, <2>1
  <2>2. CASE d # c
    BY <1>3, <2>2 DEF TearInv, OrderInv, StreamInOrder
  <2> QED BY <2>1, <2>2
<1>8. PushedBefore'
  <2> SUFFICES ASSUME NEW i \in 1..Len(pushed)
               PROVE  /\ pushed[i].n + Len(stream'[pushed[i].client]) <= sent'[pushed[i].client]
                      /\ \/ pushed[i].whole
                         \/ /\ stream'[pushed[i].client] = << >>
                            /\ client'[pushed[i].client] = "closed"
    BY DEF PushedBefore
  <2>1. /\ pushed[i].n + Len(stream[pushed[i].client]) <= sent[pushed[i].client]
        /\ pushed[i].whole \/ (stream[pushed[i].client] = << >>
                               /\ client[pushed[i].client] = "closed")
    BY DEF TearInv, OrderInv, PushedBefore
  <2>2. pushed[i].client \in Client /\ pushed[i].n \in Nat
    BY TearFacts
  <2>3. CASE pushed[i].client = c
    <3>1. pushed[i].whole
      BY <2>1, <2>3
    <3>2. pushed[i].n + Len(stream'[c]) <= sent'[c]
      BY <1>3, <1>4, <2>1, <2>2, <2>3
    <3> QED BY <2>3, <3>1, <3>2
  <2>4. CASE pushed[i].client # c
    BY <1>3, <2>1, <2>2, <2>4
  <2> QED BY <2>3, <2>4
<1> QED BY <1>7, <1>8 DEF TearInv, OrderInv, OnlyLastTorn

(* The line that is pushed comes after all that were, and they are whole.  *)
LEMMA ReadingKeepsOrder ==
  ASSUME TearInv, NEW c \in Client, ReadLine(c)
  PROVE  OrderInv'
<1> DEFINE line == Head(stream[c])
           l == Len(stream[c])
           p == Len(pushed)
<1>1. /\ stream[c] \in Seq(Line) /\ stream[c] # << >> /\ p \in Nat
      /\ stream' = [stream EXCEPT ![c] = Tail(@)]
      /\ pushed' = Append(pushed, line)
      /\ UNCHANGED <<client, sent>>
  BY TearFacts, LenProperties DEF ReadLine, Readable
<1>2. /\ line \in Line /\ line = stream[c][1] /\ l \in Nat \ {0}
      /\ Len(Tail(stream[c])) = l - 1
      /\ \A k \in 1..(l - 1) : Tail(stream[c])[k] = stream[c][k + 1]
  BY <1>1, PopFacts
<1>3. /\ stream'[c] = Tail(stream[c])
      /\ \A d \in Client \ {c} : stream'[d] = stream[d]
  BY <1>1, TearFacts
<1>4. /\ line.client = c /\ line.n = sent[c] - l + 1
      /\ line.whole \/ (l = 1 /\ client[c] = "closed")
  <2>1. 1 \in 1..l
    BY <1>2
  <2>2. stream[c][1].client = c
    BY <2>1 DEF TearInv, MixInv, OwnStream
  <2>3. /\ stream[c][1].n = sent[c] - l + 1
        /\ stream[c][1].whole \/ (1 = l /\ client[c] = "closed")
    BY <2>1 DEF TearInv, OrderInv, StreamInOrder
  <2> HIDE DEF l, line
  <2> QED BY <1>2, <2>2, <2>3
<1> HIDE DEF line
<1>5. /\ Len(pushed') = p + 1
      /\ \A i \in 1..p : pushed'[i] = pushed[i]
      /\ pushed'[p + 1] = line
  BY <1>1, <1>2, TearFacts, PushFacts
<1>6. sent[c] \in Nat
  BY TearFacts
<1>7. StreamInOrder'
  <2> SUFFICES ASSUME NEW d \in Client, NEW k \in 1..Len(stream'[d])
               PROVE  /\ stream'[d][k].n = sent[d] - Len(stream'[d]) + k
                      /\ stream'[d][k].whole \/ (k = Len(stream'[d]) /\ client[d] = "closed")
    BY <1>1 DEF StreamInOrder
  <2>1. CASE d = c
    <3>0. Len(stream'[d]) = l - 1
      BY <1>2, <1>3, <2>1
    <3>1. k \in 1..(l - 1) /\ k + 1 \in 1..l
      <4> HIDE DEF l
      <4> QED BY <1>2, <3>0
    <3>2. /\ stream[c][k + 1].n = sent[c] - l + (k + 1)
          /\ stream[c][k + 1].whole \/ (k + 1 = l /\ client[c] = "closed")
      BY <3>1 DEF TearInv, OrderInv, StreamInOrder
    <3>3. sent[c] - (l - 1) + k = sent[c] - l + (k + 1) /\ (k + 1 = l => k = l - 1)
      BY <1>2, <1>6, <3>1
    <3>4. Len(stream'[c]) = l - 1 /\ stream'[c][k] = stream[c][k + 1]
      BY <1>2, <1>3, <3>1
    <3> HIDE DEF l
    <3> QED BY <2>1, <3>2, <3>3, <3>4
  <2>2. CASE d # c
    BY <1>3, <2>2 DEF TearInv, OrderInv, StreamInOrder
  <2> QED BY <2>1, <2>2
<1>8. ASSUME NEW i \in 1..p, pushed[i].client = c
      PROVE  pushed[i].whole /\ pushed[i].n < line.n /\ pushed[i].n + (l - 1) <= sent[c]
  <2>1. /\ pushed[i].n + l <= sent[c]
        /\ pushed[i].whole
    BY <1>1, <1>8 DEF TearInv, OrderInv, PushedBefore
  <2>2. pushed[i].n \in Nat
    BY TearFacts
  <2> QED BY <1>2, <1>4, <1>6, <2>1, <2>2
<1>9. PushedBefore'
  <2> SUFFICES ASSUME NEW i \in 1..(p + 1)
               PROVE  /\ pushed'[i].n + Len(stream'[pushed'[i].client]) <= sent[pushed'[i].client]
                      /\ \/ pushed'[i].whole
                         \/ /\ stream'[pushed'[i].client] = << >>
                            /\ client[pushed'[i].client] = "closed"
    BY <1>1, <1>5 DEF PushedBefore
  <2>1. CASE i = p + 1
    <3>1. pushed'[i] = line /\ Len(stream'[c]) = l - 1
      BY <1>2, <1>3, <1>5, <2>1
    <3>2. line.n + (l - 1) <= sent[c]
      BY <1>2, <1>4, <1>6
    <3>3. l = 1 => stream'[c] = << >>
      <4>1. stream'[c] \in Seq(Line)
        BY <1>1, <1>3, PopFacts
      <4>2. l = 1 => Len(stream'[c]) = 0
        BY <1>2, <3>1
      <4> QED BY <4>1, <4>2, EmptySeq
    <3> HIDE DEF l
    <3> QED BY <1>4, <3>1, <3>2, <3>3
  <2>2. CASE i \in 1..p /\ pushed[i].client = c
    <3>1. pushed'[i] = pushed[i] /\ Len(stream'[c]) = l - 1
      BY <1>2, <1>3, <1>5, <2>2
    <3> QED BY <1>8, <2>2, <3>1
  <2>3. CASE i \in 1..p /\ pushed[i].client # c
    <3>1. pushed'[i] = pushed[i] /\ stream'[pushed[i].client] = stream[pushed[i].client]
      BY <1>3, <1>5, <2>3, TearFacts
    <3> QED BY <2>3, <3>1 DEF TearInv, OrderInv, PushedBefore
  <2> QED BY <1>1, <2>1, <2>2, <2>3
<1>10. OnlyLastTorn'
  <2> SUFFICES ASSUME NEW i \in 1..(p + 1), NEW k \in 1..(p + 1), i < k,
                      pushed'[i].client = pushed'[k].client
               PROVE  pushed'[i].whole /\ pushed'[i].n < pushed'[k].n
    BY <1>5 DEF OnlyLastTorn
  <2>1. i \in 1..p /\ pushed'[i] = pushed[i]
    BY <1>1, <1>5
  <2>2. CASE k = p + 1
    <3>1. pushed'[k] = line /\ pushed[i].client = c
      BY <1>4, <1>5, <2>1, <2>2
    <3> QED BY <1>8, <2>1, <3>1
  <2>3. CASE k \in 1..p
    <3>1. pushed'[k] = pushed[k]
      BY <1>5, <2>3
    <3> QED BY <2>1, <2>3, <3>1 DEF TearInv, OrderInv, OnlyLastTorn
  <2> QED BY <1>1, <2>2, <2>3
<1> QED BY <1>7, <1>9, <1>10 DEF OrderInv

LEMMA NextKeepsOrder == TearInv /\ [Next]_vars => OrderInv'
<1> SUFFICES ASSUME TearInv, [Next]_vars PROVE OrderInv'
  OBVIOUS
<1>1. ASSUME NEW c \in Client, Connect(c) \/ Answer(c) \/ LeaveUnanswered(c) \/ Accept(c)
      PROVE  OrderInv'
  <2>1. UNCHANGED <<stream, sent, pushed>>
    BY <1>1 DEF Connect, Answer, LeaveUnanswered, Accept
  <2>2. \A d \in Client : client[d] = "closed" => client'[d] = "closed"
    BY <1>1, TearFacts DEF Connect, Answer, LeaveUnanswered, Accept
  <2> QED BY <2>1, <2>2, NothingSent
<1>2. ASSUME NEW c \in Client, SendLine(c)
      PROVE  OrderInv'
  <2>1. UNCHANGED <<pushed, client>> /\ sent[c] < MaxLines /\ client[c] = "answered"
    BY <1>2 DEF SendLine
  <2>2. /\ sent' = [sent EXCEPT ![c] = @ + 1]
        /\ stream' = [stream EXCEPT
             ![c] = Append(@, [client |-> c, n |-> sent[c] + 1, whole |-> TRUE])]
    BY <1>2 DEF SendLine
  <2> QED BY <2>1, <2>2, SendingKeepsOrder
<1>3. ASSUME NEW c \in Client, Leave(c)
      PROVE  OrderInv'
  <2>1. UNCHANGED pushed /\ client[c] = "answered"
        /\ client' = [client EXCEPT ![c] = "closed"]
    BY <1>3 DEF Leave
  <2>2. client'[c] = "closed" /\ \A d \in Client \ {c} : client'[d] = client[d]
    BY <2>1, TearFacts
  <2>3. CASE UNCHANGED <<stream, sent>>
    BY <2>1, <2>2, <2>3, NothingSent
  <2>4. CASE /\ sent[c] < MaxLines
             /\ sent' = [sent EXCEPT ![c] = @ + 1]
             /\ stream' = [stream EXCEPT
                  ![c] = Append(@, [client |-> c, n |-> sent[c] + 1, whole |-> FALSE])]
    BY <2>1, <2>2, <2>4, SendingKeepsOrder
  <2> QED BY <1>3, <2>3, <2>4 DEF Leave
<1>4. ASSUME NEW c \in Client, Handle(c)
      PROVE  OrderInv'
  <2>1. CASE ReadLine(c)
    BY <2>1, ReadingKeepsOrder
  <2>2. CASE GetConfig(c) \/ Negotiate(c) \/ ReadEnd(c) \/ Reset(c)
    <3>1. UNCHANGED <<sent, pushed>>
      BY <2>2 DEF GetConfig, Negotiate, ReadEnd, Reset, forwarderVars
    <3>2. Finished(c) \/ UNCHANGED <<client, stream>>
      BY <2>2 DEF GetConfig, Negotiate, ReadEnd, Reset
    <3> QED BY <3>1, <3>2, FinishedKeepsOrder, NothingSent
  <2> QED BY <1>4, <2>1, <2>2 DEF Handle
<1>5. CASE Forwarder \/ UNCHANGED vars
  <2>1. UNCHANGED <<client, stream, sent, pushed>>
    BY <1>5 DEF Forwarder, Running, Start, PublishConfig, SerialConfigure, Poll, Pop, Write,
       Pace, UpdateFramerate, Die, clientVars, vars
  <2> QED BY <2>1, NothingSent
<1> QED BY <1>1, <1>2, <1>3, <1>4, <1>5 DEF Next, Clients, Receiver

(***************************************************************************)
(* The images of a connection are queued in order, each once, and only the *)
(* last one can be torn, for any number of clients and lines               *)
(* (receiver.py:60-64).                                                    *)
(***************************************************************************)
THEOREM TornLineIsLast == Spec => []OnlyLastTorn
<1>1. Init => TearInv
  BY MixInit DEF Init, TearInv, OrderInv, StreamInOrder, PushedBefore, OnlyLastTorn
<1>2. TearInv /\ [Next]_vars => TearInv'
  BY NextKeepsOrder, MixStep DEF TearInv
<1>3. TearInv => OnlyLastTorn
  BY DEF TearInv, OrderInv
<1> QED BY <1>1, <1>2, <1>3, PTL DEF Spec

-----------------------------------------------------------------------------
(* Receiver, redis and forwarder implement LossyQueue *)

Queue == InHand \o new

LEMMA QueueTyped ==
  ASSUME TypeOK
  PROVE  /\ Queue \in Seq(Line)
         /\ fpc # "write" => Queue = new
         /\ fpc = "write" => /\ hand \in Line
                             /\ Queue = <<hand>> \o new
                             /\ Queue # << >>
                             /\ Head(Queue) = hand
                             /\ Tail(Queue) = new
                             /\ Len(Queue) = Len(new) + 1
<1>1. new \in Seq(Line)
  BY DEF TypeOK, Ranges
<1>2. CASE fpc # "write"
  <2>1. InHand = << >>
    BY <1>2 DEF TypeOK, InHand
  <2> QED BY <1>1, <1>2, <2>1, ConcatEmptySeq DEF Queue
<1>3. CASE fpc = "write"
  <2>1. hand \in Line /\ InHand = <<hand>>
    BY <1>3, ConstantFacts DEF TypeOK, InHand
  <2> QED BY <1>1, <1>3, <2>1, HandFacts DEF Queue
<1> QED BY <1>2, <1>3

LEMMA Lengths ==
  ASSUME TypeOK
  PROVE  /\ Len(pushed) \in Nat /\ Len(written) \in Nat /\ Len(Queue) \in Nat
         /\ starts \in Nat
         /\ Lost = Len(pushed) - Len(written) - Len(Queue)
         /\ Lost \in Int /\ Deaths \in Int
<1>1. /\ pushed \in Seq(Line) /\ written \in Seq(Line) /\ starts \in Nat
  BY ConstantFacts DEF TypeOK, Ranges
<1>2. Len(pushed) \in Nat /\ Len(written) \in Nat /\ Len(Queue) \in Nat
  BY <1>1, QueueTyped, LenProperties
<1> QED BY <1>1, <1>2 DEF Lost, Queue, Deaths

(* A step that moves nothing in or out of the queue, and starts or ends no *)
(* forwarder, is a stuttering step.                                        *)
LEMMA Stutters ==
  ASSUME Queue' = Queue, UNCHANGED <<pushed, written, starts>>,
         (fpc = "down") <=> (fpc' = "down")
  PROVE  UNCHANGED Abstract!vars
BY DEF Abstract!vars, Queue, InHand, Lost, Deaths

LEMMA ReceiverRefines ==
  ASSUME TypeOK, TypeOK', NEW c \in Client, Accept(c) \/ Handle(c)
  PROVE  [Abstract!Next]_(Abstract!vars)
<1>1. CASE ReadLine(c)
  <2> DEFINE line == Head(stream[c])
  <2>1. /\ stream[c] \in Seq(Line) /\ stream[c] # << >>
        /\ new' = Append(new, line)
        /\ pushed' = Append(pushed, line)
        /\ UNCHANGED <<fpc, hand, starts, written>>
    BY <1>1 DEF ReadLine, Readable, Pushed, forwarderVars, TypeOK, Ranges
  <2>2. line \in Line
    BY <2>1, PopFacts
  <2> HIDE DEF line
  <2>3. Queue' = Append(Queue, line)
    <3>1. new \in Seq(Line)
      BY DEF TypeOK, Ranges
    <3>2. CASE fpc = "write"
      BY <2>1, <2>2, <3>1, <3>2, QueueTyped, HandFacts DEF Queue, InHand
    <3>3. CASE fpc # "write"
      <4>1. InHand = << >> /\ InHand' = << >>
        BY <2>1, <3>3 DEF TypeOK, InHand
      <4>2. Append(new, line) \in Seq(Line)
        BY <2>2, <3>1, AppendProperties
      <4> QED BY <2>1, <3>1, <4>1, <4>2, ConcatEmptySeq DEF Queue
    <3> QED BY <3>2, <3>3
  <2>4. Len(pushed') = Len(pushed) + 1 /\ Len(Queue') = Len(Queue) + 1
    <3>1. pushed \in Seq(Line)
      BY DEF TypeOK, Ranges
    <3> QED BY <2>1, <2>2, <2>3, <3>1, QueueTyped, AppendProperties
  <2>5. Lost' = Lost
    BY <2>1, <2>4, Lengths DEF Lost, Queue
  <2>6. Abstract!Put(line)
    BY <2>1, <2>3, <2>5 DEF Abstract!Put, Queue, Deaths
  <2> QED BY <2>2, <2>6 DEF Abstract!Next
<1>2. CASE ~ReadLine(c)
  <2>1. UNCHANGED <<new, forwarderVars, pushed, written>>
    BY <1>2 DEF Accept, Handle, GetConfig, Negotiate, ReadEnd, Reset, redisVars
  <2>2. UNCHANGED Abstract!vars
    BY <2>1, Stutters DEF Queue, InHand, forwarderVars
  <2> QED BY <2>2
<1> QED BY <1>1, <1>2

LEMMA ForwarderRefines ==
  ASSUME TypeOK, TypeOK', Forwarder
  PROVE  [Abstract!Next]_(Abstract!vars)
<1>1. CASE Start
  <2>1. /\ fpc = "down" /\ fpc' = "size" /\ starts' = starts + 1
        /\ UNCHANGED <<hand, new, pushed, written>>
    BY <1>1 DEF Start, Goto, redisVars
  <2>2. UNCHANGED <<Queue, Lost>> /\ Deaths' = Deaths
    BY <2>1, Lengths DEF Queue, InHand, Lost, Deaths
  <2>3. Abstract!Start
    BY <2>1, <2>2 DEF Abstract!Start, Queue
  <2> QED BY <2>3 DEF Abstract!Next
<1>2. CASE Pop
  <2>1. /\ fpc = "send" /\ fpc' = "write"
        /\ new # << >> /\ hand' = Head(new) /\ new' = Tail(new)
        /\ UNCHANGED <<starts, pushed, written>>
    BY <1>2 DEF Pop, Goto
  <2>2. Queue = new /\ Queue' = <<Head(new)>> \o Tail(new)
    <3>1. InHand' = <<Head(new)>>
      BY <2>1, ConstantFacts DEF TypeOK, InHand
    <3> QED BY <2>1, <3>1, QueueTyped DEF Queue
  <2>3. Queue' = Queue
    BY <2>1, <2>2, PopFacts DEF TypeOK, Ranges
  <2> QED BY <2>1, <2>3, Stutters
<1>3. CASE Write
  <2>1. /\ fpc = "write" /\ fpc' = "pace"
        /\ written' = Append(written, hand) /\ hand' = None
        /\ UNCHANGED <<new, starts, pushed>>
    BY <1>3 DEF Write, Goto, redisVars
  <2>2. Queue # << >> /\ Head(Queue) = hand /\ Tail(Queue) = new /\ hand \in Line
    BY <2>1, QueueTyped
  <2>3. Queue' = Tail(Queue)
    <3>1. InHand' = << >> /\ new \in Seq(Line)
      BY <2>1 DEF InHand, TypeOK, Ranges
    <3> QED BY <2>1, <2>2, <3>1, ConcatEmptySeq DEF Queue
  <2>4. Len(written') = Len(written) + 1 /\ Len(Queue') = Len(Queue) - 1
    <3>1. written \in Seq(Line)
      BY DEF TypeOK, Ranges
    <3> QED BY <2>1, <2>2, <2>3, <3>1, QueueTyped, Lengths, AppendProperties
  <2>5. Lost' = Lost /\ Deaths' = Deaths
    BY <2>1, <2>4, Lengths DEF Lost, Queue, Deaths
  <2>6. Abstract!Deliver
    BY <2>1, <2>2, <2>3, <2>5 DEF Abstract!Deliver, Queue
  <2> QED BY <2>6 DEF Abstract!Next
<1>4. CASE Die
  <2>1. /\ fpc # "down" /\ fpc' = "down" /\ hand' = None
        /\ UNCHANGED <<new, starts, pushed, written>>
    BY <1>4 DEF Die, redisVars
  <2>2. Deaths' = Deaths + 1
    BY <2>1, Lengths DEF Deaths
  <2>3. Queue' = new
    <3>1. InHand' = << >> /\ new \in Seq(Line)
      BY <2>1 DEF InHand, TypeOK, Ranges
    <3> QED BY <2>1, <3>1, ConcatEmptySeq DEF Queue
  <2>4. CASE fpc = "write"
    <3>1. Queue # << >> /\ Queue' = Tail(Queue) /\ Len(Queue') = Len(Queue) - 1
      BY <2>3, <2>4, QueueTyped, Lengths
    <3>2. Lost' = Lost + 1
      <4>1. Lost' = Len(pushed) - Len(written) - Len(Queue')
        BY <2>1 DEF Lost, Queue
      <4> QED BY <3>1, <4>1, Lengths
    <3>3. Abstract!Die
      BY <2>1, <2>2, <3>1, <3>2 DEF Abstract!Die, Queue
    <3> QED BY <3>3 DEF Abstract!Next
  <2>5. CASE fpc # "write"
    <3>1. Queue' = Queue
      BY <2>3, <2>5, QueueTyped
    <3>2. Lost' = Lost
      BY <2>1, <3>1 DEF Lost, Queue
    <3>3. Abstract!Die
      BY <2>1, <2>2, <3>1, <3>2 DEF Abstract!Die, Queue
    <3> QED BY <3>3 DEF Abstract!Next
  <2> QED BY <2>4, <2>5
<1>5. CASE PublishConfig \/ SerialConfigure \/ Poll \/ Pace \/ UpdateFramerate
  <2>1. fpc # "down" /\ fpc' # "down"
    BY <1>5 DEF PublishConfig, After, Field, SerialConfigure, Poll, Pace, UpdateFramerate, Goto
  <2>2. UNCHANGED <<new, hand, starts, pushed, written>>
    BY <1>5 DEF PublishConfig, SerialConfigure, Poll, Pace, UpdateFramerate, redisVars
  <2> QED BY <2>1, <2>2, Stutters DEF Queue, InHand
<1> QED BY <1>1, <1>2, <1>3, <1>4, <1>5 DEF Forwarder, Running

LEMMA StepRefines ==
  ASSUME TypeInv, [Next]_vars
  PROVE  [Abstract!Next]_(Abstract!vars)
<1>1. TypeOK /\ TypeOK'
  BY TypeStep DEF TypeInv
<1>2. CASE Clients
  <2>1. UNCHANGED <<redisVars, forwarderVars, pushed, written>>
    BY <1>2 DEF Clients, Connect, Answer, SendLine, LeaveUnanswered, Leave
  <2>2. UNCHANGED Abstract!vars
    BY <2>1, Stutters DEF Queue, InHand, redisVars, forwarderVars
  <2> QED BY <2>2
<1>3. CASE Receiver
  BY <1>1, <1>3, ReceiverRefines DEF Receiver
<1>4. CASE Forwarder
  BY <1>1, <1>4, ForwarderRefines
<1>5. CASE UNCHANGED vars
  <2>1. UNCHANGED Abstract!vars
    BY <1>5, Stutters DEF vars, redisVars, forwarderVars, Queue, InHand
  <2> QED BY <2>1
<1> QED BY <1>2, <1>3, <1>4, <1>5 DEF Next

LEMMA InitRefines == Init => Abstract!Init
<1> SUFFICES ASSUME Init PROVE Abstract!Init
  OBVIOUS
<1>1. /\ new = << >> /\ hand = None /\ fpc = "down" /\ starts = 0
      /\ pushed = << >> /\ written = << >>
  BY DEF Init
<1>2. InHand \o new = << >>
  BY <1>1 DEF InHand
<1>3. Lost = 0
  <2>1. Lost = Len(<< >>) - Len(<< >>) - Len(<< >>)
    BY <1>1, <1>2 DEF Lost
  <2>2. Len(<< >>) = 0
    BY EmptySeq, Zenon
  <2>3. 0 - 0 - 0 = 0
    OBVIOUS
  <2> QED BY <2>1, <2>2, <2>3, Zenon
<1>4. Deaths = 0
  BY <1>1 DEF Deaths
<1> QED BY <1>1, <1>2, <1>3, <1>4 DEF Abstract!Init

(***************************************************************************)
(* Order is kept and nothing is written twice, for any number of clients,  *)
(* lines and restarts (receiver.py:64, forward.py:39-49).                  *)
(***************************************************************************)
THEOREM Refinement == Spec => ImplementsLossyQueue
<1>1. TypeInv /\ [Next]_vars => [Abstract!Next]_(Abstract!vars)
  BY StepRefines
<1> QED BY <1>1, InitRefines, TypeInit, TypeStep, PTL DEF Spec, Abstract!Spec, ImplementsLossyQueue

(***************************************************************************)
(* A line is lost only with a forwarder, and at most one with each: the    *)
(* queue's steps say so, and every step is one of them (forward.py:42-48). *)
(***************************************************************************)
THEOREM LossBounded == Spec => []OneLostPerDeath
<1>1. Init => OneLostPerDeath
  BY InitRefines DEF Abstract!Init, OneLostPerDeath
<1>2. TypeInv /\ OneLostPerDeath /\ [Next]_vars => OneLostPerDeath'
  <2> SUFFICES ASSUME TypeInv, OneLostPerDeath, [Next]_vars PROVE OneLostPerDeath'
    OBVIOUS
  <2>1. Lost \in Int /\ Deaths \in Int
    BY Lengths DEF TypeInv
  <2>2. \/ Lost' = Lost /\ Deaths' = Deaths
        \/ Deaths' = Deaths + 1 /\ Lost' \in {Lost, Lost + 1}
    BY StepRefines DEF Abstract!Next, Abstract!vars, Abstract!Put, Abstract!Deliver,
      Abstract!Start, Abstract!Die
  <2> QED BY <2>1, <2>2 DEF OneLostPerDeath
<1> QED BY <1>1, <1>2, TypeInit, TypeStep, PTL DEF Spec
=============================================================================
