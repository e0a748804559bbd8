------------------------------- MODULE Pipeline -------------------------------
(***************************************************************************)
(* The second generation (src/v2): clients connect to receiver.py, which   *)
(* checks what they ask for and pushes their image lines to a redis list;  *)
(* forward.py pops the list and writes each line to the serial port at the *)
(* negotiated rate.  The two processes share nothing but redis: a hash     *)
(* `config' and the list `new'.                                            *)
(*                                                                         *)
(* socketserver.TCPServer serves one connection at a time; the others wait *)
(* in the backlog.  The forwarder can die at any point and be started      *)
(* again.  Every access to redis is a step of its own.  height, width and  *)
(* imgsize are written and read together and checked alike: one field      *)
(* `size' stands for them.                                                 *)
(***************************************************************************)
EXTENDS Integers, Sequences, FiniteSets

CONSTANTS
  Client,     \* connections made by processing sketches
  MaxSize,    \* max_height, max_width
  MaxRate,    \* max_framerate
  Ask,        \* the [size, rate] clients ask for
  MaxLines,   \* bound: the image lines a client sends
  MaxStarts,  \* bound: how often the forwarder is started
  None        \* a missing value

\* A line of an image; the last one of a connection may be torn.
Line == [client : Client, n : 1..MaxLines, whole : BOOLEAN]

ASSUME PipelineAssumption ==
  /\ MaxSize \in Nat \ {0} /\ MaxRate \in Nat \ {0}
  /\ Ask \subseteq [size : Nat, rate : Nat]
  /\ MaxLines \in Nat /\ MaxStarts \in Nat
  /\ None \notin Nat \cup Line \cup {"open"}

VARIABLES
  \* clients and their connections
  client,     \* out, backlog, open, answered, closed
  ask,        \* what the client asks for, as far as it has said so
  stream,     \* lines in its connection
  sent,       \* how many lines it has sent
  \* receiver.py
  handler,    \* none, or the program point in handle(), or done
  \* redis
  config,     \* the hash `config'
  new,        \* the list `new', right end first
  \* forward.py
  fpc,        \* program point, or down
  hand,       \* data in send(): the line popped
  port,       \* s: an open serial port, or None
  rate,       \* 1 / wait_time
  \* history
  starts,     \* how often the forwarder was started
  pushed,     \* every line pushed
  written     \* every line written to the serial port

clientVars    == <<client, ask, stream, sent>>
redisVars     == <<config, new>>
forwarderVars == <<fpc, hand, port, rate, starts>>
vars == <<clientVars, handler, redisVars, forwarderVars, pushed, written>>

Field == {"size", "max_framerate", "cur_framerate"}

NoAsk == [size |-> 0, rate |-> 0]

-----------------------------------------------------------------------------
(* Clients (network.py, prepare.py) *)

Connect(c) ==
  /\ client[c] = "out"
  /\ client' = [client EXCEPT ![c] = "backlog"]
  /\ UNCHANGED <<ask, stream, sent, handler, redisVars, forwarderVars, pushed, written>>

(* receive_config, then send_config, once the server has sent its limits. *)
Answer(c) ==
  /\ client[c] = "open"
  /\ handler[c] = "negotiate"
  /\ \E a \in Ask : ask' = [ask EXCEPT ![c] = a]
  /\ client' = [client EXCEPT ![c] = "answered"]
  /\ UNCHANGED <<stream, sent, handler, redisVars, forwarderVars, pushed, written>>

(* send_TCP: one image, one line. *)
SendLine(c) ==
  /\ client[c] = "answered"
  /\ sent[c] < MaxLines
  /\ sent' = [sent EXCEPT ![c] = @ + 1]
  /\ stream' = [stream EXCEPT
       ![c] = Append(@, [client |-> c, n |-> sent[c] + 1, whole |-> TRUE])]
  /\ UNCHANGED <<client, ask, handler, redisVars, forwarderVars, pushed, written>>

(* The sketch does not accept the limits (prepare.py) or is closed before  *)
(* it has answered; recv will return nothing for what it has not said,     *)
(* which is read as 0.                                                     *)
LeaveUnanswered(c) ==
  /\ client[c] \in {"backlog", "open"}
  /\ \/ UNCHANGED ask
     \/ /\ handler[c] = "negotiate"
        /\ \E a \in Ask : ask' = [ask EXCEPT ![c] = [NoAsk EXCEPT !.size = a.size]]
  /\ client' = [client EXCEPT ![c] = "closed"]
  /\ UNCHANGED <<stream, sent, handler, redisVars, forwarderVars, pushed, written>>

(* ... or while it streams, perhaps in the middle of a line. *)
Leave(c) ==
  /\ client[c] = "answered"
  /\ client' = [client EXCEPT ![c] = "closed"]
  /\ \/ UNCHANGED <<stream, sent>>
     \/ /\ sent[c] < MaxLines
        /\ sent' = [sent EXCEPT ![c] = @ + 1]
        /\ stream' = [stream EXCEPT
             ![c] = Append(@, [client |-> c, n |-> sent[c] + 1, whole |-> FALSE])]
  /\ UNCHANGED <<ask, handler, redisVars, forwarderVars, pushed, written>>

-----------------------------------------------------------------------------
(* receiver.py *)

Serving == {c \in Client : handler[c] \notin {"none", "done"}}

\* Slip: a ThreadingTCPServer.
Idle_Threading(c) == TRUE
Idle(c) == Serving = {}

(* serve_forever takes the next connection and calls handle(). *)
Accept(c) ==
  /\ client[c] \in {"backlog", "closed"}
  /\ handler[c] = "none"
  /\ Idle(c)
  /\ handler' = [handler EXCEPT ![c] = "size"]
  /\ client' = [client EXCEPT ![c] = IF @ = "backlog" THEN "open" ELSE @]
  /\ UNCHANGED <<ask, stream, sent, redisVars, forwarderVars, pushed, written>>

(* The connection is closed with the handler: what it holds is gone. *)
Finished(c) ==
  /\ handler' = [handler EXCEPT ![c] = "done"]
  /\ client' = [client EXCEPT ![c] = "closed"]
  /\ stream' = [stream EXCEPT ![c] = << >>]

After(field) ==
  CASE field = "size"          -> "max_framerate"
    [] field = "max_framerate" -> "cur_framerate"
    [] field = "cur_framerate" -> "negotiate"

(* _get_config, one hget; int(None) raises and ends the handler.  After the *)
(* last field the limits are sent to the client.                            *)
GetConfig(c) ==
  /\ handler[c] \in Field
  /\ IF config[handler[c]] # None
     THEN /\ handler' = [handler EXCEPT ![c] = After(@)]
          /\ UNCHANGED <<client, stream>>
     ELSE Finished(c)
  /\ UNCHANGED <<ask, sent, redisVars, forwarderVars, pushed, written>>

\* _check_config.  Slip: the rate is not checked.
Acceptable_AnyRate(a) == ~(a.size > 0 /\ a.size > MaxSize)
Acceptable(a) ==
  /\ ~(a.size > 0 /\ a.size > MaxSize)
  /\ ~(a.rate > 0 /\ a.rate > MaxRate)

(* _receive_client_config: a good answer becomes the current frame rate. *)
Negotiate(c) ==
  /\ handler[c] = "negotiate"
  /\ client[c] \in {"answered", "closed"}
  /\ IF Acceptable(ask[c])
     THEN /\ config' = [config EXCEPT !["cur_framerate"] = ask[c].rate]
          /\ handler' = [handler EXCEPT ![c] = "read"]
          /\ UNCHANGED <<client, stream>>
     ELSE Finished(c) /\ UNCHANGED config
  /\ UNCHANGED <<ask, sent, new, forwarderVars, pushed, written>>

\* lpush: the list is written right end first.  Slip: rpush.
Pushed_Right(line) == <<line>> \o new
Pushed(line) == Append(new, line)

\* Slip: a line is only read once the next one has arrived.
Readable_Lookahead(c) == Len(stream[c]) > 1
Readable(c) == stream[c] # << >>

\* Slip: readline(size), a longer line comes in pieces.
ReadLine_Pieces(c) ==
  LET line == Head(stream[c]) IN
  /\ handler[c] = "read"
  /\ Readable(c)
  /\ stream' = [stream EXCEPT ![c] = IF line.whole THEN [@ EXCEPT ![1].whole = FALSE]
                                                 ELSE Tail(@)]
  /\ new' = Pushed([line EXCEPT !.whole = FALSE])
  /\ pushed' = Append(pushed, [line EXCEPT !.whole = FALSE])
  /\ UNCHANGED <<client, ask, sent, handler, config, forwarderVars, written>>

(* readline, strip, lpush. *)
ReadLine(c) ==
  /\ handler[c] = "read"
  /\ Readable(c)
  /\ stream' = [stream EXCEPT ![c] = Tail(@)]
  /\ new' = Pushed(Head(stream[c]))
  /\ pushed' = Append(pushed, Head(stream[c]))
  /\ UNCHANGED <<client, ask, sent, handler, config, forwarderVars, written>>

(* The client has left and nothing is left to read. *)
ReadEnd(c) ==
  /\ handler[c] = "read"
  /\ client[c] = "closed"
  /\ stream[c] = << >>
  /\ Finished(c)
  /\ UNCHANGED <<ask, sent, redisVars, forwarderVars, pushed, written>>

(* The connection of a client that has left is reset: sendall, recv or     *)
(* readline raises and ends the handler.                                   *)
Reset(c) ==
  /\ handler[c] \in {"negotiate", "read"}
  /\ client[c] = "closed"
  /\ Finished(c)
  /\ UNCHANGED <<ask, sent, redisVars, forwarderVars, pushed, written>>

-----------------------------------------------------------------------------
(* forward.py *)

Goto(from, to) == fpc = from /\ fpc' = to

Start ==
  /\ Goto("down", "size")
  /\ starts < MaxStarts
  /\ starts' = starts + 1
  /\ UNCHANGED <<clientVars, handler, redisVars, hand, port, rate, pushed, written>>

Limit(field) == IF field = "size" THEN MaxSize ELSE MaxRate

(* The hsets at the start: the limits, and the highest rate as the current. *)
PublishConfig ==
  /\ \E field \in Field :
       /\ Goto(field, IF field = "cur_framerate" THEN "configure" ELSE After(field))
       /\ config' = [config EXCEPT ![field] = Limit(field)]
  /\ UNCHANGED <<clientVars, handler, new, hand, port, rate, starts, pushed, written>>

(* serialConfigure returns the port, or nothing when it cannot be opened;  *)
(* the main loop starts either way.                                        *)
SerialConfigure ==
  /\ Goto("configure", "poll")
  /\ port' \in {"open", None}
  /\ rate' = MaxRate
  /\ UNCHANGED <<clientVars, handler, redisVars, hand, starts, pushed, written>>

\* while r.llen('new') > 0.  Slip: one line is kept back.
Waiting_Batch == Len(new) > 1
Waiting == new # << >>

Poll ==
  /\ IF Waiting THEN Goto("poll", "send") ELSE Goto("poll", "idle")
  /\ UNCHANGED <<clientVars, handler, redisVars, hand, port, rate, starts, pushed, written>>

(* send: rpop *)
Pop ==
  /\ Goto("send", "write")
  /\ new # << >>
  /\ hand' = Head(new)
  /\ new' = Tail(new)
  /\ UNCHANGED <<clientVars, handler, config, port, rate, starts, pushed, written>>

\* Slip: a missing port is skipped.
Write_Skipping ==
  /\ Goto("write", "pace")
  /\ written' = IF port = "open" THEN Append(written, hand) ELSE written
  /\ hand' = None
  /\ UNCHANGED <<clientVars, handler, redisVars, port, rate, starts, pushed>>

(* send: the line goes out between `*' and `#'; then the forwarder sleeps. *)
Write ==
  /\ Goto("write", "pace")
  /\ port = "open"
  /\ written' = Append(written, hand)
  /\ hand' = None
  /\ UNCHANGED <<clientVars, handler, redisVars, port, rate, starts, pushed>>

Pace ==
  /\ Goto("pace", "poll")
  /\ UNCHANGED <<clientVars, handler, redisVars, hand, port, rate, starts, pushed, written>>

\* Slip: a rate of zero is taken as it is.
Effective_Zero(r) == IF r >= MaxRate THEN MaxRate ELSE r
Effective(r) == IF r >= MaxRate \/ r = 0 THEN MaxRate ELSE r

\* Slip: the rate is only set at the start.
UpdateFramerate_Never ==
  /\ Goto("idle", "poll")
  /\ UNCHANGED <<clientVars, handler, redisVars, hand, port, rate, starts, pushed, written>>

(* The list has been seen empty: sleep a second, then update_framerate. *)
UpdateFramerate ==
  /\ Goto("idle", "poll")
  /\ rate' = Effective(config["cur_framerate"])
  /\ UNCHANGED <<clientVars, handler, redisVars, hand, port, starts, pushed, written>>

(* The forwarder is killed, or an exception of redis or of the serial port *)
(* ends it.  What it holds is gone.  Writing to a port that could not be   *)
(* opened always ends like this.                                           *)
Die ==
  /\ fpc # "down"
  /\ fpc' = "down"
  /\ hand' = None
  /\ UNCHANGED <<clientVars, handler, redisVars, port, rate, starts, pushed, written>>

-----------------------------------------------------------------------------

Init ==
  /\ client = [c \in Client |-> "out"]
  /\ ask = [c \in Client |-> NoAsk]
  /\ stream = [c \in Client |-> << >>]
  /\ sent = [c \in Client |-> 0]
  /\ handler = [c \in Client |-> "none"]
  /\ config = [field \in Field |-> None]
  /\ new = << >>
  /\ fpc = "down"
  /\ hand = None
  /\ port = None
  /\ rate = MaxRate
  /\ starts = 0
  /\ pushed = << >>
  /\ written = << >>

Clients == \E c \in Client :
  Connect(c) \/ Answer(c) \/ SendLine(c) \/ LeaveUnanswered(c) \/ Leave(c)

Handle(c) ==
  GetConfig(c) \/ Negotiate(c) \/ ReadLine(c) \/ ReadEnd(c) \/ Reset(c)

Receiver == \E c \in Client : Accept(c) \/ Handle(c)

Running ==
  \/ PublishConfig \/ SerialConfigure \/ Poll
  \/ Pop \/ Write \/ Pace \/ UpdateFramerate

Forwarder == Start \/ Running \/ Die

Next == Clients \/ Receiver \/ Forwarder

Spec == Init /\ [][Next]_vars

-----------------------------------------------------------------------------
(* Properties *)

Ranges ==
  /\ client \in [Client -> {"out", "backlog", "open", "answered", "closed"}]
  /\ ask \in [Client -> Ask \cup {NoAsk} \cup [size : {a.size : a \in Ask}, rate : {0}]]
  /\ sent \in [Client -> 0..MaxLines]
  /\ stream \in [Client -> Seq(Line)]
  /\ handler \in [Client -> Field \cup {"none", "negotiate", "read", "done"}]
  /\ new \in Seq(Line)
  /\ fpc \in Field \cup
       {"down", "configure", "poll", "send", "write", "pace", "idle"}
  /\ port \in {"open", None}
  /\ starts \in 0..MaxStarts
  /\ pushed \in Seq(Line)
  /\ written \in Seq(Line)

(* What one process reads back is what another may have written: only      *)
(* rates the forwarder can use reach redis (23-49), and they are there     *)
(* once it needs them; send() has a line in hand exactly when it is about  *)
(* to write it.                                                            *)
TypeOK ==
  /\ Ranges
  /\ config \in [Field -> Nat \cup {None}]
  /\ config["size"] \in {None, MaxSize}
  /\ config["max_framerate"] \in {None, MaxRate}
  /\ config["cur_framerate"] \in {None} \cup 0..MaxRate
  /\ fpc \notin Field \cup {"down"} => config["cur_framerate"] # None
  /\ IF fpc = "write" THEN hand \in Line ELSE hand = None

(***************************************************************************)
(* The forwarder never divides by zero and never runs faster than the      *)
(* wall can (forward.py:30-36), whatever the clients ask for.              *)
(***************************************************************************)
RateWithinLimits == rate \in 1..MaxRate

(***************************************************************************)
(* The images of two clients do not alternate on the wall: what one client *)
(* pushes stays together, since the receiver serves one connection at a    *)
(* time (receiver.py:72).                                                  *)
(***************************************************************************)
NoMixing ==
  \A i, k \in 1..Len(pushed) :
    i < k /\ pushed[i].client = pushed[k].client =>
      \A j \in i..k : pushed[j].client = pushed[i].client

(***************************************************************************)
(* Half an image can only be the last thing a connection leaves in the     *)
(* list, though readline returns what has come when a connection breaks    *)
(* (receiver.py:61); the images before it are in the order they were sent, *)
(* each once.                                                              *)
(***************************************************************************)
OnlyLastTorn ==
  \A i, k \in 1..Len(pushed) :
    i < k /\ pushed[i].client = pushed[k].client =>
      pushed[i].whole /\ pushed[i].n < pushed[k].n

InHand == IF hand = None THEN << >> ELSE <<hand>>
Lost == Len(pushed) - Len(written) - Len(InHand \o new)
Deaths == IF fpc = "down" THEN starts ELSE starts - 1

(***************************************************************************)
(* A forwarder that dies takes at most one line with it, and a line is     *)
(* lost in no other way (forward.py:42-48).                                *)
(***************************************************************************)
OneLostPerDeath == Lost <= Deaths

(***************************************************************************)
(* Receiver, redis and forwarder together are a queue that loses at most   *)
(* its head: order is kept and nothing is written twice.                   *)
(***************************************************************************)
Abstract == INSTANCE LossyQueue WITH
  queue <- InHand \o new, delivered <- written, alive <- fpc # "down",
  deaths <- Deaths, lost <- Lost

ImplementsLossyQueue == Abstract!Spec

-----------------------------------------------------------------------------
(***************************************************************************)
(* The forwarder keeps running its loop and the receiver the handler it is *)
(* in; nobody has to start a forwarder, and no client has to leave.        *)
(***************************************************************************)
Fairness ==
  /\ WF_vars(Running)
  /\ \A c \in Client : WF_vars(Handle(c))

FairSpec == Spec /\ Fairness

(***************************************************************************)
(* A line that was pushed while a forwarder runs is written unless that    *)
(* forwarder dies (forward.py:131-133).                                    *)
(***************************************************************************)
Down == fpc = "down" \/ (fpc = "write" /\ port = None)

LineIsWritten ==
  \A n \in 1..(MaxLines * Cardinality(Client)) :
    (Len(pushed) >= n) ~> (Down \/ Len(written) + Lost >= n)

(***************************************************************************)
(* From the client's side: while it stays connected, what it sends is      *)
(* written unless a forwarder dies (receiver.py:60-64, forward.py:131-133).*)
(***************************************************************************)
SentIsWritten ==
  \A c \in Client, n \in 1..MaxLines :
    (client[c] = "answered" /\ sent[c] >= n) ~>
      \/ Down \/ Lost > 0 \/ client[c] = "closed"
      \/ \E i \in 1..Len(written) : written[i].client = c /\ written[i].n = n

(***************************************************************************)
(* Once the list has drained the forwarder comes to run at the rate the    *)
(* receiver negotiated last (forward.py:132-135), unless new lines arrive  *)
(* before it has seen the list empty: a client that is faster than the     *)
(* rate can keep update_framerate() from ever being called.                *)
(***************************************************************************)
Drained == new = << >> \/ fpc = "idle"

RateCatchesUp ==
  \A r \in 0..MaxRate :
    (Drained /\ config["cur_framerate"] = r) ~>
      (Down \/ ~Drained \/ config["cur_framerate"] # r \/ rate = Effective(r))
=============================================================================
