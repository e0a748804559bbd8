------------------------------ MODULE LossyQueue ------------------------------
(***************************************************************************)
(* What the second generation promises between a client's socket and the   *)
(* serial line: image lines come out in the order they went in, each at    *)
(* most once, and only the line at the head can be lost, when the          *)
(* forwarder dies.  No processes, no redis, no frame rates.                *)
(***************************************************************************)
EXTENDS Naturals, Sequences

CONSTANT Line       \* image lines

VARIABLES
  queue,      \* lines accepted and not yet on the serial line
  delivered,  \* lines written to the serial line, in order
  alive,      \* a forwarder is running
  deaths,     \* forwarders that have died
  lost        \* lines that died with them

vars == <<queue, delivered, alive, deaths, lost>>

Init ==
  /\ queue = << >>
  /\ delivered = << >>
  /\ alive = FALSE
  /\ deaths = 0
  /\ lost = 0

Put(line) ==
  /\ queue' = Append(queue, line)
  /\ UNCHANGED <<delivered, alive, deaths, lost>>

Deliver ==
  /\ alive
  /\ queue # << >>
  /\ delivered' = Append(delivered, Head(queue))
  /\ queue' = Tail(queue)
  /\ UNCHANGED <<alive, deaths, lost>>

Start ==
  /\ ~alive
  /\ alive' = TRUE
  /\ UNCHANGED <<queue, delivered, deaths, lost>>

(* A forwarder dies and takes at most the line at the head with it. *)
Die ==
  /\ alive
  /\ alive' = FALSE
  /\ deaths' = deaths + 1
  /\ \/ UNCHANGED <<queue, lost>>
     \/ /\ queue # << >>
        /\ queue' = Tail(queue)
        /\ lost' = lost + 1
  /\ UNCHANGED delivered

Next == (\E line \in Line : Put(line)) \/ Deliver \/ Start \/ Die

Spec == Init /\ [][Next]_vars
=============================================================================
