----------------------------- MODULE MCPipeline -----------------------------
(* Values for the constants of Pipeline. *)
EXTENDS Pipeline

CONSTANTS p, q

\* Two rates, more than the wall can do, and a size it does not have.
MCAsk == {[size |-> 1, rate |-> 1], [size |-> 0, rate |-> 3], [size |-> 2, rate |-> 1]}
=============================================================================
