---------------------------- MODULE MCFrameServer ----------------------------
(* Small instances of FrameServer for TLC. *)
EXTENDS FrameServer, FiniteSets

CONSTANTS a, b, c, red, green

\* No address and no frame is special.
Symmetric == Permutations(Endpoint) \union Permutations(Frame)
=============================================================================
