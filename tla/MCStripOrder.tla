---------------------------- MODULE MCStripOrder ----------------------------
(* Walls and colours for StripOrder. *)
EXTENDS StripOrder

MCSize == {<<2, 2>>, <<2, 3>>, <<3, 2>>, <<1, 3>>}

\* Dimmed to 40 percent, some of these are a newline, a `#' or a `*'.
MCColour == {<<25, 88, 105>>, <<255, 26, 1>>}
=============================================================================
