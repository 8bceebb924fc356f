------------------------- MODULE MCDeltaOrientations -------------------------
(****************************************************************************)
(* DeltaOrientations on every small static graph and command line.          *)
(****************************************************************************)
EXTENDS DeltaOrientations
=============================================================================
