---------------------------- MODULE MCImprovedOpt ----------------------------
(****************************************************************************)
(* Small instances of ImprovedOpt.                                          *)
(****************************************************************************)
EXTENDS ImprovedOpt, TLC

Symmetry == Permutations(Node)
=============================================================================
