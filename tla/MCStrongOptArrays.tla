--------------------------- MODULE MCStrongOptArrays ---------------------------
(****************************************************************************)
(* Small instances of StrongOptArrays.                                      *)
(****************************************************************************)
EXTENDS StrongOptArrays, TLC

Symmetry == Permutations(Node)
=============================================================================
