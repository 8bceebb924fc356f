----------------------------- MODULE MCStrongOpt -----------------------------
(****************************************************************************)
(* Small instances of StrongOpt.  The nodes are interchangeable, and no     *)
(* liveness property is checked, so the symmetry is sound.                  *)
(****************************************************************************)
EXTENDS StrongOpt, TLC

Symmetry == Permutations(Node)
=============================================================================
