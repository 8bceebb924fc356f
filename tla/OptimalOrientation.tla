------------------------- MODULE OptimalOrientation -------------------------
(****************************************************************************)
(* What the exact algorithms promise on top of EdgeOrientation: whenever a  *)
(* handler returns, no orientation of the current graph has a smaller       *)
(* maximum out-degree.                                                      *)
(****************************************************************************)
EXTENDS EdgeOrientation

\* An update that leaves an optimal orientation behind.
NextOptimal ==
  /\ \E source, target \in Node : \/ handleInsertion(source, target)
                                  \/ handleDeletion(source, target)
  /\ IsOptimal(m_adj', edges')

OptimalSpec == Init /\ [][NextOptimal]_vars
=============================================================================
