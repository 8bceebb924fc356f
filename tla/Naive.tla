-------------------------------- MODULE Naive --------------------------------
(****************************************************************************)
(* dyn_edge_orientation_Naive: the baseline that never turns an edge.       *)
(****************************************************************************)
EXTENDS DynGraphAccess

VARIABLE m_adj     \* the list of out-neighbours of each node

Init == m_adj = [v \in Node |-> <<>>]

handleInsertion(source, target) ==
  m_adj' = IF Len(m_adj[source]) < Len(m_adj[target])
             THEN [m_adj EXCEPT ![source] = Append(@, target)]
             ELSE [m_adj EXCEPT ![target] = Append(@, source)]

\* The first entry of v, if there is one, trades places with the last and goes.
Dropped(list, v) ==
  IF Contains(list, v)
    THEN LET i == SelectInSeq(list, LAMBDA w : w = v)
         IN  Front([list EXCEPT ![i] = Last(list)])
    ELSE list

\* Both lists are searched, whichever of them holds the arc.
handleDeletion(source, target) ==
  m_adj' = [m_adj EXCEPT ![source] = Dropped(@, target), ![target] = Dropped(@, source)]

\* end() copies the lists.
end(G) ==
  LET addList(H, v) == FoldLeft(LAMBDA K, w : new_edge(K, v, w), H, m_adj[v])
  IN  FoldLeft(LAMBDA H, k : addList(H, k - 1), G, [k \in 1..Cardinality(Node) |-> k])
=============================================================================
