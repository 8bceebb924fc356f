------------------------------ MODULE PathFlips ------------------------------
(****************************************************************************)
(* What the exact algorithms do alike on their adjacency lists: a search    *)
(* goes through the active or the passive entries of a node, the walk back  *)
(* over m_parent collects the entries of the path found, and the path is    *)
(* turned entry by entry, at positions recorded before the first flip.      *)
(*                                                                          *)
(* The modules that extend this one add the searches and the handlers.      *)
(****************************************************************************)
EXTENDS AdjacencyLists

VARIABLES m_adj,         \* the lists
          m_out_degree,  \* how many entries of each list are active
          pc,            \* where the handler is; here "trace" (walk back) or "flip"
          direction,     \* of the search: "forward" or "backward"
          m_max_degree,  \* the degree the search walks over
          m_parent,      \* the entry over which a node was found
          curNode,       \* where the walk back is
          path           \* the entries to flip, in the order of the flips

lists == <<m_adj, m_out_degree>>
walk == <<curNode, path>>

\* m_parent[v] when v has not been found, and curNode outside the walk back.
Cleared == <<>>

(****************************************************************************)
(* What a search looks at.                                                  *)
(****************************************************************************)
\* Variant of scanned: the passive entries are taken to start one too early.
scannedOneEarly(node) ==
  IF direction = "forward" THEN 1..m_out_degree[node]
  ELSE {i \in m_out_degree[node]..Len(m_adj[node]) : i > 0}

\* The positions a search goes through: the active or the passive ones.
scanned(node) == IF direction = "forward" THEN 1..m_out_degree[node]
                 ELSE m_out_degree[node] + 1..Len(m_adj[node])

\* The node is on the far side of m_max_degree: the search ends there.
ends(v) == IF direction = "forward" THEN m_out_degree[v] < m_max_degree
                                    ELSE m_out_degree[v] > m_max_degree

\* The search goes on from the node, or ends there.
admitted(v) == ends(v) \/ m_out_degree[v] = m_max_degree

(****************************************************************************)
(* The walk from the final node to the source, which is its own parent.     *)
(****************************************************************************)
walkBack ==
  LET parent == m_parent[curNode]
      step == <<parent[1], parent[2], curNode>>
  IN  /\ pc = "trace"
      /\ IF parent[1] = curNode
           THEN pc' = "flip" /\ curNode' = Cleared /\ UNCHANGED path
           ELSE /\ path' = IF direction = "forward" THEN <<step>> \o path
                                                    ELSE Append(path, step)
                /\ curNode' = parent[1]
                /\ UNCHANGED pc
      /\ UNCHANGED <<lists, direction, m_max_degree, m_parent>>

(****************************************************************************)
(* One flip.  flip_reverse_edge turns the edge from the side of its passive *)
(* entry.                                                                   *)
(****************************************************************************)
flipNext ==
  LET u == Head(path)[1]
      offset == Head(path)[2]
      passive == m_adj[u][offset]
      tail == IF direction = "forward" THEN u ELSE passive.first
      entry == IF direction = "forward" THEN offset ELSE passive.second
  IN  /\ pc = "flip"
      /\ path # <<>>
      /\ m_adj' = ActiveFlipped(m_adj, m_out_degree, tail, entry)
      /\ m_out_degree' = DegreeFlipped(m_out_degree, tail, m_adj[tail][entry].first)
      /\ path' = Tail(path)
      /\ UNCHANGED <<pc, direction, m_max_degree, m_parent, curNode>>

-----------------------------------------------------------------------------
(****************************************************************************)
(* Properties.                                                              *)
(****************************************************************************)

\* The positions that the search recorded still denote the entries of the path
\* when their turn comes, however the earlier flips have moved entries around:
\* flip_active_edge never throws, and it turns the edge that was meant.
PathStaysValid ==
  pc = "flip" =>
    \A k \in DOMAIN path :
      LET u == path[k][1]
          offset == path[k][2]
      IN  /\ offset \in DOMAIN m_adj[u]
          /\ m_adj[u][offset].first = path[k][3]
          /\ offset <= m_out_degree[u] <=> direction = "forward"

\* No orientation of the multigraph has a smaller maximum: a set of nodes holds
\* more than (k - 1) arcs per node when k is the maximum.
SpannedArcs(S) ==
  {a \in UNION {{v} \X (1..m_out_degree[v]) : v \in S} : m_adj[a[1]][a[2]].first \in S}

MaximumNeeded ==
  \A u \in Node : (\A v \in Node : m_out_degree[v] <= m_out_degree[u]) =>
    \/ m_out_degree[u] = 0
    \/ \E S \in SUBSET Node :
         Cardinality(SpannedArcs(S)) > (m_out_degree[u] - 1) * Cardinality(S)
=============================================================================
