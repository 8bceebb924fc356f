------------------------------ MODULE StrongOpt ------------------------------
(****************************************************************************)
(* dyn_edge_orientation_strong_opt: an exact algorithm that repairs the     *)
(* orientation after every update with one breadth-first search.            *)
(*                                                                          *)
(* One action is one call of a handler.  The handlers run to completion on  *)
(* a single thread, so nothing is observed between their steps; module      *)
(* StrongOptArrays models the steps.                                        *)
(****************************************************************************)
EXTENDS Orientations

VARIABLES edges,      \* the graph the edge sequence describes so far
          m_adj       \* the active entries of each adjacency list

vars == <<edges, m_adj>>

Init == edges = {} /\ m_adj = NoArcs

\* Variant: no search after an insertion.
insertArcOnly(source, target) ==
  /\ edges' = edges \cup {{source, target}}
  /\ m_adj' = [m_adj EXCEPT ![source] = @ \cup {target}]

(****************************************************************************)
(* The new edge leaves the end point of smaller out-degree; a search from   *)
(* there along out-arcs moves the added out-degree to a lower node, if any. *)
(****************************************************************************)
insertArc(source, target) ==
  /\ edges' = edges \cup {{source, target}}
  /\ m_adj' \in bfs_forward([m_adj EXCEPT ![source] = @ \cup {target}], source)

handleInsertion(source, target) ==
  /\ source # target
  /\ {source, target} \notin edges
  /\ IF OutDegree(m_adj, source) > OutDegree(m_adj, target)
       THEN insertArc(target, source)
       ELSE insertArc(source, target)

\* Variant: the search starts at the other end of the deleted arc.
deleteArcFromHead(tail, head) ==
  /\ edges' = edges \ {{tail, head}}
  /\ m_adj' \in bfs_backward([m_adj EXCEPT ![tail] = @ \ {head}], head)

(****************************************************************************)
(* The node that loses an out-neighbour takes one back, if it can, from a   *)
(* node that has at least two more than it, along a path of in-arcs.        *)
(****************************************************************************)
deleteArc(tail, head) ==
  /\ edges' = edges \ {{tail, head}}
  /\ m_adj' \in bfs_backward([m_adj EXCEPT ![tail] = @ \ {head}], tail)

handleDeletion(source, target) ==
  /\ {source, target} \in edges
  /\ IF target \in m_adj[source] THEN deleteArc(source, target)
                                 ELSE deleteArc(target, source)

Next == \E source, target \in Node : \/ handleInsertion(source, target)
                                     \/ handleDeletion(source, target)

Spec == Init /\ [][Next]_vars

-----------------------------------------------------------------------------
(****************************************************************************)
(* Properties.                                                              *)
(****************************************************************************)

\* The graph has edges between distinct nodes, the lists hold nodes.
TypeOK == edges \subseteq Edge /\ m_adj \in Digraph

\* After every update each edge of the graph has exactly one direction in the
\* lists and no other arc is left: flipping a path of a search that ran on the
\* updated lists loses and invents none.
Oriented == IsOrientation(m_adj, edges)

\* No node reaches one whose out-degree is two or more below its own.  It is
\* what a single search per update has to restore, and why one is enough.
NoImprovingPath ==
  \A u \in Node : \A v \in Reachable(m_adj, u) :
    OutDegree(m_adj, u) <= OutDegree(m_adj, v) + 1

\* The maximum out-degree is the smallest any orientation of the graph has
\* ("the exact algorithm maintains an optimal edge orientation").
Optimal == IsOptimal(m_adj, edges)

\* Whatever path is flipped, an update moves the out-degree of one node only,
\* and by one: the inner nodes of a flipped path keep theirs, and the node at
\* which the search starts gets back what the update took or gave.
DegreeChanges == {v \in Node : OutDegree(m_adj, v)' # OutDegree(m_adj, v)}

OneDegreeChanges ==
  [][\E v \in Node :
       /\ DegreeChanges = {v}
       /\ OutDegree(m_adj, v)' - OutDegree(m_adj, v)
            = Cardinality(edges') - Cardinality(edges)]_vars

\* Every call is one the interface allows and leaves an optimal orientation.
Abstract == INSTANCE OptimalOrientation
Implements == Abstract!OptimalSpec
=============================================================================
