---------------------------- MODULE DynGraphAccess ----------------------------
(****************************************************************************)
(* dyn_graph_access: the directed graph in which an algorithm leaves its    *)
(* orientation.  Every node has a list of targets; two maps per node hold,  *)
(* for every arc, its position in that list: one by target at the source,   *)
(* one by source at the target.  A graph is a record; positions count       *)
(* from 1; nodes are numbered from 0 (NumberedAssumption of                 *)
(* SequenceGenerator).                                                      *)
(****************************************************************************)
EXTENDS Orientations, SequencesExt, TLC

LOCAL Static == INSTANCE GraphAccess

NoMap == [v \in {} |-> 0]

EmptyGraph ==
  [m_edges |-> [v \in Node |-> <<>>],
   m_edges_maps |-> [v \in Node |-> NoMap],
   m_rev_edges_maps |-> [v \in Node |-> NoMap],
   edge_count |-> 0]

isEdge(G, source, target) == target \in DOMAIN G.m_edges_maps[source]

\* The map with one key set, and with one key erased.
set(map, key, value) == (key :> value) @@ map
erased(map, key) == [k \in DOMAIN map \ {key} |-> map[k]]

\* An arc that is there already is not added again.
new_edge(G, source, target) ==
  IF isEdge(G, source, target)
    THEN G
    ELSE LET i == Len(G.m_edges[source]) + 1
         IN  [m_edges |-> [G.m_edges EXCEPT ![source] = Append(@, target)],
              m_edges_maps |-> [G.m_edges_maps EXCEPT ![source] = set(@, target, i)],
              m_rev_edges_maps |-> [G.m_rev_edges_maps EXCEPT ![target] = set(@, source, i)],
              edge_count |-> G.edge_count + 1]

\* Variant: the position of the moved arc is not changed at its target.
remove_edge_unreversed(G, source, target) ==
  IF ~isEdge(G, source, target)
    THEN G
    ELSE LET i == G.m_edges_maps[source][target]
             moved == Last(G.m_edges[source])
         IN  [m_edges |-> [G.m_edges EXCEPT ![source] = Front([@ EXCEPT ![i] = moved])],
              m_edges_maps |-> [G.m_edges_maps EXCEPT ![source] =
                                  erased(set(@, moved, i), target)],
              m_rev_edges_maps |-> [G.m_rev_edges_maps EXCEPT ![target] = erased(@, source)],
              edge_count |-> G.edge_count - 1]

\* The last arc of the list takes the place of the removed one; when they are
\* the same, its positions are written once more and then erased.
remove_edge(G, source, target) ==
  IF ~isEdge(G, source, target)
    THEN G
    ELSE LET i == G.m_edges_maps[source][target]
             moved == Last(G.m_edges[source])
             moveReversed == [G.m_rev_edges_maps EXCEPT ![moved] = set(@, source, i)]
         IN  [m_edges |-> [G.m_edges EXCEPT ![source] = Front([@ EXCEPT ![i] = moved])],
              m_edges_maps |-> [G.m_edges_maps EXCEPT ![source] =
                                  erased(set(@, moved, i), target)],
              m_rev_edges_maps |-> [moveReversed EXCEPT ![target] = erased(@, source)],
              edge_count |-> G.edge_count - 1]

number_of_edges(G) == G.edge_count

getNodeDegree(G, v) == Len(G.m_edges[v])

maxDegree(G) ==
  CHOOSE k \in {0} \cup {getNodeDegree(G, v) : v \in Node} :
    \A v \in Node : getNodeDegree(G, v) <= k

\* The arcs in the order of two nested loops over the nodes and their lists.
ArcSequence(G) ==
  FlattenSeq([k \in 1..Cardinality(Node) |->
    [j \in DOMAIN G.m_edges[k - 1] |-> <<k - 1, G.m_edges[k - 1][j]>>]])

\* Every arc goes into the lists of both its ends.
convert_to_graph_access(G) ==
  LET both(rows, arc) == [rows EXCEPT ![arc[1]] = Append(@, arc[2]),
                                      ![arc[2]] = Append(@, arc[1])]
      rows == FoldLeft(both, [v \in Node |-> <<>>], ArcSequence(G))
  IN  Static!Built(rows, Cardinality(Node), 2 * G.edge_count)

\* The orientation as sets of out-neighbours.
Arcs(G) == [v \in Node |-> ToSet(G.m_edges[v])]
=============================================================================
