----------------------------- MODULE GraphAccess -----------------------------
(****************************************************************************)
(* graph_access: a static graph as an adjacency array.  The edges lie in    *)
(* one array, sorted by source; m_nodes[v] is the number of edges that come *)
(* before those of v.  It is built once, by calls that go through the nodes *)
(* in ascending order; nodes without edges are filled in as they are passed *)
(* over.  A graph, finished or not, is a record.                            *)
(****************************************************************************)
EXTENDS Integers, Sequences, SequencesExt

\* The edges array has room for m edges; m_edges are those written so far, and the
\* code's counter e is their number.
start_construction(n, m) ==
  [m_nodes |-> [v \in 0..n |-> 0], m_edges |-> <<>>, room |-> m,
   node |-> 0, m_last_source |-> -1]

new_node(H) == [H EXCEPT !.node = @ + 1]

\* Variant: the nodes that are passed over are left at 0.
filledNever(firstEdge, last_source, upto) == firstEdge

\* The nodes without edges between the last source and upto begin where the first
\* of them does.
filled(firstEdge, last_source, upto) ==
  [v \in DOMAIN firstEdge |->
     IF v \in last_source + 2..upto THEN firstEdge[last_source + 1] ELSE firstEdge[v]]

new_edge(H, source, target) ==
  [H EXCEPT !.m_edges = Append(@, target),
            !.m_nodes = filled([@ EXCEPT ![source + 1] = Len(H.m_edges) + 1],
                               H.m_last_source, source),
            !.m_last_source = source]

\* Both arrays are cut to what was written.
finish_construction(H) ==
  [H EXCEPT !.m_nodes = filled([v \in 0..H.node |-> @[v]], H.m_last_source, H.node)]

number_of_edges(H) == Len(H.m_edges)

\* The targets of the edges from get_first_edge to get_first_invalid_edge.
Row(H, v) == SubSeq(H.m_edges, H.m_nodes[v] + 1, H.m_nodes[v + 1])

\* Every caller builds a graph this way: rows[v] are the targets of node v, and
\* m is at least the number of edges that follow.
Built(rows, n, m) ==
  LET addNode(H, v) == FoldLeft(LAMBDA G, target : new_edge(G, v, target), new_node(H), rows[v])
  IN  finish_construction(
        FoldLeft(LAMBDA H, k : addNode(H, k - 1), start_construction(n, m), [k \in 1..n |-> k]))
=============================================================================
