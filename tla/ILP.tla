--------------------------------- MODULE ILP ---------------------------------
(****************************************************************************)
(* dyn_edge_orientation_ILP: collects the current graph and has an integer  *)
(* program solved at the end.  It works on sequences without parallel       *)
(* edges, for which every edge has one variable per direction.              *)
(****************************************************************************)
EXTENDS DynGraphAccess

VARIABLE GOrientation     \* the graph of the driver, here with arbitrary directions

LOCAL Static == INSTANCE GraphAccess

handleInsertion(source, target) == GOrientation' = new_edge(GOrientation, target, source)

\* The direction that is not there is ignored.
handleDeletion(source, target) ==
  GOrientation' = remove_edge(remove_edge(GOrientation, target, source), source, target)

Undirected(G) == {e \in Edge : \E u, v \in e : u # v /\ isEdge(G, u, v)}

Largest(adj) == CHOOSE k \in 0..Cardinality(Node) : IsMaxOutDegree(adj, k)

\* The solver: its variables give every edge one direction, with the smallest
\* maximum out-degree.
Solutions ==
  LET edges == Undirected(GOrientation)
      feasible == {[v \in Node |-> {w \in Node : {v, w} \in edges /\ tail[{v, w}] = v}] :
                     tail \in TailChoices(edges)}
      phi == CHOOSE k \in 0..Cardinality(Node) :
               /\ \E adj \in feasible : Largest(adj) = k
               /\ \A adj \in feasible : Largest(adj) >= k
  IN  {adj \in feasible : Largest(adj) = phi}

\* The directions with value 1, collected into a static graph row by row.
solveUsingILP(solution) ==
  LET G_undirected == convert_to_graph_access(GOrientation)
      chosen(v) == SelectSeq(Static!Row(G_undirected, v), LAMBDA w : w \in solution[v])
  IN  Static!Built([v \in Node |-> chosen(v)], Cardinality(Node),
                   Static!number_of_edges(G_undirected))

\* end(): the directions collected before are removed, those of the solution added.
solveILP ==
  \E solution \in Solutions :
    LET G == solveUsingILP(solution)
        rows == [k \in 1..Cardinality(Node) |->
                   [j \in DOMAIN Static!Row(G, k - 1) |-> <<k - 1, Static!Row(G, k - 1)[j]>>]]
        emptied == FoldLeft(LAMBDA H, arc : remove_edge(H, arc[1], arc[2]),
                            GOrientation, ArcSequence(GOrientation))
    IN  GOrientation' = FoldLeft(LAMBDA H, arc : new_edge(H, arc[1], arc[2]),
                                 emptied, FlattenSeq(rows))
=============================================================================
