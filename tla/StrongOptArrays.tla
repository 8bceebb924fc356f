--------------------------- MODULE StrongOptArrays ---------------------------
(****************************************************************************)
(* dyn_edge_orientation_strong_opt on its adjacency lists, step by step:    *)
(* the updates of the lists, the breadth-first search over list positions,  *)
(* the walk back over m_parent, and the flips, which use positions that the *)
(* search recorded before the first of them.                                *)
(*                                                                          *)
(* Parallel edges are in the model: the edge sequences of metis_to_sequence *)
(* hold every edge twice unless they are filtered.                          *)
(****************************************************************************)
EXTENDS PathFlips

CONSTANT MaxCopies     \* bound: the copies of one edge

ASSUME MaxCopiesAssumption == MaxCopies \in Nat \ {0}

VARIABLES edges,         \* how many copies of each edge the sequence has left
          bfsqueue,      \* nodes found and not yet expanded
          visited,       \* the nodes whose m_depth is not -1
          touched,       \* the nodes to reset when the search is over
          returned       \* history: graph and arcs when the last handler returned

search == <<direction, m_max_degree, bfsqueue, visited, m_parent, touched>>
vars == <<edges, lists, pc, search, walk, returned>>

\* The graph and its arcs without the order of the lists, for simple graphs.
Shown == [edges |-> {e \in Edge : edges[e] > 0},
          m_adj |-> OutNeighbours(m_adj, m_out_degree)]

Init ==
  /\ edges = [e \in Edge |-> 0]
  /\ m_adj = NoLists /\ m_out_degree = [v \in Node |-> 0]
  /\ pc = "idle"
  /\ direction = "forward" /\ m_max_degree = 0 /\ bfsqueue = <<>>
  /\ visited = {} /\ m_parent = [v \in Node |-> Cleared] /\ touched = {}
  /\ curNode = Cleared /\ path = <<>>
  /\ returned = [edges |-> {}, m_adj |-> NoArcs]

(****************************************************************************)
(* The handlers, up to the search they start.                               *)
(****************************************************************************)

startSearch(dir, source, bound) ==
  /\ pc' = "search" /\ direction' = dir /\ m_max_degree' = bound
  /\ bfsqueue' = <<source>>
  /\ visited' = visited \cup {source} /\ touched' = {source}
  /\ m_parent' = [m_parent EXCEPT ![source] = <<source, 0>>]
  /\ UNCHANGED <<walk, returned>>

insertArc(source, target) ==
  /\ m_adj' = ArcInserted(m_adj, m_out_degree, source, target)
  /\ m_out_degree' = [m_out_degree EXCEPT ![source] = @ + 1]
  /\ startSearch("forward", source, m_out_degree'[source] - 1)

handleInsertion(source, target) ==
  /\ pc = "idle"
  /\ source # target
  /\ edges[{source, target}] < MaxCopies
  /\ edges' = [edges EXCEPT ![{source, target}] = @ + 1]
  /\ IF m_out_degree[source] > m_out_degree[target]
       THEN insertArc(target, source)
       ELSE insertArc(source, target)

handleDeletion(source, target) ==
  /\ pc = "idle"
  /\ source # target
  /\ edges[{source, target}] > 0
  /\ edges' = [edges EXCEPT ![{source, target}] = @ - 1]
  /\ LET i == FirstEntry(m_adj, source, target)
         ref_target == m_adj[source][i].second
         sourceDone == EntryRemoved(m_adj, m_out_degree, source, i)
         degree == DegreeAfter(m_out_degree, source, i)
         decremented == IF ref_target <= degree[target] THEN target ELSE source
     IN  /\ m_adj' = EntryRemoved(sourceDone, degree, target, ref_target)
         /\ m_out_degree' = DegreeAfter(degree, target, ref_target)
         /\ startSearch("backward", decremented, m_out_degree'[decremented] + 1)

(****************************************************************************)
(* bfs_forward and bfs_backward.  One step takes a node from the queue and  *)
(* goes through its active or its passive entries in order, up to the first *)
(* that leads to a node on the far side of m_max_degree.                    *)
(****************************************************************************)
\* Variant of unfound: the depth of a node is not looked at.
foundAgain(v) == TRUE

\* m_depth[v] == -1
unfound(v) == v \notin visited

\* Variant of enqueued: the nodes are pushed in front.
enqueuedInFront(nodes) == nodes \o Tail(bfsqueue)

\* The queue after its first node has been expanded.
enqueued(nodes) == Tail(bfsqueue) \o nodes

expand ==
  LET node == Head(bfsqueue)
      range == scanned(node)
      at(i) == m_adj[node][i].first
      fresh == {i \in range : /\ unfound(at(i)) /\ admitted(at(i))
                              /\ \A j \in range : j < i => at(j) # at(i)}
      final == {i \in fresh : ends(at(i))}
      taken == {i \in fresh : \A j \in final : i <= j}
      order == InOrder(taken)
      found == {at(i) : i \in taken}
  IN  /\ pc = "search"
      /\ bfsqueue # <<>>
      /\ visited' = visited \cup found /\ touched' = touched \cup found
      /\ m_parent' = [v \in Node |->
                        IF v \in found
                          THEN <<node, CHOOSE i \in taken : at(i) = v>>
                          ELSE m_parent[v]]
      /\ IF final = {}
           THEN /\ bfsqueue' = enqueued([k \in 1..Cardinality(taken) |-> at(order[k])])
                /\ UNCHANGED <<pc, curNode>>
           ELSE /\ bfsqueue' = <<>>
                /\ pc' = "trace" /\ curNode' = at(order[Cardinality(taken)])
      /\ UNCHANGED <<edges, lists, direction, m_max_degree, path, returned>>

trace == walkBack /\ UNCHANGED <<edges, bfsqueue, visited, touched, returned>>

flip == flipNext /\ UNCHANGED <<edges, bfsqueue, visited, touched, returned>>

\* Variant: the nodes still in the queue when the search succeeds are not reset.
finishQueueOnly ==
  /\ \/ pc = "search" /\ bfsqueue = <<>>
     \/ pc = "flip" /\ path = <<>>
  /\ visited' = IF pc = "search" THEN visited \ touched ELSE visited
  /\ touched' = {}
  /\ m_parent' = [v \in Node |-> IF v \in touched THEN Cleared ELSE m_parent[v]]
  /\ pc' = "idle"
  /\ direction' = "forward" /\ m_max_degree' = 0
  /\ returned' = Shown
  /\ UNCHANGED <<edges, lists, bfsqueue, walk>>

finish ==
  /\ \/ pc = "search" /\ bfsqueue = <<>>
     \/ pc = "flip" /\ path = <<>>
  /\ visited' = visited \ touched /\ touched' = {}
  /\ m_parent' = [v \in Node |-> IF v \in touched THEN Cleared ELSE m_parent[v]]
  /\ pc' = "idle"
  /\ direction' = "forward" /\ m_max_degree' = 0
  /\ returned' = Shown
  /\ UNCHANGED <<edges, lists, bfsqueue, walk>>

handlerStep == expand \/ trace \/ flip \/ finish

Next == \/ \E source, target \in Node : \/ handleInsertion(source, target)
                                        \/ handleDeletion(source, target)
        \/ handlerStep

\* The only thread of the program runs a handler to its end.
Spec == Init /\ [][Next]_vars /\ WF_vars(handlerStep)

-----------------------------------------------------------------------------
(****************************************************************************)
(* Properties.                                                              *)
(****************************************************************************)

\* After every list update and every single flip, every entry and its mirror name
\* each other and lie on different sides of the border of the active entries,
\* parallel edges included (the check that checkmaxdegree in the header describes).
Linked == MirrorsAgree(m_adj) /\ OneSideActive(m_adj, m_out_degree)

\* The lists have as many entries for an edge, on both sides, as the graph has
\* copies of it: a deletion removes one copy, and the same one from both lists.
EntriesMatchGraph ==
  \A u, v \in Node :
    Multiplicity(m_adj, u, v) = IF u = v THEN 0 ELSE edges[{u, v}]

\* A search leaves no trace for the next one.
SearchStateClean ==
  pc = "idle" => visited = {} /\ m_parent = [v \in Node |-> Cleared]

\* Whenever a handler has returned, no orientation of the multigraph has a smaller
\* maximum out-degree.
OptimalMultigraph == pc = "idle" => MaximumNeeded

\* On simple graphs a handler, from its call to its return, is one step of
\* StrongOpt: the search over positions finds a shortest path, and flipping its
\* entries one by one turns that path and nothing else.
Atomic == INSTANCE StrongOpt WITH edges <- returned.edges, m_adj <- returned.m_adj
Implements == Atomic!Spec

\* Every handler returns.
HandlerReturns == pc # "idle" ~> pc = "idle"
=============================================================================
