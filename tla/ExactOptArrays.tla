---------------------------- MODULE ExactOptArrays ----------------------------
(****************************************************************************)
(* dyn_edge_orientation_strong_opt_dfs, ..._improved_opt_dfs and            *)
(* ..._improved_opt on their adjacency lists, step by step.                 *)
(*                                                                          *)
(* All three keep the lists of strong_opt.  The first searches after every  *)
(* update, the other two only around the nodes of maximum out-degree, which *)
(* they count.  Two search depth-first, with a stack and an index of the    *)
(* next entry per node; in find_optimal improved_opt_dfs lets all searches  *)
(* of a round share these indices and the visited nodes.  None of them      *)
(* clears m_parent.                                                         *)
(****************************************************************************)
EXTENDS PathFlips, SequencesExt

CONSTANT MaxCopies     \* bound: the copies of one edge

ASSUME MaxCopiesAssumption == MaxCopies \in Nat \ {0}

\* find_optimal visits the nodes in ascending order.
ASSUME NumberedAssumption == Node = 0..Cardinality(Node) - 1

VARIABLES algorithm,          \* the class behind the interface, chosen once
          edges,              \* how many copies of each edge the sequence has left
          max_out_degree,     \* the algorithm's account of the maximum,
          max_node_count,     \*   and of the number of nodes that have it
          caller,             \* which call the search returns to
          open,               \* dfsStack (its top is last) or bfsqueue
          visited,            \* the nodes found
          child_index,        \* how many entries of a node have been looked at
          touched,            \* the nodes to reset
          i,                  \* find_optimal: the next node of the round,
          path_improved,      \*   some search of the round has succeeded,
          all_path_improved,  \*   every search of the round has succeeded
          lapsed              \* history: find_optimal was skipped with edges left

counters == <<max_out_degree, max_node_count>>
search == <<direction, m_max_degree, m_parent, open, visited, child_index, touched>>
loop == <<i, path_improved, all_path_improved>>
vars == <<algorithm, edges, lists, counters, pc, caller, search, walk, loop, lapsed>>

Algorithms == {"STRONG_OPT_DFS", "IMPROVED_OPT_DFS", "IMPROVED_OPT"}

depthFirst == algorithm # "IMPROVED_OPT"

\* The searches of a round share visited, child_index and touched.
shared == algorithm = "IMPROVED_OPT_DFS" /\ caller = "find_optimal"

Init ==
  /\ algorithm \in Algorithms
  /\ edges = [e \in Edge |-> 0]
  /\ m_adj = NoLists /\ m_out_degree = [v \in Node |-> 0]
  /\ max_out_degree = 0 /\ max_node_count = 0
  /\ pc = "idle" /\ caller = "none"
  /\ direction = "forward" /\ m_max_degree = 0
  /\ m_parent = [v \in Node |-> <<0, 1>>]
  /\ open = <<>> /\ visited = {} /\ child_index = [v \in Node |-> 0] /\ touched = {}
  /\ curNode = Cleared /\ path = <<>>
  /\ i = 0 /\ path_improved = FALSE /\ all_path_improved = TRUE
  /\ lapsed = FALSE

(****************************************************************************)
(* A search begins.                                                         *)
(****************************************************************************)
startSearch(dir, source, for) ==
  /\ pc' = "search" /\ caller' = for /\ direction' = dir
  /\ m_max_degree' = m_out_degree'[source] + (IF dir = "forward" THEN -1 ELSE 1)
  /\ open' = <<source>>
  /\ visited' = visited \cup {source} /\ touched' = touched \cup {source}
  /\ m_parent' = [m_parent EXCEPT ![source] = <<source, 1>>]
  /\ UNCHANGED <<child_index, walk>>

noSearch == UNCHANGED <<pc, caller, search, walk>>

\* Variant: a second out-neighbour is not worth a search either.
worthwhileFromThree(source) == m_out_degree'[source] > 2

\* dfs_forward_correct_2 and bfs_forward give up at once on a single out-neighbour.
worthwhile(source) == m_out_degree'[source] > 1

(****************************************************************************)
(* Insertion.  source is the end point of smaller out-degree.               *)
(****************************************************************************)
insertArc(source, target) ==
  /\ m_adj' = ArcInserted(m_adj, m_out_degree, source, target)
  /\ m_out_degree' = [m_out_degree EXCEPT ![source] = @ + 1]

insertion_strong_opt_dfs(source, target) ==
  /\ algorithm = "STRONG_OPT_DFS"
  /\ insertArc(source, target)
  /\ IF worthwhile(source) THEN startSearch("forward", source, "insertion") ELSE noSearch
  /\ UNCHANGED <<counters, loop, lapsed>>

\* Variant: the node that a path lifts to the maximum is not counted.
countRaisedUnlifted(degree, found) ==
  IF degree = max_out_degree
    THEN /\ max_node_count' = max_node_count + (IF found THEN 0 ELSE 1)
         /\ UNCHANGED max_out_degree
    ELSE IF found
      THEN UNCHANGED counters
      ELSE max_node_count' = 1 /\ max_out_degree' = max_out_degree + 1

\* The counters when the search of an insertion has succeeded, or found nothing.
countRaised(degree, found) ==
  IF degree = max_out_degree
    THEN /\ max_node_count' = max_node_count + (IF found THEN 0 ELSE 1)
         /\ UNCHANGED max_out_degree
    ELSE IF found
      THEN max_node_count' = max_node_count + 1 /\ UNCHANGED max_out_degree
      ELSE max_node_count' = 1 /\ max_out_degree' = max_out_degree + 1

insertion_improved_opt_dfs(source, target) ==
  /\ algorithm # "STRONG_OPT_DFS"
  /\ insertArc(source, target)
  /\ LET degree == m_out_degree[source] + 1
     IN  IF degree \notin {max_out_degree, max_out_degree + 1}
           THEN noSearch /\ UNCHANGED counters
           ELSE IF worthwhile(source)
             THEN startSearch("forward", source, "insertion") /\ UNCHANGED counters
             ELSE noSearch /\ countRaised(degree, FALSE)
  /\ UNCHANGED <<loop, lapsed>>

handleInsertion(source, target) ==
  /\ pc = "idle"
  /\ source # target
  /\ edges[{source, target}] < MaxCopies
  /\ edges' = [edges EXCEPT ![{source, target}] = @ + 1]
  /\ LET s == IF m_out_degree[source] > m_out_degree[target] THEN target ELSE source
         t == IF s = source THEN target ELSE source
     IN  insertion_strong_opt_dfs(s, t) \/ insertion_improved_opt_dfs(s, t)
  /\ UNCHANGED algorithm

(****************************************************************************)
(* Deletion.  decremented loses an active entry.                            *)
(****************************************************************************)
\* Variant: a round starts as if a search had succeeded.
beginRoundImproved == i' = 0 /\ path_improved' = TRUE /\ all_path_improved' = TRUE

beginRound == i' = 0 /\ path_improved' = FALSE /\ all_path_improved' = TRUE

\* find_optimal is called when no node is left at the maximum; at a lowered maximum
\* of 1 or less it returns at once, without counting.
lowerIfNone(count) ==
  IF count = 0
    THEN /\ max_out_degree' = max_out_degree - 1
         /\ IF max_out_degree' > 1
              THEN pc' = "find_optimal" /\ beginRound /\ UNCHANGED lapsed
              ELSE /\ pc' = "idle" /\ UNCHANGED loop
                   /\ lapsed' = (lapsed \/ \E e \in Edge : edges'[e] > 0)
    ELSE pc' = "idle" /\ UNCHANGED <<max_out_degree, loop, lapsed>>

\* The end point at whose list the deleted edge was active.
decremented(source, target) ==
  LET ref_target == m_adj[source][FirstEntry(m_adj, source, target)].second
  IN  IF ref_target <= m_out_degree[target] THEN target ELSE source

removeEdge(source, target) ==
  LET e == FirstEntry(m_adj, source, target)
      ref_target == m_adj[source][e].second
      sourceDone == EntryRemoved(m_adj, m_out_degree, source, e)
      degree == DegreeAfter(m_out_degree, source, e)
  IN  /\ m_adj' = EntryRemoved(sourceDone, degree, target, ref_target)
      /\ m_out_degree' = DegreeAfter(degree, target, ref_target)

deletion_strong_opt_dfs(source, target) ==
  /\ algorithm = "STRONG_OPT_DFS"
  /\ removeEdge(source, target)
  /\ startSearch("backward", decremented(source, target), "deletion")
  /\ UNCHANGED <<counters, loop, lapsed>>

deletion_improved_opt_dfs(source, target) ==
  /\ algorithm # "STRONG_OPT_DFS"
  /\ removeEdge(source, target)
  /\ LET degree == m_out_degree'[decremented(source, target)]
     IN  \/ /\ degree = max_out_degree - 2
            /\ startSearch("backward", decremented(source, target), "deletion")
            /\ UNCHANGED <<counters, loop, lapsed>>
         \/ /\ degree # max_out_degree - 2
            /\ max_node_count' =
                 max_node_count - (IF degree = max_out_degree - 1 THEN 1 ELSE 0)
            /\ lowerIfNone(max_node_count')
            /\ UNCHANGED <<caller, search, walk>>

handleDeletion(source, target) ==
  /\ pc = "idle"
  /\ source # target
  /\ edges[{source, target}] > 0
  /\ edges' = [edges EXCEPT ![{source, target}] = @ - 1]
  /\ \/ deletion_strong_opt_dfs(source, target)
     \/ deletion_improved_opt_dfs(source, target)
  /\ UNCHANGED algorithm

(****************************************************************************)
(* Depth-first search.  One step takes a node from the stack.  On its first *)
(* visit all its entries are checked for a node at which the search ends;   *)
(* then the search goes down the next entry that leads to a node not found  *)
(* yet, and comes back to this node for the ones behind it.                 *)
(****************************************************************************)
First(S) == CHOOSE e \in S : \A f \in S : e <= f

\* The entries from child_index on that lead to nodes not found yet.
following(node) ==
  {e \in scanned(node) :
     LET target == m_adj[node][e].first
         before == IF direction = "forward" THEN 0 ELSE m_out_degree[node]
     IN  /\ e > before + child_index[node]
         /\ target \notin visited /\ admitted(target)}

expandTop ==
  LET node == Last(open)
      target(e) == m_adj[node][e].first
      border == IF direction = "forward" THEN 0 ELSE m_out_degree[node]
      looked == IF child_index[node] = 0
                  THEN {e \in scanned(node) : ends(target(e))} ELSE {}
      next == following(node)
      down == next # {} /\ ~ends(target(First(next)))
      finals == (IF next = {} \/ down THEN {} ELSE {First(next)})
                  \cup (IF looked = {} THEN {} ELSE {First(looked)})
  IN  /\ pc = "search"
      /\ open # <<>>
      /\ child_index' = [child_index EXCEPT ![node] =
           IF next # {} THEN First(next) - border
                        ELSE IF @ < Cardinality(scanned(node)) THEN Cardinality(scanned(node))
                                                               ELSE @]
      /\ LET found == IF next = {} THEN finals ELSE finals \cup {First(next)}
         IN  m_parent' = [v \in Node |->
               IF \E e \in found : target(e) = v
                 THEN <<node, First({e \in found : target(e) = v})>> ELSE m_parent[v]]
      /\ IF down THEN /\ visited' = visited \cup {target(First(next))}
                      /\ touched' = touched \cup {target(First(next))}
                 ELSE UNCHANGED <<visited, touched>>
      /\ IF finals # {}
           THEN /\ pc' = "trace" /\ open' = <<>>
                /\ curNode' = IF next = {} \/ down THEN target(First(looked))
                                                   ELSE target(First(next))
           ELSE /\ open' = IF down THEN Append(open, target(First(next))) ELSE Front(open)
                /\ UNCHANGED <<pc, curNode>>
      /\ UNCHANGED <<algorithm, edges, lists, counters, caller, direction, m_max_degree,
                     path, loop, lapsed>>

dfs_forward_correct_2 == direction = "forward" /\ depthFirst /\ ~shared /\ expandTop

dfs_backward_correct_2 == direction = "backward" /\ depthFirst /\ expandTop

dfs_forward_shared_visited_correct_2 == shared /\ expandTop

(****************************************************************************)
(* Breadth-first search, as in StrongOptArrays.                             *)
(****************************************************************************)
bfs ==
  LET node == Head(open)
      target(e) == m_adj[node][e].first
      fresh == {e \in scanned(node) :
                  /\ target(e) \notin visited /\ admitted(target(e))
                  /\ \A f \in scanned(node) : f < e => target(f) # target(e)}
      final == {e \in fresh : ends(target(e))}
      taken == {e \in fresh : \A f \in final : e <= f}
      order == InOrder(taken)
      found == {target(e) : e \in taken}
  IN  /\ pc = "search"
      /\ ~depthFirst
      /\ open # <<>>
      /\ visited' = visited \cup found /\ touched' = touched \cup found
      /\ m_parent' = [v \in Node |->
                        IF v \in found
                          THEN <<node, CHOOSE e \in taken : target(e) = v>>
                          ELSE m_parent[v]]
      /\ IF final = {}
           THEN /\ open' = Tail(open) \o [k \in DOMAIN order |-> target(order[k])]
                /\ UNCHANGED <<pc, curNode>>
           ELSE open' = <<>> /\ pc' = "trace" /\ curNode' = target(Last(order))
      /\ UNCHANGED <<algorithm, edges, lists, counters, caller, direction, m_max_degree,
                     child_index, path, loop, lapsed>>

(****************************************************************************)
(* The path found is collected and turned.  A search that shares visited    *)
(* gives the inner nodes of its path, and its source, back to the others.   *)
(****************************************************************************)
trace ==
  /\ walkBack
  /\ visited' = IF shared THEN visited \ {m_parent[curNode][1]} ELSE visited
  /\ UNCHANGED <<algorithm, edges, counters, caller, open, child_index, touched, loop,
                 lapsed>>

otherThanFlips == <<algorithm, edges, counters, caller, open, visited, child_index,
                    touched, loop, lapsed>>

flip_active_edge == direction = "forward" /\ flipNext /\ UNCHANGED otherThanFlips

flip_reverse_edge == direction = "backward" /\ flipNext /\ UNCHANGED otherThanFlips

(****************************************************************************)
(* The search returns to the function that called it.                       *)
(****************************************************************************)
failed == pc = "search" /\ open = <<>>
succeeded == pc = "flip" /\ path = <<>>

\* Variant: only the nodes are taken out of visited.
resetTouchedOnly ==
  /\ visited' = visited \ touched /\ touched' = {}
  /\ UNCHANGED child_index

resetTouched ==
  /\ visited' = visited \ touched
  /\ child_index' = [v \in Node |-> IF v \in touched THEN 0 ELSE child_index[v]]
  /\ touched' = {}

\* The variables of the search that are local in the code.
closeSearch ==
  /\ caller' = "none" /\ direction' = "forward" /\ m_max_degree' = 0
  /\ UNCHANGED <<algorithm, edges, lists, m_parent, open, walk>>

returnFromInsertion ==
  /\ caller = "insertion"
  /\ failed \/ succeeded
  /\ IF algorithm = "STRONG_OPT_DFS" THEN UNCHANGED counters
                                     ELSE countRaised(m_max_degree + 1, succeeded)
  /\ pc' = "idle"
  /\ resetTouched /\ closeSearch
  /\ UNCHANGED <<loop, lapsed>>

returnFromDeletion ==
  /\ caller = "deletion"
  /\ failed \/ succeeded
  /\ resetTouched /\ closeSearch
  /\ IF algorithm = "STRONG_OPT_DFS"
       THEN pc' = "idle" /\ UNCHANGED <<counters, loop, lapsed>>
       ELSE /\ max_node_count' = max_node_count - (IF succeeded THEN 1 ELSE 0)
            /\ lowerIfNone(max_node_count')

returnFromRound ==
  /\ caller = "find_optimal"
  /\ failed \/ succeeded
  /\ path_improved' = (path_improved \/ succeeded)
  /\ all_path_improved' = (all_path_improved /\ succeeded)
  /\ pc' = "find_optimal"
  /\ IF shared THEN UNCHANGED <<visited, child_index, touched>> ELSE resetTouched
  /\ closeSearch
  /\ UNCHANGED <<counters, i, lapsed>>

(****************************************************************************)
(* find_optimal and find_optimal_shared_visited_correct_2.                  *)
(****************************************************************************)
ahead == {v \in Node : v >= i /\ m_out_degree[v] = max_out_degree}

tryNode ==
  /\ pc = "find_optimal"
  /\ ahead # {}
  /\ UNCHANGED <<algorithm, edges, lists, counters, path_improved, lapsed>>
  /\ i' = First(ahead) + 1
  /\ IF depthFirst \/ max_out_degree > 1
       THEN startSearch("forward", First(ahead), "find_optimal") /\ UNCHANGED all_path_improved
       ELSE all_path_improved' = FALSE /\ noSearch

endRound ==
  /\ pc = "find_optimal"
  /\ ahead = {}
  /\ max_out_degree' = max_out_degree - (IF all_path_improved THEN 1 ELSE 0)
  /\ IF path_improved
       THEN beginRound /\ UNCHANGED <<max_node_count, pc>>
       ELSE /\ max_node_count' = max_node_count
                 + Cardinality({v \in Node : m_out_degree[v] = max_out_degree'})
            /\ pc' = "idle" /\ UNCHANGED loop
  /\ resetTouched
  /\ closeSearch /\ UNCHANGED lapsed

handlerStep == \/ dfs_forward_correct_2 \/ dfs_backward_correct_2
               \/ dfs_forward_shared_visited_correct_2 \/ bfs
               \/ trace \/ flip_active_edge \/ flip_reverse_edge
               \/ returnFromInsertion \/ returnFromDeletion \/ returnFromRound
               \/ tryNode \/ endRound

Next == \/ \E source, target \in Node : \/ handleInsertion(source, target)
                                        \/ handleDeletion(source, target)
        \/ handlerStep

\* The only thread of the program runs a handler to its end.
Fairness == WF_vars(handlerStep)

Spec == Init /\ [][Next]_vars /\ Fairness

-----------------------------------------------------------------------------
(****************************************************************************)
(* Properties; PathStaysValid is stated in PathFlips.                       *)
(****************************************************************************)

\* Between updates the lists are linked, and nothing of a search is left but
\* m_parent: the next search finds every node unvisited and every index at 0.
SearchStateClean ==
  pc = "idle" =>
    /\ MirrorsAgree(m_adj) /\ OneSideActive(m_adj, m_out_degree)
    /\ visited = {} /\ touched = {} /\ child_index = [v \in Node |-> 0]

\* As long as find_optimal has never been skipped with edges left, the counters of
\* the two improved algorithms agree with the lists, parallel edges included.
CountersExact ==
  pc = "idle" /\ algorithm # "STRONG_OPT_DFS" /\ ~lapsed =>
    /\ \A v \in Node : m_out_degree[v] <= max_out_degree
    /\ max_node_count = IF \A e \in Edge : edges[e] = 0 THEN 0
                        ELSE Cardinality({v \in Node : m_out_degree[v] = max_out_degree})

\* Until then, and for strong_opt_dfs always, the orientation is optimal when a
\* handler returns, although a search may fail only because an earlier one of the
\* same round has marked the nodes it needs.
OptimalUntilLapse == pc = "idle" /\ ~lapsed => MaximumNeeded

\* Every handler returns: the searches end, the walk back reaches the source over
\* parents that are never cleared, and the rounds of find_optimal end.
HandlerReturns == pc # "idle" ~> pc = "idle"
=============================================================================
