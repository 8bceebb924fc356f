----------------------------- MODULE ImprovedOpt -----------------------------
(****************************************************************************)
(* dyn_edge_orientation_improved_opt: the exact algorithm that searches     *)
(* only from nodes of maximum out-degree.  It counts these nodes; when the  *)
(* last of them is gone it lowers the maximum and lets find_optimal improve *)
(* the nodes that are now the highest, in rounds, until none can be.        *)
(*                                                                          *)
(* handleInsertion is one action.  handleDeletion is one action up to its   *)
(* call of find_optimal, whose loop over the nodes is modelled step by      *)
(* step: deciding that its rounds end is the point of modelling it.         *)
(****************************************************************************)
EXTENDS Orientations

CONSTANTS Depth,  \* bound: deletions are explored while max_out_degree > -Depth
          Order   \* the pairs of nodes of which find_optimal visits the first before
                  \*   the second: the ascending ones in the code, {} leaves it open

ASSUME DepthAssumption == Depth \in Nat

ASSUME OrderAssumption ==
  /\ Order \subseteq Node \X Node
  /\ \A S \in SUBSET Node : S # {} => \E i \in S : \A j \in S : <<j, i>> \notin Order

VARIABLES edges,              \* the graph the edge sequence describes so far
          m_adj,              \* the active entries of each adjacency list
          max_out_degree,     \* the algorithm's account of the maximum,
          max_node_count,     \*   and of the number of nodes that have it
          pc,                 \* "idle", or "find_optimal" inside that function
          todo,               \* find_optimal: the nodes still ahead in this round,
          path_improved,      \*   some search of the round has succeeded,
          all_path_improved,  \*   every search of the round has succeeded
          lapsed              \* history: find_optimal was skipped with edges left

graph == <<edges, m_adj>>
counters == <<max_out_degree, max_node_count>>
loop == <<todo, path_improved, all_path_improved>>
vars == <<graph, counters, pc, loop, lapsed>>

Init ==
  /\ edges = {} /\ m_adj = NoArcs
  /\ max_out_degree = 0 /\ max_node_count = 0
  /\ pc = "idle" /\ lapsed = FALSE
  /\ todo = {} /\ path_improved = FALSE /\ all_path_improved = TRUE

\* bfs_forward gives up at once on a node with a single out-neighbour.
ForwardResults(adj, s) ==
  IF OutDegree(adj, s) > 1 THEN Shortest(ForwardPaths(adj, s)) ELSE {}

BackwardResults(adj, s) == Shortest(BackwardPaths(adj, s))

(****************************************************************************)
(* Insertion.  source is the end point of smaller out-degree.               *)
(****************************************************************************)
insertArc(source, target) ==
  LET added == [m_adj EXCEPT ![source] = @ \cup {target}]
      degree == OutDegree(added, source)
      paths == ForwardResults(added, source)
  IN  /\ edges' = edges \cup {{source, target}}
      /\ UNCHANGED <<pc, loop, lapsed>>
      /\ \/ /\ degree = max_out_degree
            /\ m_adj' \in Flipped(added, paths)
            /\ max_node_count' = max_node_count + (IF paths = {} THEN 1 ELSE 0)
            /\ UNCHANGED max_out_degree
         \/ /\ degree = max_out_degree + 1
            /\ m_adj' \in Flipped(added, paths)
            /\ IF paths = {}
                 THEN max_out_degree' = max_out_degree + 1 /\ max_node_count' = 1
                 ELSE UNCHANGED max_out_degree /\ max_node_count' = max_node_count + 1
         \/ /\ degree \notin {max_out_degree, max_out_degree + 1}
            /\ m_adj' = added
            /\ UNCHANGED counters

handleInsertion(source, target) ==
  /\ pc = "idle"
  /\ source # target
  /\ {source, target} \notin edges
  /\ IF OutDegree(m_adj, source) > OutDegree(m_adj, target)
       THEN insertArc(target, source)
       ELSE insertArc(source, target)

(****************************************************************************)
(* Deletion.  tail, called decremented in the code, loses an out-neighbour. *)
(****************************************************************************)

\* Variant of beginRound: path_improved is not reset.
beginRoundImproved == todo' = Node /\ path_improved' = TRUE /\ all_path_improved' = TRUE

\* The loop of find_optimal starts a round.
beginRound == todo' = Node /\ path_improved' = FALSE /\ all_path_improved' = TRUE

\* Variant of callFindOptimal: it does nothing at or below 2 either.
callFindOptimalAboveTwo ==
  IF max_out_degree' > 2
    THEN pc' = "find_optimal" /\ beginRound /\ UNCHANGED lapsed
    ELSE UNCHANGED <<pc, loop>> /\ lapsed' = (lapsed \/ (max_out_degree' < 2 /\ edges' # {}))

\* find_optimal is called with the lowered maximum, and does nothing at or below 1.
callFindOptimal ==
  IF max_out_degree' > 1
    THEN pc' = "find_optimal" /\ beginRound /\ UNCHANGED lapsed
    ELSE UNCHANGED <<pc, loop>> /\ lapsed' = (lapsed \/ edges' # {})

\* Variant: a successful search does not take its start from the count.
deleteArcMiscounting(tail, head) ==
  LET removed == [m_adj EXCEPT ![tail] = @ \ {head}]
      degree == OutDegree(removed, tail)
      paths == BackwardResults(removed, tail)
  IN  /\ edges' = edges \ {{tail, head}}
      /\ m_adj' \in Flipped(removed, IF degree = max_out_degree - 2 THEN paths ELSE {})
      /\ max_node_count' = max_node_count - (IF degree = max_out_degree - 1 THEN 1 ELSE 0)
      /\ IF max_node_count' = 0
           THEN max_out_degree' = max_out_degree - 1 /\ callFindOptimal
           ELSE UNCHANGED <<max_out_degree, pc, loop, lapsed>>

deleteArc(tail, head) ==
  LET removed == [m_adj EXCEPT ![tail] = @ \ {head}]
      degree == OutDegree(removed, tail)
      paths == BackwardResults(removed, tail)
  IN  /\ edges' = edges \ {{tail, head}}
      /\ \/ /\ degree = max_out_degree - 1
            /\ m_adj' = removed
            /\ max_node_count' = max_node_count - 1
         \/ /\ degree = max_out_degree - 2
            /\ m_adj' \in Flipped(removed, paths)
            /\ max_node_count' = max_node_count - (IF paths = {} THEN 0 ELSE 1)
         \/ /\ degree \notin {max_out_degree - 1, max_out_degree - 2}
            /\ m_adj' = removed
            /\ UNCHANGED max_node_count
      /\ IF max_node_count' = 0
           THEN max_out_degree' = max_out_degree - 1 /\ callFindOptimal
           ELSE UNCHANGED <<max_out_degree, pc, loop, lapsed>>

handleDeletion(source, target) ==
  /\ pc = "idle"
  /\ max_out_degree > -Depth
  /\ {source, target} \in edges
  /\ IF target \in m_adj[source] THEN deleteArc(source, target)
                                 ELSE deleteArc(target, source)

(****************************************************************************)
(* find_optimal.  A round visits every node once, in an order that respects *)
(* Order.                                                                   *)
(****************************************************************************)

\* Variant: a search that fails does not clear all_path_improved.
tryNodeOptimist(i) ==
  LET paths == ForwardResults(m_adj, i)
  IN  /\ pc = "find_optimal"
      /\ i \in todo /\ \A j \in todo : <<j, i>> \notin Order
      /\ todo' = todo \ {i}
      /\ IF OutDegree(m_adj, i) = max_out_degree
           THEN /\ m_adj' \in Flipped(m_adj, paths)
                /\ path_improved' = (path_improved \/ paths # {})
           ELSE UNCHANGED <<m_adj, path_improved>>
      /\ UNCHANGED <<edges, counters, pc, all_path_improved, lapsed>>

tryNode(i) ==
  LET paths == ForwardResults(m_adj, i)
  IN  /\ pc = "find_optimal"
      /\ i \in todo /\ \A j \in todo : <<j, i>> \notin Order
      /\ todo' = todo \ {i}
      /\ IF OutDegree(m_adj, i) = max_out_degree
           THEN /\ m_adj' \in Flipped(m_adj, paths)
                /\ path_improved' = (path_improved \/ paths # {})
                /\ all_path_improved' = (all_path_improved /\ paths # {})
           ELSE UNCHANGED <<m_adj, path_improved, all_path_improved>>
      /\ UNCHANGED <<edges, counters, pc, lapsed>>

endRound ==
  /\ pc = "find_optimal"
  /\ todo = {}
  /\ max_out_degree' = max_out_degree - (IF all_path_improved THEN 1 ELSE 0)
  /\ IF path_improved
       THEN beginRound /\ UNCHANGED <<max_node_count, pc>>
       ELSE /\ max_node_count' =
                 max_node_count + Cardinality(WithDegree(m_adj, max_out_degree'))
            /\ pc' = "idle"
            /\ UNCHANGED loop
  /\ UNCHANGED <<graph, lapsed>>

find_optimal == endRound \/ \E i \in Node : tryNode(i)

Next == \/ \E source, target \in Node : \/ handleInsertion(source, target)
                                        \/ handleDeletion(source, target)
        \/ find_optimal

\* The only thread of the program runs find_optimal to its end.
Fairness == WF_vars(find_optimal)

Spec == Init /\ [][Next]_vars /\ Fairness

-----------------------------------------------------------------------------
(****************************************************************************)
(* Properties.                                                              *)
(****************************************************************************)

\* The counters are integers, not naturals: see lapsed.
TypeOK ==
  /\ edges \subseteq Edge /\ m_adj \in Digraph
  /\ max_out_degree \in Int /\ max_node_count \in Int
  /\ pc \in {"idle", "find_optimal"} /\ todo \subseteq Node
  /\ {path_improved, all_path_improved, lapsed} \subseteq BOOLEAN

\* Between any two steps, also inside find_optimal and after a lapse, the lists
\* hold every edge of the graph in exactly one direction.
Oriented == IsOrientation(m_adj, edges)

\* As long as find_optimal has never been skipped with edges left, the counters
\* that decide which updates search at all agree with the lists.
CountersExact ==
  pc = "idle" /\ ~lapsed =>
    /\ IsMaxOutDegree(m_adj, max_out_degree)
    /\ max_node_count = IF edges = {} THEN 0
                        ELSE Cardinality(WithDegree(m_adj, max_out_degree))

\* ... and no node of maximum out-degree reaches one that is two or more below,
NoImprovingMaxPath ==
  pc = "idle" /\ ~lapsed =>
    \A u \in WithDegree(m_adj, max_out_degree) : \A v \in Reachable(m_adj, u) :
      max_out_degree <= OutDegree(m_adj, v) + 1

\* ... so that the orientation is optimal although most updates search nothing.
OptimalUntilLapse == pc = "idle" /\ ~lapsed => IsCertifiedOptimal(m_adj, edges)

\* Inside find_optimal no node is above the lowered maximum, although every flip
\* raises some node; a node already visited in a round whose searches have all
\* succeeded is below it; and the count still is zero, as the comment in front
\* of the recount asserts.  (After a lapse the maximum may be far above the counter.)
RoundBound ==
  pc = "find_optimal" /\ ~lapsed =>
    /\ \A v \in Node : OutDegree(m_adj, v) <= max_out_degree
    /\ all_path_improved =>
         \A v \in Node \ todo : OutDegree(m_adj, v) < max_out_degree
    /\ max_node_count = 0

\* A successful search takes one node from those of maximum out-degree and adds
\* none, whatever has been flipped before it; this is why the rounds end.  They are
\* needed: a node whose search has failed may be improved in the next round, when a
\* node of maximum out-degree that was in its way has been lowered.
FlipSpendsMaxNode ==
  [][find_optimal /\ m_adj' # m_adj =>
       \E i \in WithDegree(m_adj, max_out_degree) :
         WithDegree(m_adj', max_out_degree) = WithDegree(m_adj, max_out_degree) \ {i}]_vars

\* A deletion lowers the optimum by at most one, so find_optimal never lowers the
\* maximum a second time.
LoweredOnce == [][find_optimal /\ ~lapsed => UNCHANGED max_out_degree]_vars

\* The rounds of find_optimal end: an update always returns.
FindOptimalReturns == pc = "find_optimal" ~> pc = "idle"

\* Every call is one that the interface allows, and from its first step to its
\* last the lists stay an orientation of the graph: find_optimal only turns edges.
Abstract == INSTANCE EdgeOrientation
Implements == Abstract!Spec

\* What README.md says of the exact algorithm: whenever a handler has returned
\* the orientation is optimal.
AlwaysOptimal == pc = "idle" => IsCertifiedOptimal(m_adj, edges)
=============================================================================
