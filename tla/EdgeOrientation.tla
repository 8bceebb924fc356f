-------------------------- MODULE EdgeOrientation --------------------------
(****************************************************************************)
(* What every algorithm behind the interface dyn_edge_orientation promises. *)
(*                                                                          *)
(* The driver feeds it a sequence of edge insertions and deletions; after   *)
(* each, the algorithm holds an orientation of the current graph.  It may   *)
(* turn any number of edges while it handles an update.                     *)
(****************************************************************************)
EXTENDS Orientations

VARIABLES edges,      \* the graph the edge sequence describes so far
          m_adj       \* the out-neighbours of each node

vars == <<edges, m_adj>>

TypeOK == edges \subseteq Edge /\ m_adj \in Digraph

Init == edges = {} /\ m_adj = NoArcs

Reorient == /\ m_adj' \in Digraph
            /\ IsOrientation(m_adj', edges')

handleInsertion(source, target) ==
  /\ source # target
  /\ {source, target} \notin edges
  /\ edges' = edges \cup {{source, target}}
  /\ Reorient

handleDeletion(source, target) ==
  /\ {source, target} \in edges
  /\ edges' = edges \ {{source, target}}
  /\ Reorient

\* An update of several steps may turn edges between its first and its last step.
turn == UNCHANGED edges /\ Reorient

\* run_dynamic_algorithm: one handler call per entry of the edge sequence.
Next == \/ \E source, target \in Node : \/ handleInsertion(source, target)
                                        \/ handleDeletion(source, target)
        \/ turn

Spec == Init /\ [][Next]_vars

Oriented == IsOrientation(m_adj, edges)
=============================================================================
