-------------------------- MODULE MCImprovedOptDense --------------------------
(****************************************************************************)
(* ImprovedOpt on a sequence for which find_optimal has paths to improve.   *)
(* That takes a part of the graph dense enough for an optimum of 3, another *)
(* part with nodes of out-degree 0, and an arc from the one to the other.   *)
(* The sequence makes one that needs a second round: node 1 has two arcs    *)
(* to nodes of out-degree 0, and node 0, which is visited before, an arc to *)
(* node 1.  When the sequence is complete, edges are deleted in any order   *)
(* while more than Sparse are left.                                         *)
(****************************************************************************)
EXTENDS ImprovedOpt

CONSTANT Sparse     \* bound: the number of edges at which the deletions stop

ASSUME DenseAssumption == Sparse \in Nat /\ Node = 0..9

\* As in the code, a round visits the nodes in ascending order.
Ascending == {p \in Node \X Node : p[1] < p[2]}

\* An edge that is there already is deleted.
Prefix == << {4, 5}, {4, 6}, {4, 7}, {4, 8}, {4, 9}, {5, 6}, {5, 7}, {5, 8}, {5, 9},
             {6, 7}, {6, 8}, {6, 9}, {7, 8},
             {1, 2}, {3, 4}, {1, 3}, {3, 4}, {0, 1}, {0, 4} >>

PrefixEdges(k) ==
  {Prefix[j] : j \in {i \in 1..k : \A h \in 1..k : Prefix[h] = Prefix[i] => h = i}}

follow ==
  \E k \in 1..Len(Prefix), source, target \in Node :
    /\ edges = PrefixEdges(k - 1)
    /\ source < target
    /\ Prefix[k] = {source, target}
    /\ handleInsertion(source, target) \/ handleDeletion(source, target)

\* The sequence is complete: its last edge is there, or an earlier one is missing.
deleteNext ==
  /\ Cardinality(edges) > Sparse
  /\ edges \notin {PrefixEdges(k) : k \in 0..Len(Prefix) - 1}
  /\ \E source, target \in Node : source < target /\ handleDeletion(source, target)

ScriptNext == follow \/ deleteNext \/ find_optimal

ScriptSpec == Init /\ [][ScriptNext]_vars /\ Fairness
=============================================================================
