-------------------------- MODULE MCBrodalFagerberg --------------------------
(****************************************************************************)
(* BrodalFagerberg on the sequences that start like one of two scripts and  *)
(* go on with a few other updates.  The scripts are insertions in an order  *)
(* for which, as random runs of the algorithm showed, the last one needs    *)
(* two rebuilds, one called by the other.                                   *)
(****************************************************************************)
EXTENDS BrodalFagerberg

CONSTANTS SimpleFree,   \* bound: the updates after the script of a simple graph,
          ParallelFree  \*   and those after the one with parallel edges, is left

ASSUME FreeAssumption == {SimpleFree, ParallelFree} \subseteq Nat

\* The complete graph of the nodes 0 to 4.
CompleteGraph == << <<3, 0>>, <<3, 2>>, <<0, 2>>, <<1, 4>>, <<3, 1>>,
                    <<4, 2>>, <<1, 2>>, <<1, 0>>, <<3, 4>>, <<4, 0>> >>

\* The triangle of the nodes 0 to 2 with every edge twice.
DoubledTriangle == << <<1, 0>>, <<1, 2>>, <<1, 2>>, <<1, 0>>, <<0, 2>>, <<0, 2>> >>

Instances ==
  {[updates |-> CompleteGraph, nodes |-> 0..4, copies |-> 1, free |-> SimpleFree],
   [updates |-> DoubledTriangle, nodes |-> 0..2, copies |-> 2, free |-> ParallelFree]}

\* The number of updates that follow a script.
Followed(script) ==
  CHOOSE k \in 0..Len(m_sequence) :
    /\ \A i \in 1..k : i <= Len(script) /\ m_sequence[i] = <<TRUE, script[i][1], script[i][2]>>
    /\ \/ k = Len(m_sequence)
       \/ k = Len(script)
       \/ m_sequence[k + 1] # <<TRUE, script[k + 1][1], script[k + 1][2]>>

\* The updates that follow the script, and those that leave it in time.
FollowingUpdates(script) ==
  LET followed == Followed(script)
  IN  IF followed = Len(m_sequence) /\ followed < Len(script) THEN {script[followed + 1]} ELSE {}

LeavingUpdates(inst) ==
  IF /\ Len(m_sequence) - Followed(inst.updates) < inst.free
     /\ \A j \in 1..Len(m_sequence) : {m_sequence[j][2], m_sequence[j][3]} \subseteq inst.nodes
    THEN {st \in inst.nodes \X inst.nodes : st[1] # st[2]} ELSE {}

ScriptNext ==
  \/ \E inst \in Instances :
       \E st \in FollowingUpdates(inst.updates) \cup
                 {st \in LeavingUpdates(inst) : edges[{st[1], st[2]}] < inst.copies} :
         handleInsertion(st[1], st[2])
  \/ \E inst \in Instances : \E st \in LeavingUpdates(inst) : handleDeletion(st[1], st[2])
  \/ handlerStep

ScriptSpec == Init /\ [][ScriptNext]_vars /\ Fairness
=============================================================================
