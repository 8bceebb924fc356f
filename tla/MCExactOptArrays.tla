--------------------------- MODULE MCExactOptArrays ---------------------------
(****************************************************************************)
(* ExactOptArrays on every sequence over few nodes, and on a sequence over  *)
(* eight nodes for which find_optimal has paths to improve.  After its      *)
(* prefix, which random runs of the program found, some deletion makes two  *)
(* searches of a round need the same node: the depth-first one fails where  *)
(* a search with a visited set of its own would succeed, and a further      *)
(* round is needed.                                                         *)
(****************************************************************************)
EXTENDS ExactOptArrays

CONSTANTS Few,      \* bound: the nodes of the sequences that are all explored
          FewEdges, \* bound: and the copies of edges that they hold at a time
          Copies,   \* bound: and of one edge
          Sparse,   \* bound: the number of edges at which the deletions stop
          Depth     \* bound: Few is explored while max_out_degree > -Depth

ASSUME ScriptAssumption ==
  Few \subseteq Node /\ {FewEdges, Copies, Sparse, Depth} \subseteq Nat

Prefix == << <<4, 7>>, <<1, 7>>, <<3, 0>>, <<2, 6>>, <<3, 5>>, <<1, 4>>, <<4, 1>>, <<4, 1>>,
             <<1, 7>>, <<1, 7>>, <<5, 3>>, <<3, 2>> >>

PrefixEdges(k) ==
  [e \in Edge |-> Cardinality({j \in 1..k : e = {Prefix[j][1], Prefix[j][2]}})]

EdgeCount == MapThenSumSet(LAMBDA e : edges[e], Edge)

fewStep ==
  /\ \A e \in Edge : edges[e] > 0 => e \subseteq Few
  /\ max_out_degree > -Depth
  /\ \E source, target \in Few :
       \/ /\ EdgeCount < FewEdges
          /\ source # target => edges[{source, target}] < Copies
          /\ handleInsertion(source, target)
       \/ handleDeletion(source, target)

insertNext ==
  \E k \in 1..Len(Prefix) :
    /\ edges = PrefixEdges(k - 1)
    /\ handleInsertion(Prefix[k][1], Prefix[k][2])

deleteNext ==
  /\ EdgeCount > Sparse
  /\ edges \notin {PrefixEdges(k) : k \in 0..Len(Prefix) - 1}
  /\ \E source, target \in Node : source < target /\ handleDeletion(source, target)

ScriptNext == fewStep \/ insertNext \/ deleteNext \/ handlerStep

ScriptSpec == Init /\ [][ScriptNext]_vars /\ Fairness
=============================================================================
