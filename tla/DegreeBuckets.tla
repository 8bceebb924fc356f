---------------------------- MODULE DegreeBuckets ----------------------------
(****************************************************************************)
(* The degree buckets that naive_opt, impro_opt, BFSCS, KFlipsCS, RWalkCS   *)
(* and MaxDecending each carry: for every out-degree the list of the nodes  *)
(* that have it, for every node its position in its list, and the number of *)
(* the highest list that is not empty.  Positions count from 1 here.        *)
(*                                                                          *)
(* The four arrays are the fields of one record, so that several moves can  *)
(* be composed in one step.                                                 *)
(****************************************************************************)
EXTENDS Orientations

Degrees == 0..Cardinality(Node) - 1

Buckets == [m_degree : [Node -> Degrees],
            m_degree_buckets : [Degrees -> Seq(Node)],
            m_bucket_pos : [Node -> 1..Cardinality(Node)],
            m_max_degree : Degrees]

\* The constructor: all nodes, in ascending order, have out-degree 0.
Filled(order) ==
  [m_degree |-> [v \in Node |-> 0],
   m_degree_buckets |-> [k \in Degrees |-> IF k = 0 THEN order ELSE <<>>],
   m_bucket_pos |-> [v \in Node |-> CHOOSE i \in 1..Len(order) : order[i] = v],
   m_max_degree |-> 0]

\* The entry at position i leaves the list; the last entry takes its place.
SwappedOut(list, i) ==
  SubSeq([list EXCEPT ![i] = list[Len(list)]], 1, Len(list) - 1)

Highest(lists, top) ==
  CHOOSE k \in 0..top : lists[k] # <<>> /\ \A j \in k + 1..top : lists[j] = <<>>

\* Variant: the highest bucket is followed upwards only.
MovedUpwards(b, node, change) ==
  LET old == b.m_degree[node]
      new == old + change
      place == b.m_bucket_pos[node]
      left == SwappedOut(b.m_degree_buckets[old], place)
      lists == [b.m_degree_buckets EXCEPT ![old] = left, ![new] = Append(@, node)]
      positions == IF place <= Len(left) THEN [b.m_bucket_pos EXCEPT ![left[place]] = place]
                                         ELSE b.m_bucket_pos
  IN  [m_degree |-> [b.m_degree EXCEPT ![node] = new],
       m_degree_buckets |-> lists,
       m_bucket_pos |-> [positions EXCEPT ![node] = Len(lists[new])],
       m_max_degree |-> IF new > b.m_max_degree THEN new ELSE b.m_max_degree]

(****************************************************************************)
(* move_node_to_new_bucket, and the change of m_degree with which every     *)
(* caller follows it.  When the node was the last of its list, the code     *)
(* reads the slot that has just been popped, where the node itself still    *)
(* is, and writes a position that the next statements overwrite.            *)
(****************************************************************************)
Moved(b, node, change) ==
  LET old == b.m_degree[node]
      new == old + change
      place == b.m_bucket_pos[node]
      left == SwappedOut(b.m_degree_buckets[old], place)
      lists == [b.m_degree_buckets EXCEPT ![old] = left, ![new] = Append(@, node)]
      positions == IF place <= Len(left) THEN [b.m_bucket_pos EXCEPT ![left[place]] = place]
                                         ELSE b.m_bucket_pos
      top == IF new > b.m_max_degree THEN new ELSE b.m_max_degree
  IN  [m_degree |-> [b.m_degree EXCEPT ![node] = new],
       m_degree_buckets |-> lists,
       m_bucket_pos |-> [positions EXCEPT ![node] = Len(lists[new])],
       m_max_degree |-> Highest(lists, top)]

Top(b) == {b.m_degree_buckets[b.m_max_degree][i] :
             i \in 1..Len(b.m_degree_buckets[b.m_max_degree])}

(****************************************************************************)
(* What checkdegrees asserts: the recorded degrees are the lengths of the   *)
(* lists, every node is at its recorded position in the bucket of its       *)
(* degree, and m_max_degree is the maximum.                                 *)
(****************************************************************************)
Consistent(b, length) ==
  /\ \A v \in Node : b.m_degree[v] = length[v]
  /\ \A v \in Node :
       LET list == b.m_degree_buckets[b.m_degree[v]]
       IN  b.m_bucket_pos[v] <= Len(list) /\ list[b.m_bucket_pos[v]] = v
  /\ \A v \in Node : length[v] <= b.m_max_degree
  /\ \E v \in Node : length[v] = b.m_max_degree
=============================================================================
