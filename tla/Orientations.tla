---------------------------- MODULE Orientations ----------------------------
(****************************************************************************)
(* Orientations of a simple undirected graph, and the two local searches    *)
(* with which the exact algorithms of this repository improve one.          *)
(*                                                                          *)
(* A graph is a set of edges, an edge a set of two nodes.  An orientation   *)
(* is kept as the algorithms keep it: adj[u] holds the out-neighbours of u  *)
(* (the active part of m_adj[u]).  The order of the entries in a list is    *)
(* abstracted away; wherever the program takes the first suitable entry of  *)
(* a list, the operators below return the set of the possible results.      *)
(* Module StrongOptArrays models the lists themselves.                      *)
(****************************************************************************)
EXTENDS Integers, Sequences, FiniteSets

CONSTANT Node                     \* the nodes of the graph, fixed for a run

ASSUME NodeAssumption == IsFiniteSet(Node) /\ Node # {}

\* Some positions of a list in the order in which a loop over it comes to them.
InOrder(positions) ==
  CHOOSE s \in [1..Cardinality(positions) -> positions] :
    \A k, l \in 1..Cardinality(positions) : k < l => s[k] < s[l]

(****************************************************************************)
(* Graphs and orientations.                                                 *)
(****************************************************************************)

Edge == {e \in SUBSET Node : \E u, v \in Node : u # v /\ e = {u, v}}

Digraph == [Node -> SUBSET Node]

NoArcs == [v \in Node |-> {}]

\* adj gives every edge of the graph exactly one direction, and has no other arc.
IsOrientation(adj, edges) ==
  /\ adj \in Digraph
  /\ \A u, v \in Node : v \in adj[u] => {u, v} \in edges /\ u \notin adj[v]
  /\ \A u, v \in Node : {u, v} \in edges => v \in adj[u] \/ u \in adj[v]

OutDegree(adj, v) == Cardinality(adj[v])

IsMaxOutDegree(adj, k) ==
  /\ \A v \in Node : OutDegree(adj, v) <= k
  /\ \E v \in Node : OutDegree(adj, v) = k

(****************************************************************************)
(* Reachability.  A set of nodes is closed when no arc leaves it; v is      *)
(* reachable from u when every closed set around u holds v.                 *)
(****************************************************************************)

IsClosed(adj, S) == \A u \in S : adj[u] \subseteq S

Reachable(adj, u) ==
  {v \in Node : \A S \in SUBSET Node : u \in S /\ IsClosed(adj, S) => v \in S}

(****************************************************************************)
(* Optimality: no orientation of the same graph has a smaller maximum       *)
(* out-degree.  That k is optimal is certified by a set of nodes that spans *)
(* more than (k - 1) edges per node: its edges cannot all leave nodes of    *)
(* out-degree at most k - 1.                                                *)
(****************************************************************************)

\* The orientations of a graph, each given by the tail it chooses for every edge.
TailChoices(edges) == {tail \in [edges -> Node] : \A e \in edges : tail[e] \in e}

IsOptimal(adj, edges) ==
  \A tail \in TailChoices(edges), k \in 0..Cardinality(Node) :
    (\A v \in Node : Cardinality({e \in edges : tail[e] = v}) <= k)
      => \A v \in Node : OutDegree(adj, v) <= k

Spanned(edges, S) == {e \in edges : e \subseteq S}

NeedsOutDegree(edges, k) ==
  \/ k = 0
  \/ \E S \in SUBSET Node :
       Cardinality(Spanned(edges, S)) > (k - 1) * Cardinality(S)

IsCertifiedOptimal(adj, edges) ==
  \A k \in 0..Cardinality(Node) : IsMaxOutDegree(adj, k) => NeedsOutDegree(edges, k)

(****************************************************************************)
(* The searches.  bfs_forward looks from s along out-arcs for a node whose  *)
(* out-degree is at least two below that of s, over nodes that are exactly  *)
(* one below; bfs_backward looks from s along in-arcs for a node that is    *)
(* at least two above, over nodes that are exactly one above.               *)
(****************************************************************************)

\* The sequences over S without repetition.
Arrangements(S) ==
  UNION {{m \in [1..k -> S] : \A i, j \in 1..k : m[i] = m[j] => i = j} :
           k \in 0..Cardinality(S)}

IsPath(adj, p) == \A i \in 1..Len(p) - 1 : p[i + 1] \in adj[p[i]]

WithDegree(adj, k) == {v \in Node : OutDegree(adj, v) = k}

Joined(u, m, v) == <<u>> \o m \o <<v>>

\* Variant: the search ends only at nodes three below s.
ForwardPathsToThreeBelow(adj, s) ==
  LET degree == OutDegree(adj, s)
      low == {v \in Node : OutDegree(adj, v) < degree - 2}
  IN  {p \in {Joined(s, m, v) : m \in Arrangements(WithDegree(adj, degree - 1)), v \in low} :
         IsPath(adj, p)}

ForwardPaths(adj, s) ==
  LET degree == OutDegree(adj, s)
      low == {v \in Node : OutDegree(adj, v) < degree - 1}
  IN  {p \in {Joined(s, m, v) : m \in Arrangements(WithDegree(adj, degree - 1)), v \in low} :
         IsPath(adj, p)}

\* Variant: only the in-neighbours of s are looked at.
BackwardPathsOfOneArc(adj, s) ==
  {p \in {<<v, s>> : v \in {w \in Node : OutDegree(adj, w) > OutDegree(adj, s) + 1}} :
     IsPath(adj, p)}

\* A backward path is given in the direction of its arcs: it ends in s.
BackwardPaths(adj, s) ==
  LET degree == OutDegree(adj, s)
      high == {v \in Node : OutDegree(adj, v) > degree + 1}
  IN  {p \in {Joined(v, m, s) : m \in Arrangements(WithDegree(adj, degree + 1)), v \in high} :
         IsPath(adj, p)}

\* A breadth-first search finds one of the shortest paths.
Shortest(paths) == {p \in paths : \A q \in paths : Len(p) <= Len(q)}

\* Variant: the reversed arcs are added, the old ones are not taken out.
FlipPathKeepingArcs(adj, p) ==
  [v \in Node |-> adj[v] \cup {p[i] : i \in {j \in 1..Len(p) - 1 : p[j + 1] = v}}]

\* Variant: the walk back over the parents turns the last arc only.
FlipPathLastArc(adj, p) ==
  LET u == p[Len(p) - 1]
      v == p[Len(p)]
  IN  [adj EXCEPT ![u] = @ \ {v}, ![v] = @ \cup {u}]

\* Reverse every arc of the path p.
FlipPath(adj, p) ==
  [v \in Node |->
     (adj[v] \ {p[i + 1] : i \in {j \in 1..Len(p) - 1 : p[j] = v}})
       \cup {p[i] : i \in {j \in 1..Len(p) - 1 : p[j + 1] = v}}]

\* The orientations a search can leave: one path flipped, or adj when there is none.
Flipped(adj, paths) ==
  IF paths = {} THEN {adj} ELSE {FlipPath(adj, p) : p \in paths}

bfs_forward(adj, s) == Flipped(adj, Shortest(ForwardPaths(adj, s)))

bfs_backward(adj, s) == Flipped(adj, Shortest(BackwardPaths(adj, s)))
=============================================================================
