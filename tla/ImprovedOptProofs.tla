-------------------------- MODULE ImprovedOptProofs --------------------------
(****************************************************************************)
(* Theorems about module ImprovedOpt, for every finite set of nodes and     *)
(* every bound Depth.                                                       *)
(****************************************************************************)
EXTENDS ImprovedOpt, OrientationsProofs

IInv == TypeOK /\ Oriented

\* The invariant holds of the empty lists.
LEMMA InitOriented == Init => IInv
<1> SUFFICES ASSUME Init PROVE IInv
  OBVIOUS
<1>1. {path_improved, all_path_improved, lapsed} \subseteq BOOLEAN
  <2>1. path_improved \in BOOLEAN /\ all_path_improved \in BOOLEAN /\ lapsed \in BOOLEAN
    BY DEF Init
  <2>2. QED
    BY <2>1
<1>2. Oriented /\ m_adj \in Digraph
  BY DEF Init, Oriented, IsOrientation, NoArcs, Digraph
<1>3. edges \subseteq Edge
  BY DEF Init
<1>4. /\ max_out_degree \in Int /\ max_node_count \in Int
      /\ pc \in {"idle", "find_optimal"} /\ todo \subseteq Node
  BY DEF Init
<1>5. QED
  BY <1>1, <1>2, <1>3, <1>4 DEF IInv, TypeOK

\* Recounting the nodes of one out-degree yields a number.
LEMMA RecountType ==
  ASSUME NEW adj \in Digraph, NEW k
  PROVE  Cardinality(WithDegree(adj, k)) \in Nat
<1>1. WithDegree(adj, k) \subseteq Node
  BY DEF WithDegree
<1>2. QED
  BY <1>1, NodeAssumption, FS_Subset, FS_CardinalityType

\* Whichever of its branches an insertion takes, one arc is added for the edge, and
\* the path that is flipped after it, if any, is one of the new lists.
LEMMA InsertArcOrients ==
  ASSUME IInv, NEW source \in Node, NEW target \in Node, source # target,
         {source, target} \notin edges, insertArc(source, target)
  PROVE  IInv'
<1>1. PICK adj1 : adj1 = WithArc(m_adj, source, target)
  OBVIOUS
<1>2. IsOrientation(adj1, edges \cup {{source, target}})
  BY <1>1, WithArcFacts DEF IInv, Oriented
<1>3. ForwardResults(adj1, source) \in SUBSET ForwardPaths(adj1, source)
  BY DEF ForwardResults, Shortest
<1>4. m_adj' = adj1 \/ m_adj' \in Flipped(adj1, ForwardResults(adj1, source))
  BY <1>1 DEF insertArc, WithArc
<1>5. IsOrientation(m_adj', edges \cup {{source, target}})
  BY <1>2, <1>3, <1>4, FlippedForward
<1>6. edges' = edges \cup {{source, target}} /\ UNCHANGED <<pc, loop, lapsed>>
  BY DEF insertArc
<1>7. {source, target} \in Edge
  BY DEF Edge
<1>8. max_out_degree' \in Int /\ max_node_count' \in Int
  BY DEF insertArc, IInv, TypeOK, counters
<1>9. QED
  BY <1>5, <1>6, <1>7, <1>8 DEF IInv, TypeOK, Oriented, IsOrientation, loop

\* Whichever of its branches a deletion takes, the arc of the edge is lost, and the
\* path that is flipped after it, if any, is one of the new lists.
LEMMA DeleteArcOrients ==
  ASSUME IInv, NEW tail \in Node, NEW head \in Node, head \in m_adj[tail],
         deleteArc(tail, head)
  PROVE  IInv'
<1>1. PICK adj1 : adj1 = WithoutArc(m_adj, tail, head)
  OBVIOUS
<1>2. IsOrientation(adj1, edges \ {{tail, head}})
  BY <1>1, WithoutArcFacts DEF IInv, Oriented
<1>3. BackwardResults(adj1, tail) \in SUBSET BackwardPaths(adj1, tail)
  BY DEF BackwardResults, Shortest
<1>4. m_adj' = adj1 \/ m_adj' \in Flipped(adj1, BackwardResults(adj1, tail))
  BY <1>1 DEF deleteArc, WithoutArc
<1>5. IsOrientation(m_adj', edges \ {{tail, head}})
  BY <1>2, <1>3, <1>4, FlippedBackward
<1>6. edges' = edges \ {{tail, head}}
  BY DEF deleteArc
<1>7. max_node_count' \in Int
  BY DEF deleteArc, IInv, TypeOK
<1>8. max_out_degree' \in Int
  BY DEF deleteArc, IInv, TypeOK
<1>9. /\ pc' \in {"idle", "find_optimal"} /\ todo' \subseteq Node
      /\ path_improved' \in BOOLEAN /\ all_path_improved' \in BOOLEAN
      /\ lapsed' \in BOOLEAN
  BY DEF deleteArc, callFindOptimal, beginRound, loop, IInv, TypeOK
<1>10. QED
  BY <1>5, <1>6, <1>7, <1>8, <1>9 DEF IInv, TypeOK, Oriented, IsOrientation

\* find_optimal flips paths of the current lists and nothing else.
LEMMA TryNodeOrients ==
  ASSUME IInv, NEW i \in Node, tryNode(i)
  PROVE  IInv'
<1>1. ForwardResults(m_adj, i) \in SUBSET ForwardPaths(m_adj, i)
  BY DEF ForwardResults, Shortest
<1>2. m_adj' = m_adj \/ m_adj' \in Flipped(m_adj, ForwardResults(m_adj, i))
  BY DEF tryNode
<1>3. IsOrientation(m_adj', edges)
  BY <1>1, <1>2, FlippedForward DEF IInv, Oriented
<1>4. /\ todo' \subseteq Node
      /\ path_improved' \in BOOLEAN /\ all_path_improved' \in BOOLEAN
      /\ UNCHANGED <<edges, max_out_degree, max_node_count, pc, lapsed>>
  BY DEF tryNode, counters, IInv, TypeOK
<1>5. QED
  BY <1>3, <1>4 DEF IInv, TypeOK, Oriented, IsOrientation

\* The end of a round touches the counters only.
LEMMA EndRoundOrients ==
  ASSUME IInv, endRound
  PROVE  IInv'
<1>1. UNCHANGED <<edges, m_adj, lapsed>>
  BY DEF endRound, graph
<1>2. max_out_degree' \in Int
  BY DEF endRound, IInv, TypeOK
<1>3. max_node_count' \in Int
  <2>1. Cardinality(WithDegree(m_adj, max_out_degree')) \in Nat
    BY RecountType DEF IInv, TypeOK
  <2>2. QED
    BY <2>1 DEF endRound, IInv, TypeOK
<1>4. /\ pc' \in {"idle", "find_optimal"} /\ todo' \subseteq Node
      /\ path_improved' \in BOOLEAN /\ all_path_improved' \in BOOLEAN
  BY DEF endRound, beginRound, loop, IInv, TypeOK
<1>5. QED
  BY <1>1, <1>2, <1>3, <1>4 DEF IInv, TypeOK, Oriented

\* Every step preserves the invariant.
LEMMA NextKeepsOriented == IInv /\ [Next]_vars => IInv'
<1> SUFFICES ASSUME IInv, [Next]_vars PROVE IInv'
  OBVIOUS
<1>1. ASSUME NEW source \in Node, NEW target \in Node, handleInsertion(source, target)
      PROVE  IInv'
  <2>1. {source, target} = {target, source}
    OBVIOUS
  <2>2. CASE insertArc(source, target)
    BY <1>1, <2>2, InsertArcOrients DEF handleInsertion
  <2>3. CASE insertArc(target, source)
    BY <1>1, <2>1, <2>3, InsertArcOrients DEF handleInsertion
  <2>4. QED
    BY <1>1, <2>2, <2>3 DEF handleInsertion
<1>2. ASSUME NEW source \in Node, NEW target \in Node, handleDeletion(source, target)
      PROVE  IInv'
  <2>1. CASE target \in m_adj[source]
    BY <1>2, <2>1, DeleteArcOrients DEF handleDeletion
  <2>2. CASE target \notin m_adj[source]
    <3>1. source \in m_adj[target]
      BY <1>2, <2>2 DEF handleDeletion, IInv, Oriented, IsOrientation
    <3>2. QED
      BY <1>2, <2>2, <3>1, DeleteArcOrients DEF handleDeletion
  <2>3. QED
    BY <2>1, <2>2
<1>3. CASE find_optimal
  BY <1>3, TryNodeOrients, EndRoundOrients DEF find_optimal
<1>4. CASE UNCHANGED vars
  BY <1>4 DEF vars, graph, counters, loop, IInv, TypeOK, Oriented
<1>5. QED
  BY <1>1, <1>2, <1>3, <1>4 DEF Next

\* Whatever the counters say, and also inside find_optimal, every edge of the graph
\* has exactly one direction in the lists.
THEOREM StaysOriented == Spec => [](TypeOK /\ Oriented)
<1>1. Spec => []IInv
  BY InitOriented, NextKeepsOriented, PTL DEF Spec
<1>2. QED
  BY <1>1, PTL DEF IInv

\* Every call is an update of module EdgeOrientation, every other step turns edges.
THEOREM Refinement == Spec => Implements
<1>1. Init => Abstract!Init
  BY DEF Init, Abstract!Init, NoArcs, Abstract!NoArcs
<1>2. IInv /\ IInv' /\ [Next]_vars => [Abstract!Next]_(Abstract!vars)
  <2> SUFFICES ASSUME IInv, IInv', [Next]_vars PROVE [Abstract!Next]_(Abstract!vars)
    OBVIOUS
  <2>1. Abstract!Reorient
    BY DEF IInv, TypeOK, Oriented, IsOrientation, Digraph,
           Abstract!Reorient, Abstract!IsOrientation, Abstract!Digraph
  <2>2. ASSUME NEW source \in Node, NEW target \in Node, handleInsertion(source, target)
        PROVE  Abstract!handleInsertion(source, target)
    <3>1. edges' = edges \cup {{source, target}}
      <4>1. {source, target} = {target, source}
        OBVIOUS
      <4>2. QED
        BY <2>2, <4>1 DEF handleInsertion, insertArc
    <3>2. QED
      BY <2>1, <2>2, <3>1 DEF handleInsertion, Abstract!handleInsertion
  <2>3. ASSUME NEW source \in Node, NEW target \in Node, handleDeletion(source, target)
        PROVE  Abstract!handleDeletion(source, target)
    <3>1. edges' = edges \ {{source, target}}
      <4>1. {source, target} = {target, source}
        OBVIOUS
      <4>2. QED
        BY <2>3, <4>1 DEF handleDeletion, deleteArc
    <3>2. QED
      BY <2>1, <2>3, <3>1 DEF handleDeletion, Abstract!handleDeletion
  <2>4. CASE find_optimal
    <3>1. UNCHANGED edges
      BY <2>4 DEF find_optimal, tryNode, endRound, graph
    <3>2. QED
      BY <2>1, <3>1 DEF Abstract!Next, Abstract!turn
  <2>5. CASE UNCHANGED vars
    BY <2>5 DEF vars, graph, Abstract!vars
  <2>6. QED
    BY <2>2, <2>3, <2>4, <2>5 DEF Next, Abstract!Next
<1>3. QED
  BY <1>1, <1>2, InitOriented, NextKeepsOriented, PTL
     DEF Spec, Implements, Abstract!Spec

(****************************************************************************)
(* The core: a closed set that holds the nodes of out-degree k and no node  *)
(* that is two or more below.  It is what the searches from the nodes of    *)
(* maximum out-degree leave behind, and why a later update that is not      *)
(* concerned with such a node may do without a search.                      *)
(****************************************************************************)

IsCore(adj, k, C) ==
  /\ C \in SUBSET Node /\ C # {}
  /\ IsClosed(adj, C)
  /\ \A x \in C : OutDegree(adj, x) >= k - 1
  /\ WithDegree(adj, k) \subseteq C

HasCore(adj, k) == \E C \in SUBSET Node : IsCore(adj, k, C)

AtMost(adj, k) == \A v \in Node : OutDegree(adj, v) <= k

\* What bfs_forward returns is empty only when there is no path: at a single
\* out-neighbour, where it gives up at once, there is none.
LEMMA ForwardResultsFacts ==
  ASSUME NEW adj \in Digraph, NEW s \in Node
  PROVE  /\ ForwardResults(adj, s) \in SUBSET ForwardPaths(adj, s)
         /\ ForwardResults(adj, s) = {} => ForwardPaths(adj, s) = {}
<1>1. ForwardResults(adj, s) \in SUBSET ForwardPaths(adj, s)
  BY DEF ForwardResults, Shortest
<1>2. ASSUME ForwardResults(adj, s) = {}, ForwardPaths(adj, s) # {}
      PROVE  FALSE
  <2>1. PICK p \in ForwardPaths(adj, s) : TRUE
    BY <1>2
  <2>2. OutDegree(adj, p[Len(p)]) < OutDegree(adj, s) - 1 /\ p[Len(p)] \in Node
    <3>1. /\ IsSearchPath(adj, p, OutDegree(adj, s) - 1)
          /\ OutDegree(adj, p[Len(p)]) < OutDegree(adj, s) - 1
      BY ForwardPathFacts
    <3>2. QED
      BY <3>1 DEF IsSearchPath
  <2>3. OutDegree(adj, s) > 1
    BY <2>2, DegreeType
  <2>4. \A q \in ForwardPaths(adj, s) : Len(q) \in Nat
    BY ForwardPathFacts DEF IsSearchPath
  <2>5. QED
    BY <1>2, <2>3, <2>4, ShortestExists DEF ForwardResults
<1>3. QED
  BY <1>1, <1>2

\* The same of bfs_backward.
LEMMA BackwardResultsFacts ==
  ASSUME NEW adj \in Digraph, NEW s \in Node
  PROVE  /\ BackwardResults(adj, s) \in SUBSET BackwardPaths(adj, s)
         /\ BackwardResults(adj, s) = {} => BackwardPaths(adj, s) = {}
<1>1. BackwardResults(adj, s) \in SUBSET BackwardPaths(adj, s)
  BY DEF BackwardResults, Shortest
<1>2. \A q \in BackwardPaths(adj, s) : Len(q) \in Nat
  BY BackwardPathFacts DEF IsSearchPath
<1>3. QED
  BY <1>1, <1>2, ShortestExists DEF BackwardResults

(****************************************************************************)
(* What a change of one out-degree does to the nodes of degree k.           *)
(****************************************************************************)

\* From adj to adj2, v is the only node whose out-degree changes, by c.
OnlyChange(adj, adj2, v, c) ==
  /\ v \in Node
  /\ OutDegree(adj2, v) = OutDegree(adj, v) + c
  /\ \A x \in Node \ {v} : OutDegree(adj2, x) = OutDegree(adj, x)

\* A flip from s gives back what the new arc gave to s: in the end the last node of the
\* path has one more.
LEMMA ArcPassedOn ==
  ASSUME NEW adj \in Digraph, NEW adj1 \in Digraph, NEW adj2, NEW s \in Node, NEW v \in Node \ {s},
         OnlyChange(adj, adj1, s, 1), DegreeMoved(adj1, adj2, s, v)
  PROVE  OnlyChange(adj, adj2, v, 1)
<1>1. \A x \in Node : OutDegree(adj, x) \in Nat /\ OutDegree(adj1, x) \in Nat
  BY DegreeType
<1>2. OutDegree(adj2, s) = OutDegree(adj, s)
  BY <1>1 DEF OnlyChange, DegreeMoved
<1>3. OutDegree(adj2, v) = OutDegree(adj, v) + 1
  BY DEF OnlyChange, DegreeMoved
<1>4. ASSUME NEW x \in Node \ {v} PROVE OutDegree(adj2, x) = OutDegree(adj, x)
  BY <1>2 DEF OnlyChange, DegreeMoved
<1>5. QED
  BY <1>3, <1>4 DEF OnlyChange

\* A flip into s gives it what the lost arc took: in the end the first node of the path
\* has one less.
LEMMA LossPassedOn ==
  ASSUME NEW adj \in Digraph, NEW adj1 \in Digraph, NEW adj2, NEW s \in Node, NEW w \in Node \ {s},
         OnlyChange(adj, adj1, s, -1), DegreeMoved(adj1, adj2, w, s)
  PROVE  OnlyChange(adj, adj2, w, -1)
<1>1. \A x \in Node : OutDegree(adj, x) \in Nat /\ OutDegree(adj1, x) \in Nat
  BY DegreeType
<1>2. OutDegree(adj2, s) = OutDegree(adj, s)
  BY <1>1 DEF OnlyChange, DegreeMoved
<1>3. OutDegree(adj2, w) = OutDegree(adj, w) + -1
  BY <1>1 DEF OnlyChange, DegreeMoved
<1>4. ASSUME NEW x \in Node \ {w} PROVE OutDegree(adj2, x) = OutDegree(adj, x)
  BY <1>2 DEF OnlyChange, DegreeMoved
<1>5. QED
  BY <1>3, <1>4 DEF OnlyChange

\* The nodes of one out-degree are counted by a natural number.
LEMMA WithDegreeType ==
  ASSUME NEW adj, NEW k
  PROVE  IsFiniteSet(WithDegree(adj, k)) /\ Cardinality(WithDegree(adj, k)) \in Nat
<1>1. WithDegree(adj, k) \subseteq Node
  BY DEF WithDegree
<1>2. QED
  BY <1>1, NodeAssumption, FS_Subset, FS_CardinalityType

\* A node that is raised to the maximum is counted.
LEMMA OneMore ==
  ASSUME NEW adj \in Digraph, NEW adj2, NEW k \in Int, NEW v,
         OnlyChange(adj, adj2, v, 1), OutDegree(adj, v) = k - 1
  PROVE  /\ WithDegree(adj2, k) = WithDegree(adj, k) \cup {v}
         /\ Cardinality(WithDegree(adj2, k)) = Cardinality(WithDegree(adj, k)) + 1
<1>1. WithDegree(adj2, k) = WithDegree(adj, k) \cup {v}
  BY DEF WithDegree, OnlyChange
<1>2. v \notin WithDegree(adj, k)
  BY DEF WithDegree
<1>3. QED
  BY <1>1, <1>2, WithDegreeType, FS_AddElement

\* A node that is lowered from the maximum is not.
LEMMA OneLess ==
  ASSUME NEW adj \in Digraph, NEW adj2, NEW k \in Int, NEW v,
         OnlyChange(adj, adj2, v, -1), OutDegree(adj, v) = k
  PROVE  /\ WithDegree(adj2, k) = WithDegree(adj, k) \ {v}
         /\ Cardinality(WithDegree(adj2, k)) = Cardinality(WithDegree(adj, k)) - 1
<1>1. WithDegree(adj2, k) = WithDegree(adj, k) \ {v}
  BY DEF WithDegree, OnlyChange
<1>2. v \in WithDegree(adj, k)
  BY DEF WithDegree, OnlyChange
<1>3. QED
  BY <1>1, <1>2, WithDegreeType, FS_RemoveElement

\* A change elsewhere leaves the count alone.
LEMMA SameCount ==
  ASSUME NEW adj \in Digraph, NEW adj2, NEW k \in Int, NEW v, NEW c \in Int,
         OnlyChange(adj, adj2, v, c), OutDegree(adj, v) # k, OutDegree(adj, v) + c # k
  PROVE  WithDegree(adj2, k) = WithDegree(adj, k)
BY DEF WithDegree, OnlyChange

(****************************************************************************)
(* The core after an insertion.  The new arc leads from s to t, and s is    *)
(* the end point of smaller out-degree.                                     *)
(****************************************************************************)

\* From adj to adj1 the arc from s to t is added.
IsExtension(adj, adj1, s, t) ==
  /\ adj \in Digraph /\ adj1 \in Digraph
  /\ OnlyChange(adj, adj1, s, 1)
  /\ \A x \in Node : \A y : y \in adj1[x] <=> y \in adj[x] \/ (x = s /\ y = t)
  /\ \A x \in Node : OutDegree(adj, x) \in Nat /\ OutDegree(adj1, x) \in Nat

\* The lists before the search.
LEMMA ArcAdded ==
  ASSUME NEW adj, NEW E, IsOrientation(adj, E),
         NEW s \in Node, NEW t \in Node, s # t, {s, t} \notin E
  PROVE  /\ IsOrientation(WithArc(adj, s, t), E \cup {{s, t}})
         /\ IsExtension(adj, WithArc(adj, s, t), s, t)
<1>1. PICK adj1 : adj1 = WithArc(adj, s, t)
  OBVIOUS
<1>2. IsOrientation(adj1, E \cup {{s, t}}) /\ OutDegree(adj1, s) = OutDegree(adj, s) + 1
  BY <1>1, WithArcFacts
<1>3. adj \in Digraph /\ adj1 \in Digraph
  BY <1>2 DEF IsOrientation
<1>4. OnlyChange(adj, adj1, s, 1)
  BY <1>1, <1>2, <1>3, WithArcOthers DEF OnlyChange
<1>5. \A x \in Node : \A y : y \in adj1[x] <=> y \in adj[x] \/ (x = s /\ y = t)
  BY <1>1, <1>3, WithArcMembers
<1>6. \A x \in Node : OutDegree(adj, x) \in Nat /\ OutDegree(adj1, x) \in Nat
  BY <1>3, DegreeType
<1>7. QED
  BY <1>1, <1>2, <1>3, <1>4, <1>5, <1>6 DEF IsExtension

\* s becomes a node of maximum out-degree: the core grows by what the search has seen.
LEMMA CoreGrows ==
  ASSUME NEW adj, NEW adj1, NEW s \in Node, NEW t \in Node, IsExtension(adj, adj1, s, t),
         NEW k \in Int, AtMost(adj, k), HasCore(adj, k), OutDegree(adj, s) = k - 1,
         ForwardPaths(adj1, s) = {}
  PROVE  HasCore(adj1, k)
<1>1. PICK H \in SUBSET Node : IsCore(adj, k, H)
  BY DEF HasCore
<1>2. /\ adj \in Digraph /\ adj1 \in Digraph
      /\ OnlyChange(adj, adj1, s, 1)
      /\ \A x \in Node : \A y : y \in adj1[x] <=> y \in adj[x] \/ (x = s /\ y = t)
      /\ \A x \in Node : OutDegree(adj, x) \in Nat /\ OutDegree(adj1, x) \in Nat
  BY DEF IsExtension
<1>3. OutDegree(adj1, s) = k
  BY <1>2 DEF OnlyChange
<1>4. PICK R \in SUBSET Node :
        /\ s \in R
        /\ \A x \in R : OutDegree(adj1, x) >= k - 1
        /\ \A x \in R : \A y \in adj1[x] : y \in R \/ OutDegree(adj1, y) >= k
  BY <1>2, <1>3, ForwardExhausted
<1>5. WithDegree(adj1, k) \subseteq H \cup R
  BY <1>1, <1>2, <1>4 DEF WithDegree, OnlyChange, IsCore
<1>6. \A x \in H \cup R : OutDegree(adj1, x) >= k - 1
  BY <1>1, <1>2, <1>4 DEF OnlyChange, IsCore
<1>7. IsClosed(adj1, H \cup R)
  <2> SUFFICES ASSUME NEW x \in H \cup R, NEW y \in adj1[x] PROVE y \in H \cup R
    BY DEF IsClosed
  <2>1. x \in Node /\ y \in Node
    BY <1>2 DEF Digraph
  <2>2. CASE x \in R
    <3>1. CASE y # s /\ OutDegree(adj1, y) >= k
      <4>1. y \in WithDegree(adj, k)
        BY <1>2, <2>1, <3>1 DEF OnlyChange, WithDegree, AtMost
      <4>2. QED
        BY <1>1, <4>1 DEF IsCore
    <3>2. QED
      BY <1>4, <2>2, <3>1
  <2>3. CASE x \notin R
    <3>1. x \in H /\ y \in adj[x]
      BY <1>2, <1>4, <2>1, <2>3
    <3>2. QED
      BY <1>1, <3>1 DEF IsCore, IsClosed
  <2>4. QED
    BY <2>2, <2>3
<1>8. QED
  BY <1>1, <1>4, <1>5, <1>6, <1>7 DEF HasCore, IsCore

\* s becomes the only node of a new maximum: what the search has seen is its core.
LEMMA CoreOfOne ==
  ASSUME NEW adj, NEW adj1, NEW s \in Node, NEW t \in Node, IsExtension(adj, adj1, s, t),
         NEW k \in Int, AtMost(adj, k), OutDegree(adj, s) = k,
         ForwardPaths(adj1, s) = {}
  PROVE  HasCore(adj1, k + 1) /\ WithDegree(adj1, k + 1) = {s}
<1>1. /\ adj \in Digraph /\ adj1 \in Digraph
      /\ OnlyChange(adj, adj1, s, 1)
      /\ \A x \in Node : OutDegree(adj, x) \in Nat /\ OutDegree(adj1, x) \in Nat
  BY DEF IsExtension
<1>2. OutDegree(adj1, s) = k + 1 /\ \A x \in Node \ {s} : OutDegree(adj1, x) <= k
  BY <1>1 DEF OnlyChange, AtMost
<1>3. WithDegree(adj1, k + 1) = {s}
  BY <1>1, <1>2 DEF WithDegree
<1>4. PICK R \in SUBSET Node :
        /\ s \in R
        /\ \A x \in R : OutDegree(adj1, x) >= k + 1 - 1
        /\ \A x \in R : \A y \in adj1[x] : y \in R \/ OutDegree(adj1, y) >= k + 1
  BY <1>1, <1>2, ForwardExhausted
<1>5. IsClosed(adj1, R)
  <2> SUFFICES ASSUME NEW x \in R, NEW y \in adj1[x] PROVE y \in R
    BY DEF IsClosed
  <2>1. y \in Node
    BY <1>1 DEF Digraph
  <2>2. y \in R \/ y = s
    BY <1>1, <1>2, <1>4, <2>1
  <2>3. QED
    BY <1>4, <2>2
<1>6. IsCore(adj1, k + 1, R)
  BY <1>3, <1>4, <1>5 DEF IsCore
<1>7. QED
  BY <1>3, <1>6 DEF HasCore

\* s stays below the maximum: it is not in the core, which therefore stays closed.
LEMMA CoreUntouched ==
  ASSUME NEW adj, NEW adj1, NEW s \in Node, NEW t \in Node, IsExtension(adj, adj1, s, t),
         NEW k \in Int, HasCore(adj, k), OutDegree(adj, s) < k - 1
  PROVE  HasCore(adj1, k) /\ WithDegree(adj1, k) = WithDegree(adj, k)
<1>1. PICK H \in SUBSET Node : IsCore(adj, k, H)
  BY DEF HasCore
<1>2. /\ adj \in Digraph /\ adj1 \in Digraph
      /\ OnlyChange(adj, adj1, s, 1)
      /\ \A x \in Node : \A y : y \in adj1[x] <=> y \in adj[x] \/ (x = s /\ y = t)
      /\ \A x \in Node : OutDegree(adj, x) \in Nat /\ OutDegree(adj1, x) \in Nat
  BY DEF IsExtension
<1>3. s \notin H
  BY <1>1, <1>2 DEF IsCore
<1>4. WithDegree(adj1, k) = WithDegree(adj, k)
  BY <1>2 DEF OnlyChange, WithDegree
<1>5. IsClosed(adj1, H)
  BY <1>1, <1>2, <1>3 DEF IsCore, IsClosed
<1>6. IsCore(adj1, k, H)
  BY <1>1, <1>2, <1>3, <1>4, <1>5 DEF IsCore, OnlyChange
<1>7. QED
  BY <1>4, <1>6 DEF HasCore

\* s would become a node of maximum out-degree, but a path is flipped.  It leaves the
\* core with its first arc, the new one, or does not touch it: its last node is too low.
LEMMA CoreBypassed ==
  ASSUME NEW adj, NEW adj1, NEW s \in Node, NEW t \in Node, IsExtension(adj, adj1, s, t),
         NEW E, IsOrientation(adj1, E),
         NEW k \in Int, HasCore(adj, k), OutDegree(adj, s) = k - 1,
         NEW p \in ForwardPaths(adj1, s)
  PROVE  /\ HasCore(FlipPath(adj1, p), k)
         /\ OnlyChange(adj, FlipPath(adj1, p), p[Len(p)], 1)
         /\ OutDegree(adj, p[Len(p)]) < k - 1
<1>1. PICK H \in SUBSET Node : IsCore(adj, k, H)
  BY DEF HasCore
<1>2. /\ adj \in Digraph /\ adj1 \in Digraph
      /\ OnlyChange(adj, adj1, s, 1)
      /\ \A x \in Node : \A y : y \in adj1[x] <=> y \in adj[x] \/ (x = s /\ y = t)
      /\ \A x \in Node : OutDegree(adj, x) \in Nat /\ OutDegree(adj1, x) \in Nat
  BY DEF IsExtension
<1>3. PICK n \in Nat : n = Len(p)
  <2>1. p \in Seq(Node)
    BY <1>2, ForwardPathFacts DEF IsSearchPath
  <2>2. QED
    BY <2>1
<1>4. PICK adj2 : adj2 = FlipPath(adj1, p)
  OBVIOUS
<1>5. /\ p \in Seq(Node) /\ IsPath(adj1, p) /\ n >= 2
      /\ p[1] = s /\ p[n] \in Node \ {s}
      /\ OutDegree(adj1, p[n]) < OutDegree(adj1, s) - 1
      /\ DegreeMoved(adj1, adj2, s, p[n])
  BY <1>3, <1>4, ForwardFlipMoves
<1>6. \A i \in 2..n : p[i] # s /\ p[i] \in Node
  <2>1. Simple(p)
    BY <1>2, ForwardPathFacts DEF IsSearchPath
  <2>2. QED
    BY <1>3, <1>5, <2>1 DEF Simple
<1>7. OutDegree(adj, p[n]) < k - 1 /\ OnlyChange(adj, adj2, p[n], 1)
  <2>1. OutDegree(adj, p[n]) < k - 1
    BY <1>2, <1>5 DEF OnlyChange
  <2>2. QED
    BY <1>2, <1>5, <2>1, ArcPassedOn
<1>8. p[n] \notin H
  BY <1>1, <1>2, <1>5, <1>7 DEF IsCore
<1>9. \A i \in 2..n : p[i] \notin H
  <2> SUFFICES ASSUME NEW i \in 2..n, p[i] \in H PROVE FALSE
    OBVIOUS
  <2>1. i \in 1..Len(p) /\ n \in i..Len(p)
    BY <1>3
  <2>2. \A j \in i..n - 1 : p[j + 1] \in adj[p[j]]
    <3> SUFFICES ASSUME NEW j \in i..n - 1 PROVE p[j + 1] \in adj[p[j]]
      OBVIOUS
    <3>1. j \in 2..n /\ j \in 1..Len(p) - 1
      BY <1>3
    <3>2. p[j + 1] \in adj1[p[j]] /\ p[j] # s /\ p[j] \in Node
      BY <1>5, <1>6, <3>1 DEF IsPath
    <3>3. QED
      BY <1>2, <3>2
  <2>3. p[n] \in Reachable(adj, p[i])
    BY <1>2, <1>5, <2>1, <2>2, PathReaches
  <2>4. IsClosed(adj, H)
    BY <1>1 DEF IsCore
  <2>5. QED
    BY <1>8, <2>3, <2>4, ReachableInClosed
<1>10. IsClosed(adj2, H)
  <2> SUFFICES ASSUME NEW x \in H, NEW y \in adj2[x] PROVE y \in H
    BY DEF IsClosed
  <2>1. ~OnPath(p, y, x)
    BY <1>3, <1>9 DEF OnPath
  <2>2. y \in adj1[x] /\ ~OnPath(p, x, y)
    BY <1>2, <1>4, <1>5, <2>1, FlipMembers
  <2>3. CASE y \in adj[x]
    BY <1>1, <2>3 DEF IsCore, IsClosed
  <2>4. CASE y \notin adj[x]
    <3>1. x = s /\ y = t
      BY <1>2, <2>2, <2>4
    <3>2. 1 \in 1..Len(p) - 1 /\ 2 \in 2..n
      BY <1>3, <1>5
    <3>3. p[2] # t
      BY <1>5, <2>2, <3>1, <3>2 DEF OnPath
    <3>4. p[1 + 1] \in adj1[p[1]] /\ 1 + 1 = 2
      BY <1>5, <3>2 DEF IsPath
    <3>5. p[2] \in adj1[s]
      BY <1>5, <3>4
    <3>6. p[2] \in adj[s]
      BY <1>2, <3>3, <3>5
    <3>7. p[2] \in H
      BY <1>1, <3>1, <3>6 DEF IsCore, IsClosed
    <3>8. QED
      BY <1>9, <3>2, <3>7
  <2>5. QED
    BY <2>3, <2>4
<1>11. WithDegree(adj2, k) = WithDegree(adj, k)
  BY <1>2, <1>7 DEF OnlyChange, WithDegree
<1>12. IsCore(adj2, k, H)
  BY <1>1, <1>2, <1>7, <1>8, <1>10, <1>11 DEF IsCore, OnlyChange
<1>13. QED
  BY <1>3, <1>4, <1>7, <1>12 DEF HasCore

\* s would exceed the maximum, but a path is flipped.  Both ends of the new arc have the
\* maximum, so the path stays in the core, and ends at a node one below the maximum.
LEMMA CoreCrossed ==
  ASSUME NEW adj, NEW adj1, NEW s \in Node, NEW t \in Node, IsExtension(adj, adj1, s, t),
         NEW E, IsOrientation(adj1, E),
         NEW k \in Int, HasCore(adj, k), AtMost(adj, k),
         OutDegree(adj, s) = k, OutDegree(adj, s) <= OutDegree(adj, t),
         NEW p \in ForwardPaths(adj1, s)
  PROVE  /\ HasCore(FlipPath(adj1, p), k)
         /\ OnlyChange(adj, FlipPath(adj1, p), p[Len(p)], 1)
         /\ OutDegree(adj, p[Len(p)]) = k - 1
<1>1. PICK H \in SUBSET Node : IsCore(adj, k, H)
  BY DEF HasCore
<1>2. /\ adj \in Digraph /\ adj1 \in Digraph
      /\ OnlyChange(adj, adj1, s, 1)
      /\ \A x \in Node : \A y : y \in adj1[x] <=> y \in adj[x] \/ (x = s /\ y = t)
      /\ \A x \in Node : OutDegree(adj, x) \in Nat /\ OutDegree(adj1, x) \in Nat
  BY DEF IsExtension
<1>3. PICK n \in Nat : n = Len(p)
  <2>1. p \in Seq(Node)
    BY <1>2, ForwardPathFacts DEF IsSearchPath
  <2>2. QED
    BY <2>1
<1>4. PICK adj2 : adj2 = FlipPath(adj1, p)
  OBVIOUS
<1>5. /\ p \in Seq(Node) /\ IsPath(adj1, p) /\ n >= 2
      /\ p[1] = s /\ p[n] \in Node \ {s}
      /\ OutDegree(adj1, p[n]) < OutDegree(adj1, s) - 1
      /\ DegreeMoved(adj1, adj2, s, p[n])
  BY <1>3, <1>4, ForwardFlipMoves
<1>6. s \in H /\ t \in H
  <2>1. OutDegree(adj, t) = k
    BY <1>2 DEF AtMost
  <2>2. QED
    BY <1>1, <2>1 DEF IsCore, WithDegree
<1>7. IsClosed(adj1, H)
  BY <1>1, <1>2, <1>6 DEF IsCore, IsClosed
<1>8. p[n] \in H
  <2>1. 1 \in 1..Len(p) /\ n \in 1..Len(p)
    BY <1>3, <1>5
  <2>2. QED
    BY <1>2, <1>5, <1>6, <1>7, <2>1, PathInClosed
<1>9. OutDegree(adj, p[n]) = k - 1
  BY <1>1, <1>2, <1>5, <1>8 DEF IsCore, OnlyChange
<1>10. OnlyChange(adj, adj2, p[n], 1)
  BY <1>2, <1>5, ArcPassedOn
<1>11. IsClosed(adj2, H)
  BY <1>2, <1>4, <1>5, <1>6, <1>7, FlipKeepsClosed
<1>12. WithDegree(adj2, k) \subseteq H
  BY <1>1, <1>2, <1>8, <1>10 DEF IsCore, OnlyChange, WithDegree
<1>13. IsCore(adj2, k, H)
  BY <1>1, <1>2, <1>10, <1>11, <1>12 DEF IsCore, OnlyChange
<1>14. QED
  BY <1>3, <1>4, <1>9, <1>10, <1>13 DEF HasCore

(****************************************************************************)
(* The core after a deletion.  The lost arc led from s to t.                *)
(****************************************************************************)

\* From adj to adj1 an arc of s is lost.
IsReduction(adj, adj1, s) ==
  /\ adj \in Digraph /\ adj1 \in Digraph
  /\ OnlyChange(adj, adj1, s, -1)
  /\ \A x \in Node : adj1[x] \subseteq adj[x]
  /\ \A x \in Node : OutDegree(adj, x) \in Nat /\ OutDegree(adj1, x) \in Nat

\* The lists before the search.
LEMMA ArcLost ==
  ASSUME NEW adj, NEW E, IsOrientation(adj, E),
         NEW s \in Node, NEW t \in Node, t \in adj[s]
  PROVE  /\ IsOrientation(WithoutArc(adj, s, t), E \ {{s, t}})
         /\ IsReduction(adj, WithoutArc(adj, s, t), s)
<1>1. PICK adj1 : adj1 = WithoutArc(adj, s, t)
  OBVIOUS
<1>2. IsOrientation(adj1, E \ {{s, t}}) /\ OutDegree(adj1, s) = OutDegree(adj, s) - 1
  BY <1>1, WithoutArcFacts
<1>3. adj \in Digraph /\ adj1 \in Digraph
  BY <1>2 DEF IsOrientation
<1>4. \A x \in Node : OutDegree(adj, x) \in Nat /\ OutDegree(adj1, x) \in Nat
  BY <1>3, DegreeType
<1>5. OnlyChange(adj, adj1, s, -1)
  <2>1. OutDegree(adj1, s) = OutDegree(adj, s) + -1
    BY <1>2, <1>4
  <2>2. QED
    BY <1>1, <1>3, <2>1, WithoutArcOthers DEF OnlyChange
<1>6. \A x \in Node : adj1[x] \subseteq adj[x]
  BY <1>1, <1>3, WithoutArcMembers
<1>7. QED
  BY <1>1, <1>2, <1>3, <1>4, <1>5, <1>6 DEF IsReduction

\* No search follows: s had the maximum, or is below the core.
LEMMA CoreThinned ==
  ASSUME NEW adj, NEW adj1, NEW s \in Node, IsReduction(adj, adj1, s),
         NEW k \in Int, HasCore(adj, k), OutDegree(adj, s) = k \/ OutDegree(adj, s) < k - 1
  PROVE  HasCore(adj1, k)
<1>1. PICK H \in SUBSET Node : IsCore(adj, k, H)
  BY DEF HasCore
<1>2. /\ adj \in Digraph /\ adj1 \in Digraph
      /\ OnlyChange(adj, adj1, s, -1)
      /\ \A x \in Node : adj1[x] \subseteq adj[x]
      /\ \A x \in Node : OutDegree(adj, x) \in Nat /\ OutDegree(adj1, x) \in Nat
  BY DEF IsReduction
<1>3. IsClosed(adj1, H)
  BY <1>1, <1>2 DEF IsCore, IsClosed
<1>4. WithDegree(adj1, k) \subseteq H
  BY <1>1, <1>2 DEF IsCore, OnlyChange, WithDegree
<1>5. \A x \in H : OutDegree(adj1, x) >= k - 1
  <2> SUFFICES ASSUME NEW x \in H PROVE OutDegree(adj1, x) >= k - 1
    OBVIOUS
  <2>1. x \in Node /\ OutDegree(adj, x) >= k - 1
    BY <1>1 DEF IsCore
  <2>2. CASE x = s
    BY <1>2, <2>1, <2>2 DEF OnlyChange
  <2>3. CASE x # s
    BY <1>2, <2>1, <2>3 DEF OnlyChange
  <2>4. QED
    BY <2>2, <2>3
<1>6. QED
  BY <1>1, <1>3, <1>4, <1>5 DEF HasCore, IsCore

\* The search finds no path: the core loses the nodes that the search has seen, none of
\* which has the maximum.
LEMMA CoreShrinks ==
  ASSUME NEW adj, NEW adj1, NEW s \in Node, IsReduction(adj, adj1, s),
         NEW k \in Int, HasCore(adj, k), WithDegree(adj, k) # {}, OutDegree(adj, s) = k - 1,
         BackwardPaths(adj1, s) = {}
  PROVE  HasCore(adj1, k)
<1>1. PICK H \in SUBSET Node : IsCore(adj, k, H)
  BY DEF HasCore
<1>2. /\ adj \in Digraph /\ adj1 \in Digraph
      /\ OnlyChange(adj, adj1, s, -1)
      /\ \A x \in Node : adj1[x] \subseteq adj[x]
      /\ \A x \in Node : OutDegree(adj, x) \in Nat /\ OutDegree(adj1, x) \in Nat
  BY DEF IsReduction
<1>3. OutDegree(adj1, s) = k - 2 /\ \A x \in Node \ {s} : OutDegree(adj1, x) = OutDegree(adj, x)
  BY <1>2 DEF OnlyChange
<1>4. PICK R \in SUBSET Node :
        /\ s \in R
        /\ \A x \in R : OutDegree(adj1, x) <= k - 1
        /\ \A x \in R : \A y \in Node : x \in adj1[y] => y \in R \/ OutDegree(adj1, y) <= k - 2
  <2>1. PICK R \in SUBSET Node :
          /\ s \in R
          /\ \A x \in R : OutDegree(adj1, x) <= OutDegree(adj1, s) + 1
          /\ \A x \in R : \A y \in Node :
               x \in adj1[y] => y \in R \/ OutDegree(adj1, y) <= OutDegree(adj1, s)
    BY <1>2, BackwardExhausted
  <2>2. OutDegree(adj1, s) + 1 = k - 1
    BY <1>3
  <2>3. QED
    BY <1>3, <2>1, <2>2
<1>5. WithDegree(adj1, k) = WithDegree(adj, k)
  BY <1>3 DEF WithDegree
<1>6. WithDegree(adj1, k) \subseteq H \ R
  BY <1>1, <1>4, <1>5 DEF IsCore, WithDegree
<1>7. IsClosed(adj1, H \ R)
  <2> SUFFICES ASSUME NEW x \in H, x \notin R, NEW y \in adj1[x] PROVE y \in H \ R
    BY DEF IsClosed
  <2>1. x \in Node /\ x # s /\ y \in adj[x]
    BY <1>1, <1>2, <1>4 DEF IsCore
  <2>2. y \in H
    BY <1>1, <2>1 DEF IsCore, IsClosed
  <2>3. OutDegree(adj1, x) >= k - 1 /\ OutDegree(adj1, x) \in Nat
    BY <1>1, <1>2, <1>3, <2>1 DEF IsCore
  <2>4. ~(OutDegree(adj1, x) <= k - 2)
    BY <2>3
  <2>5. y \notin R
    BY <1>4, <2>1, <2>4
  <2>6. QED
    BY <2>2, <2>5
<1>8. \A x \in H \ R : OutDegree(adj1, x) >= k - 1
  BY <1>1, <1>3, <1>4 DEF IsCore
<1>9. IsCore(adj1, k, H \ R)
  BY <1>5, <1>6, <1>7, <1>8 DEF IsCore
<1>10. QED
  BY <1>9 DEF HasCore

\* The search finds a path, from a node of maximum out-degree: it stays in the core.
LEMMA CoreRepaired ==
  ASSUME NEW adj, NEW adj1, NEW s \in Node, IsReduction(adj, adj1, s),
         NEW E, IsOrientation(adj1, E),
         NEW k \in Int, HasCore(adj, k), AtMost(adj, k), OutDegree(adj, s) = k - 1,
         NEW p \in BackwardPaths(adj1, s)
  PROVE  /\ HasCore(FlipPath(adj1, p), k)
         /\ OnlyChange(adj, FlipPath(adj1, p), p[1], -1)
         /\ OutDegree(adj, p[1]) = k
<1>1. PICK H \in SUBSET Node : IsCore(adj, k, H)
  BY DEF HasCore
<1>2. /\ adj \in Digraph /\ adj1 \in Digraph
      /\ OnlyChange(adj, adj1, s, -1)
      /\ \A x \in Node : adj1[x] \subseteq adj[x]
      /\ \A x \in Node : OutDegree(adj, x) \in Nat /\ OutDegree(adj1, x) \in Nat
  BY DEF IsReduction
<1>3. PICK n \in Nat : n = Len(p)
  <2>1. p \in Seq(Node)
    BY <1>2, BackwardPathFacts DEF IsSearchPath
  <2>2. QED
    BY <2>1
<1>4. PICK adj2 : adj2 = FlipPath(adj1, p)
  OBVIOUS
<1>5. PICK w \in Node \ {s} :
        /\ p \in Seq(Node) /\ IsPath(adj1, p) /\ n >= 2
        /\ p[1] = w /\ p[n] = s
        /\ OutDegree(adj1, w) > OutDegree(adj1, s) + 1
        /\ DegreeMoved(adj1, adj2, w, s)
  BY <1>3, <1>4, BackwardFlipMoves
<1>6. OutDegree(adj, w) = k
  <2>1. OutDegree(adj1, w) = OutDegree(adj, w) /\ OutDegree(adj1, s) = k - 2
    BY <1>2, <1>5 DEF OnlyChange
  <2>2. OutDegree(adj, w) <= k
    BY DEF AtMost
  <2>3. QED
    BY <1>2, <1>5, <2>1, <2>2
<1>7. OnlyChange(adj, adj2, w, -1)
  BY <1>2, <1>5, LossPassedOn
<1>8. IsClosed(adj1, H) /\ w \in H
  BY <1>1, <1>2, <1>6 DEF IsCore, IsClosed, WithDegree
<1>9. IsClosed(adj2, H)
  BY <1>2, <1>4, <1>5, <1>8, FlipKeepsClosed
<1>10. WithDegree(adj2, k) \subseteq H
  BY <1>1, <1>2, <1>7, <1>8 DEF IsCore, OnlyChange, WithDegree
<1>11. \A x \in H : OutDegree(adj2, x) >= k - 1
  <2> SUFFICES ASSUME NEW x \in H PROVE OutDegree(adj2, x) >= k - 1
    OBVIOUS
  <2>1. x \in Node /\ OutDegree(adj, x) >= k - 1
    BY <1>1 DEF IsCore
  <2>2. CASE x = w
    BY <1>6, <1>7, <2>2 DEF OnlyChange
  <2>3. CASE x # w
    BY <1>7, <2>1, <2>3 DEF OnlyChange
  <2>4. QED
    BY <2>2, <2>3
<1>12. HasCore(adj2, k)
  BY <1>1, <1>9, <1>10, <1>11 DEF HasCore, IsCore
<1>13. QED
  BY <1>4, <1>5, <1>6, <1>7, <1>12

(****************************************************************************)
(* The inductive invariant.                                                 *)
(****************************************************************************)

\* Between the handlers the counters are exact, and there is a core.
Settled(adj, E, k, m) ==
  /\ IsMaxOutDegree(adj, k)
  /\ HasCore(adj, k)
  /\ m = IF E = {} THEN 0 ELSE Cardinality(WithDegree(adj, k))

\* A closed set of nodes all of which have out-degree k: what was left of the core when
\* its last node of maximum out-degree was lowered.
HasPlateau(adj, k) ==
  \E S \in SUBSET Node : S # {} /\ IsClosed(adj, S) /\ \A x \in S : OutDegree(adj, x) = k

\* Inside find_optimal no flip touches the plateau, and a round without a successful
\* search has shown that no maximum node has a path.
InRound ==
  /\ max_out_degree >= 2
  /\ max_node_count = 0
  /\ AtMost(m_adj, max_out_degree)
  /\ HasPlateau(m_adj, max_out_degree)
  /\ all_path_improved => \A v \in Node \ todo : OutDegree(m_adj, v) < max_out_degree
  /\ ~path_improved =>
       \A v \in WithDegree(m_adj, max_out_degree) \ todo : ForwardPaths(m_adj, v) = {}

CoreInv ==
  /\ pc = "idle" /\ ~lapsed => Settled(m_adj, edges, max_out_degree, max_node_count)
  /\ pc = "find_optimal" /\ ~lapsed => InRound

\* Without edges no node has an out-neighbour, with edges some node has.
LEMMA EdgesGiveDegrees ==
  ASSUME NEW adj, NEW E \in SUBSET Edge, IsOrientation(adj, E)
  PROVE  E = {} <=> \A v \in Node : OutDegree(adj, v) = 0
<1>1. adj \in Digraph /\ \A v \in Node : IsFiniteSet(adj[v])
  BY DegreeType DEF IsOrientation
<1>2. \A v \in Node : OutDegree(adj, v) = 0 <=> adj[v] = {}
  BY <1>1, FS_EmptySet DEF OutDegree
<1>3. CASE E = {}
  <2>1. \A v \in Node : adj[v] = {}
    BY <1>1, <1>3 DEF IsOrientation, Digraph
  <2>2. QED
    BY <1>2, <1>3, <2>1
<1>4. CASE E # {}
  <2>1. PICK e \in E : TRUE
    BY <1>4
  <2>2. PICK u \in Node, v \in Node : e = {u, v}
    BY <2>1 DEF Edge
  <2>3. v \in adj[u] \/ u \in adj[v]
    BY <2>1, <2>2 DEF IsOrientation
  <2>4. QED
    BY <1>2, <1>4, <2>3
<1>5. QED
  BY <1>3, <1>4

\* All nodes are a core when none has an out-neighbour.
LEMMA TrivialCore ==
  ASSUME NEW adj \in Digraph, \A v \in Node : OutDegree(adj, v) = 0
  PROVE  HasCore(adj, 0)
<1>1. IsClosed(adj, Node)
  BY DEF IsClosed, Digraph
<1>2. WithDegree(adj, 0) \subseteq Node
  BY DEF WithDegree
<1>3. IsCore(adj, 0, Node)
  BY <1>1, <1>2, NodeAssumption DEF IsCore
<1>4. QED
  BY <1>3 DEF HasCore

\* The initial state is settled.
LEMMA InitSettled == Init => CoreInv
<1> SUFFICES ASSUME Init PROVE Settled(m_adj, edges, max_out_degree, max_node_count)
  BY DEF Init, CoreInv
<1>1. m_adj \in Digraph /\ IsOrientation(m_adj, edges) /\ edges = {} /\ edges \in SUBSET Edge
  BY InitOriented DEF IInv, TypeOK, Oriented, Init
<1>2. \A v \in Node : OutDegree(m_adj, v) = 0
  BY <1>1, EdgesGiveDegrees
<1>3. max_out_degree = 0 /\ max_node_count = 0
  BY DEF Init
<1>4. IsMaxOutDegree(m_adj, 0)
  BY <1>2, NodeAssumption DEF IsMaxOutDegree
<1>5. HasCore(m_adj, 0)
  BY <1>1, <1>2, TrivialCore
<1>6. QED
  BY <1>1, <1>3, <1>4, <1>5 DEF Settled

\* Raising a node below the maximum keeps the maximum.
LEMMA RaisedBelowMax ==
  ASSUME NEW adj, NEW adj2, NEW k \in Int, NEW v,
         IsMaxOutDegree(adj, k), OnlyChange(adj, adj2, v, 1),
         OutDegree(adj, v) \in Nat, OutDegree(adj, v) <= k - 1
  PROVE  IsMaxOutDegree(adj2, k)
<1>1. PICK x \in Node : OutDegree(adj, x) = k
  BY DEF IsMaxOutDegree
<1>2. OutDegree(adj2, x) = k
  BY <1>1 DEF OnlyChange
<1>3. \A y \in Node : OutDegree(adj2, y) <= k
  <2> SUFFICES ASSUME NEW y \in Node PROVE OutDegree(adj2, y) <= k
    OBVIOUS
  <2>1. CASE y = v
    BY <2>1 DEF OnlyChange
  <2>2. CASE y # v
    BY <2>2 DEF OnlyChange, IsMaxOutDegree
  <2>3. QED
    BY <2>1, <2>2
<1>4. QED
  BY <1>1, <1>2, <1>3 DEF IsMaxOutDegree

\* An insertion leaves the counters exact and a core, in each of its branches.
LEMMA InsertionSettles ==
  ASSUME IInv, Settled(m_adj, edges, max_out_degree, max_node_count),
         NEW s \in Node, NEW t \in Node, s # t, {s, t} \notin edges,
         OutDegree(m_adj, s) <= OutDegree(m_adj, t), insertArc(s, t)
  PROVE  Settled(m_adj', edges', max_out_degree', max_node_count')
<1>1. PICK adj1 : adj1 = WithArc(m_adj, s, t)
  OBVIOUS
<1>2. PICK k \in Int, m \in Int : k = max_out_degree /\ m = max_node_count
  BY DEF IInv, TypeOK
<1>3. PICK paths : paths = ForwardResults(adj1, s)
  OBVIOUS
<1>4. IsExtension(m_adj, adj1, s, t) /\ IsOrientation(adj1, edges \cup {{s, t}})
  BY <1>1, ArcAdded DEF IInv, Oriented
<1>5. /\ m_adj \in Digraph /\ adj1 \in Digraph
      /\ OnlyChange(m_adj, adj1, s, 1)
      /\ \A x \in Node : OutDegree(m_adj, x) \in Nat /\ OutDegree(adj1, x) \in Nat
  BY <1>4 DEF IsExtension
<1>6. PICK d \in Nat : d = OutDegree(m_adj, s) /\ OutDegree(adj1, s) = d + 1
  BY <1>5 DEF OnlyChange
<1>7. IsMaxOutDegree(m_adj, k) /\ AtMost(m_adj, k) /\ HasCore(m_adj, k) /\ d <= k
  BY <1>2, <1>6 DEF Settled, IsMaxOutDegree, AtMost
<1>8. edges' # {}
  BY DEF insertArc
<1>9. edges = {} => k = 0
  <2>1. edges \in SUBSET Edge /\ IsOrientation(m_adj, edges)
    BY DEF IInv, TypeOK, Oriented
  <2>2. QED
    BY <1>7, <2>1, EdgesGiveDegrees DEF IsMaxOutDegree
<1>10. k # 0 => m = Cardinality(WithDegree(m_adj, k))
  BY <1>2, <1>9 DEF Settled
<1>11. paths \in SUBSET ForwardPaths(adj1, s) /\ (paths = {} => ForwardPaths(adj1, s) = {})
  BY <1>3, <1>5, ForwardResultsFacts
<1>12. \/ /\ d + 1 = k
          /\ m_adj' \in Flipped(adj1, paths)
          /\ max_node_count' = m + (IF paths = {} THEN 1 ELSE 0)
          /\ max_out_degree' = k
       \/ /\ d + 1 = k + 1
          /\ m_adj' \in Flipped(adj1, paths)
          /\ IF paths = {}
               THEN max_out_degree' = k + 1 /\ max_node_count' = 1
               ELSE max_out_degree' = k /\ max_node_count' = m + 1
       \/ /\ d + 1 # k /\ d + 1 # k + 1
          /\ m_adj' = adj1
          /\ max_out_degree' = k /\ max_node_count' = m
  BY <1>1, <1>2, <1>3, <1>6 DEF insertArc, WithArc, counters
<1>13. CASE d + 1 = k /\ paths = {}
  <2>1. m_adj' = adj1 /\ max_node_count' = m + 1 /\ max_out_degree' = k
    BY <1>12, <1>13 DEF Flipped
  <2>2. HasCore(adj1, k)
    BY <1>4, <1>6, <1>7, <1>11, <1>13, CoreGrows
  <2>3. IsMaxOutDegree(adj1, k)
    BY <1>5, <1>6, <1>7, <1>13, RaisedBelowMax
  <2>4. Cardinality(WithDegree(adj1, k)) = Cardinality(WithDegree(m_adj, k)) + 1
    BY <1>5, <1>6, <1>13, OneMore
  <2>5. k # 0
    BY <1>13
  <2>6. QED
    BY <1>8, <1>10, <2>1, <2>2, <2>3, <2>4, <2>5 DEF Settled
<1>14. CASE d + 1 = k /\ paths # {}
  <2>1. PICK p \in ForwardPaths(adj1, s) : m_adj' = FlipPath(adj1, p)
    BY <1>11, <1>12, <1>14 DEF Flipped
  <2>2. max_node_count' = m /\ max_out_degree' = k
    BY <1>12, <1>14
  <2>3. PICK v : v = p[Len(p)]
    OBVIOUS
  <2>4. HasCore(m_adj', k) /\ OnlyChange(m_adj, m_adj', v, 1) /\ OutDegree(m_adj, v) < k - 1
    BY <1>4, <1>6, <1>7, <1>14, <2>1, <2>3, CoreBypassed
  <2>5. OutDegree(m_adj, v) \in Nat
    BY <1>5, <2>4 DEF OnlyChange
  <2>6. IsMaxOutDegree(m_adj', k)
    BY <1>7, <2>4, <2>5, RaisedBelowMax
  <2>7. WithDegree(m_adj', k) = WithDegree(m_adj, k)
    BY <1>5, <2>4, <2>5, SameCount
  <2>8. k # 0
    BY <1>14
  <2>9. QED
    BY <1>8, <1>10, <2>2, <2>4, <2>6, <2>7, <2>8 DEF Settled
<1>15. CASE d = k /\ paths = {}
  <2>1. m_adj' = adj1 /\ max_node_count' = 1 /\ max_out_degree' = k + 1
    BY <1>12, <1>15 DEF Flipped
  <2>2. HasCore(adj1, k + 1) /\ WithDegree(adj1, k + 1) = {s}
    <3>1. OutDegree(m_adj, s) = k /\ ForwardPaths(adj1, s) = {}
      BY <1>6, <1>11, <1>15
    <3>2. QED
      BY <1>4, <1>7, <3>1, CoreOfOne
  <2>3. IsMaxOutDegree(adj1, k + 1)
    BY <1>5, <1>6, <1>7, <1>15 DEF OnlyChange, AtMost, IsMaxOutDegree
  <2>4. Cardinality({s}) = 1
    BY FS_Singleton
  <2>5. QED
    BY <1>8, <2>1, <2>2, <2>3, <2>4 DEF Settled
<1>16. CASE d = k /\ paths # {}
  <2>1. PICK p \in ForwardPaths(adj1, s) : m_adj' = FlipPath(adj1, p)
    BY <1>11, <1>12, <1>16 DEF Flipped
  <2>2. max_node_count' = m + 1 /\ max_out_degree' = k
    BY <1>12, <1>16
  <2>3. PICK v : v = p[Len(p)]
    OBVIOUS
  <2>4. HasCore(m_adj', k) /\ OnlyChange(m_adj, m_adj', v, 1) /\ OutDegree(m_adj, v) = k - 1
    <3>1. OutDegree(m_adj, s) = k
      BY <1>6, <1>16
    <3>2. QED
      BY <1>4, <1>7, <2>1, <2>3, <3>1, CoreCrossed
  <2>5. OutDegree(m_adj, v) \in Nat
    BY <1>5, <2>4 DEF OnlyChange
  <2>6. IsMaxOutDegree(m_adj', k)
    BY <1>7, <2>4, <2>5, RaisedBelowMax
  <2>7. Cardinality(WithDegree(m_adj', k)) = Cardinality(WithDegree(m_adj, k)) + 1
    BY <1>5, <2>4, <2>5, OneMore
  <2>8. k # 0
    BY <2>4, <2>5
  <2>9. QED
    BY <1>8, <1>10, <2>2, <2>4, <2>6, <2>7, <2>8 DEF Settled
<1>17. CASE d + 1 # k /\ d + 1 # k + 1
  <2>1. m_adj' = adj1 /\ max_node_count' = m /\ max_out_degree' = k
    BY <1>12, <1>17
  <2>2. d < k - 1
    BY <1>7, <1>17
  <2>3. HasCore(adj1, k) /\ WithDegree(adj1, k) = WithDegree(m_adj, k)
    BY <1>4, <1>6, <1>7, <2>2, CoreUntouched
  <2>4. IsMaxOutDegree(adj1, k)
    BY <1>5, <1>6, <1>7, <2>2, RaisedBelowMax
  <2>5. k # 0
    BY <2>2
  <2>6. QED
    BY <1>8, <1>10, <2>1, <2>3, <2>4, <2>5 DEF Settled
<1>18. QED
  BY <1>12, <1>13, <1>14, <1>15, <1>16, <1>17

\* Until the recount of a deletion is due, the number of nodes of degree k is exact.
Counted(adj, k, m) ==
  AtMost(adj, k) /\ HasCore(adj, k) /\ m = Cardinality(WithDegree(adj, k))

\* Lowering a node raises nothing above the maximum.
LEMMA LoweredAtMost ==
  ASSUME NEW adj, NEW adj2, NEW k \in Int, NEW v, AtMost(adj, k),
         OnlyChange(adj, adj2, v, -1), OutDegree(adj, v) \in Nat
  PROVE  AtMost(adj2, k)
<1> SUFFICES ASSUME NEW y \in Node PROVE OutDegree(adj2, y) <= k
  BY DEF AtMost
<1>1. CASE y = v
  <2>1. OutDegree(adj, v) <= k
    BY DEF OnlyChange, AtMost
  <2>2. QED
    BY <1>1, <2>1 DEF OnlyChange
<1>2. CASE y # v
  BY <1>2 DEF OnlyChange, AtMost
<1>3. QED
  BY <1>1, <1>2

\* Each branch of a deletion keeps the count and the core, up to the test of the count.
LEMMA DeletionCounts ==
  ASSUME IInv, Settled(m_adj, edges, max_out_degree, max_node_count),
         NEW s \in Node, NEW t \in Node, t \in m_adj[s], deleteArc(s, t)
  PROVE  Counted(m_adj', max_out_degree, max_node_count')
<1>1. PICK adj1 : adj1 = WithoutArc(m_adj, s, t)
  OBVIOUS
<1>2. PICK k \in Int, m \in Int : k = max_out_degree /\ m = max_node_count
  BY DEF IInv, TypeOK
<1>3. PICK paths : paths = BackwardResults(adj1, s)
  OBVIOUS
<1>4. IsReduction(m_adj, adj1, s) /\ IsOrientation(adj1, edges \ {{s, t}})
  BY <1>1, ArcLost DEF IInv, Oriented
<1>5. /\ m_adj \in Digraph /\ adj1 \in Digraph
      /\ OnlyChange(m_adj, adj1, s, -1)
      /\ \A x \in Node : OutDegree(m_adj, x) \in Nat /\ OutDegree(adj1, x) \in Nat
  BY <1>4 DEF IsReduction
<1>6. PICK d \in Nat : d = OutDegree(m_adj, s) /\ OutDegree(adj1, s) = d - 1
  BY <1>5 DEF OnlyChange
<1>7. AtMost(m_adj, k) /\ HasCore(m_adj, k) /\ WithDegree(m_adj, k) # {} /\ d <= k
  BY <1>2, <1>6 DEF Settled, IsMaxOutDegree, AtMost, WithDegree
<1>8. m = Cardinality(WithDegree(m_adj, k))
  <2>1. edges # {}
    BY DEF IInv, Oriented, IsOrientation
  <2>2. QED
    BY <1>2, <2>1 DEF Settled
<1>9. paths \in SUBSET BackwardPaths(adj1, s) /\ (paths = {} => BackwardPaths(adj1, s) = {})
  BY <1>3, <1>5, BackwardResultsFacts
<1>10. \/ /\ d - 1 = k - 1
          /\ m_adj' = adj1
          /\ max_node_count' = m - 1
       \/ /\ d - 1 = k - 2
          /\ m_adj' \in Flipped(adj1, paths)
          /\ max_node_count' = m - (IF paths = {} THEN 0 ELSE 1)
       \/ /\ d - 1 # k - 1 /\ d - 1 # k - 2
          /\ m_adj' = adj1
          /\ max_node_count' = m
  BY <1>1, <1>2, <1>3, <1>6 DEF deleteArc, WithoutArc
<1>11. CASE d = k
  <2>1. m_adj' = adj1 /\ max_node_count' = m - 1
    BY <1>10, <1>11
  <2>2. OutDegree(m_adj, s) = k
    BY <1>6, <1>11
  <2>3. HasCore(adj1, k)
    BY <1>4, <1>7, <2>2, CoreThinned
  <2>4. AtMost(adj1, k)
    BY <1>5, <1>7, LoweredAtMost
  <2>5. Cardinality(WithDegree(adj1, k)) = Cardinality(WithDegree(m_adj, k)) - 1
    BY <1>5, <2>2, OneLess
  <2>6. QED
    BY <1>2, <1>8, <2>1, <2>3, <2>4, <2>5 DEF Counted
<1>12. CASE d = k - 1 /\ paths = {}
  <2>1. m_adj' = adj1 /\ max_node_count' = m
    BY <1>10, <1>12 DEF Flipped
  <2>2. OutDegree(m_adj, s) = k - 1
    BY <1>6, <1>12
  <2>3. BackwardPaths(adj1, s) = {}
    BY <1>9, <1>12
  <2>4. HasCore(adj1, k)
    BY <1>4, <1>7, <2>2, <2>3, CoreShrinks
  <2>5. AtMost(adj1, k)
    BY <1>5, <1>7, LoweredAtMost
  <2>6. WithDegree(adj1, k) = WithDegree(m_adj, k)
    BY <1>5, <2>2, SameCount
  <2>7. QED
    BY <1>2, <1>8, <2>1, <2>4, <2>5, <2>6 DEF Counted
<1>13. CASE d = k - 1 /\ paths # {}
  <2>1. PICK p \in BackwardPaths(adj1, s) : m_adj' = FlipPath(adj1, p)
    BY <1>9, <1>10, <1>13 DEF Flipped
  <2>2. max_node_count' = m - 1
    BY <1>10, <1>13
  <2>3. PICK w : w = p[1]
    OBVIOUS
  <2>4. OutDegree(m_adj, s) = k - 1
    BY <1>6, <1>13
  <2>5. HasCore(m_adj', k) /\ OnlyChange(m_adj, m_adj', w, -1) /\ OutDegree(m_adj, w) = k
    BY <1>4, <1>7, <2>1, <2>3, <2>4, CoreRepaired
  <2>6. OutDegree(m_adj, w) \in Nat
    BY <1>5, <2>5 DEF OnlyChange
  <2>7. AtMost(m_adj', k)
    BY <1>7, <2>5, <2>6, LoweredAtMost
  <2>8. Cardinality(WithDegree(m_adj', k)) = Cardinality(WithDegree(m_adj, k)) - 1
    BY <1>5, <2>5, OneLess
  <2>9. QED
    BY <1>2, <1>8, <2>2, <2>5, <2>7, <2>8 DEF Counted
<1>14. CASE d # k /\ d # k - 1
  <2>1. m_adj' = adj1 /\ max_node_count' = m
    BY <1>10, <1>14
  <2>2. OutDegree(m_adj, s) < k - 1 /\ OutDegree(m_adj, s) \in Nat
    BY <1>6, <1>7, <1>14
  <2>3. HasCore(adj1, k)
    BY <1>4, <1>7, <2>2, CoreThinned
  <2>4. AtMost(adj1, k)
    BY <1>5, <1>7, LoweredAtMost
  <2>5. WithDegree(adj1, k) = WithDegree(m_adj, k)
    BY <1>5, <2>2, SameCount
  <2>6. QED
    BY <1>2, <1>8, <2>1, <2>3, <2>4, <2>5 DEF Counted
<1>15. QED
  BY <1>11, <1>12, <1>13, <1>14

\* A deletion that lowers the last node of maximum out-degree leaves a core whose nodes
\* all have one less: the lowered maximum is exact, and find_optimal has a plateau.
LEMMA DeletionSettles ==
  ASSUME IInv, pc = "idle", Settled(m_adj, edges, max_out_degree, max_node_count),
         NEW s \in Node, NEW t \in Node, t \in m_adj[s], deleteArc(s, t)
  PROVE  CoreInv'
<1>1. PICK k \in Int : k = max_out_degree
  BY DEF IInv, TypeOK
<1>2. Counted(m_adj', k, max_node_count')
  BY <1>1, DeletionCounts
<1>3. IInv'
  BY DeleteArcOrients
<1>4. m_adj' \in Digraph /\ IsOrientation(m_adj', edges') /\ edges' \in SUBSET Edge
  BY <1>3 DEF IInv, TypeOK, Oriented
<1>5. \A x \in Node : OutDegree(m_adj', x) \in Nat
  BY <1>4, DegreeType
<1>6. IsFiniteSet(WithDegree(m_adj', k))
  BY WithDegreeType
<1>7. CASE max_node_count' # 0
  <2>1. UNCHANGED <<max_out_degree, pc, lapsed>>
    BY <1>7 DEF deleteArc
  <2>2. WithDegree(m_adj', k) # {}
    BY <1>2, <1>7, FS_EmptySet DEF Counted
  <2>3. IsMaxOutDegree(m_adj', k)
    BY <1>2, <2>2 DEF Counted, AtMost, WithDegree, IsMaxOutDegree
  <2>4. edges' # {}
    <3>1. SUFFICES ASSUME edges' = {} PROVE FALSE
      OBVIOUS
    <3>2. k = 0
      BY <1>4, <2>3, <3>1, EdgesGiveDegrees DEF IsMaxOutDegree
    <3>4. OutDegree(m_adj, s) = 0
      <4>1. OutDegree(m_adj, s) \in Nat /\ OutDegree(m_adj, s) <= 0
        BY <1>1, <3>2, DegreeType DEF IInv, TypeOK, Settled, IsMaxOutDegree
      <4>2. QED
        BY <4>1
    <3>5. IsFiniteSet(m_adj[s])
      BY DegreeType DEF IInv, TypeOK
    <3>6. QED
      BY <3>4, <3>5, FS_EmptySet DEF OutDegree
  <2>5. Settled(m_adj', edges', max_out_degree', max_node_count')
    BY <1>1, <1>2, <2>1, <2>3, <2>4 DEF Settled, Counted
  <2>6. QED
    BY <2>1, <2>5 DEF CoreInv
<1>8. CASE max_node_count' = 0
  <2>1. max_out_degree' = k - 1 /\ callFindOptimal
    BY <1>1, <1>8 DEF deleteArc
  <2>2. WithDegree(m_adj', k) = {}
    BY <1>2, <1>6, <1>8, FS_EmptySet DEF Counted
  <2>3. AtMost(m_adj', k - 1)
    BY <1>2, <1>5, <2>2 DEF Counted, AtMost, WithDegree
  <2>4. PICK C \in SUBSET Node : IsCore(m_adj', k, C)
    BY <1>2 DEF Counted, HasCore
  <2>5. C # {} /\ IsClosed(m_adj', C) /\ \A x \in C : OutDegree(m_adj', x) = k - 1
    <3>1. \A x \in C : x \in Node /\ OutDegree(m_adj', x) >= k - 1 /\ OutDegree(m_adj', x) <= k - 1
      BY <2>3, <2>4 DEF IsCore, AtMost
    <3>2. QED
      BY <1>5, <2>4, <3>1 DEF IsCore
  <2>6. CASE k - 1 > 1
    <3>1. pc' = "find_optimal" /\ todo' = Node /\ path_improved' = FALSE
      BY <2>1, <2>6 DEF callFindOptimal, beginRound
    <3>2. HasPlateau(m_adj', k - 1)
      BY <2>5 DEF HasPlateau
    <3>3. WithDegree(m_adj', k - 1) \ Node = {}
      BY DEF WithDegree
    <3>4. InRound'
      BY <1>8, <2>1, <2>3, <2>6, <3>1, <3>2, <3>3 DEF InRound
    <3>5. QED
      BY <3>1, <3>4 DEF CoreInv
  <2>7. CASE ~(k - 1 > 1)
    <3>1. pc' = "idle" /\ lapsed' = (lapsed \/ edges' # {})
      BY <2>1, <2>7 DEF callFindOptimal
    <3>2. SUFFICES ASSUME edges' = {}
                   PROVE  Settled(m_adj', edges', max_out_degree', max_node_count')
      BY <3>1 DEF CoreInv
    <3>3. \A x \in Node : OutDegree(m_adj', x) = 0
      BY <1>4, <3>2, EdgesGiveDegrees
    <3>4. k - 1 = 0
      BY <2>5, <3>3
    <3>5. IsMaxOutDegree(m_adj', 0)
      BY <3>3, NodeAssumption DEF IsMaxOutDegree
    <3>6. HasCore(m_adj', 0)
      BY <1>4, <3>3, TrivialCore
    <3>7. QED
      BY <1>8, <2>1, <3>2, <3>4, <3>5, <3>6 DEF Settled
  <2>8. QED
    BY <2>6, <2>7
<1>9. QED
  BY <1>7, <1>8

(****************************************************************************)
(* The rounds of find_optimal.                                              *)
(****************************************************************************)

\* A flip from a node of out-degree k takes it from the nodes of this degree, adds none,
\* and raises none above it.
LEMMA FlipSpends ==
  ASSUME NEW adj, NEW E, IsOrientation(adj, E), NEW k \in Int,
         NEW i \in Node, OutDegree(adj, i) = k, NEW p \in ForwardPaths(adj, i)
  PROVE  /\ WithDegree(FlipPath(adj, p), k) = WithDegree(adj, k) \ {i}
         /\ AtMost(adj, k) => AtMost(FlipPath(adj, p), k)
         /\ \A x \in Node : OutDegree(adj, x) < k => OutDegree(FlipPath(adj, p), x) < k
         /\ OutDegree(FlipPath(adj, p), i) < k
<1>1. PICK adj2 : adj2 = FlipPath(adj, p)
  OBVIOUS
<1>2. PICK v \in Node \ {i} : /\ OutDegree(adj, v) < k - 1
                              /\ DegreeMoved(adj, adj2, i, v)
  BY <1>1, ForwardFlipMoves
<1>3. \A x \in Node : OutDegree(adj, x) \in Nat
  BY DegreeType DEF IsOrientation
<1>4. OutDegree(adj2, i) < k
  BY <1>2 DEF DegreeMoved
<1>5. OutDegree(adj2, v) < k
  BY <1>2, <1>3 DEF DegreeMoved
<1>6. \A x \in Node \ {i, v} : OutDegree(adj2, x) = OutDegree(adj, x)
  BY <1>2 DEF DegreeMoved
<1>7. WithDegree(adj2, k) = WithDegree(adj, k) \ {i}
  BY <1>2, <1>3, <1>4, <1>5, <1>6 DEF WithDegree
<1>8. \A x \in Node : OutDegree(adj, x) < k => OutDegree(adj2, x) < k
  BY <1>4, <1>5, <1>6
<1>9. AtMost(adj, k) => AtMost(adj2, k)
  <2> SUFFICES ASSUME AtMost(adj, k), NEW x \in Node PROVE OutDegree(adj2, x) <= k
    BY DEF AtMost
  <2>1. CASE x = i
    BY <1>2, <2>1 DEF DegreeMoved
  <2>2. CASE x = v
    BY <1>2, <1>3, <2>2 DEF DegreeMoved
  <2>3. CASE x # i /\ x # v
    BY <1>6, <2>3 DEF AtMost
  <2>4. QED
    BY <2>1, <2>2, <2>3
<1>10. QED
  BY <1>1, <1>4, <1>7, <1>8, <1>9

\* No path that find_optimal flips touches the plateau: it would have to end there.
LEMMA PlateauAvoided ==
  ASSUME NEW adj, NEW E, IsOrientation(adj, E), NEW k \in Int, HasPlateau(adj, k),
         NEW i \in Node, OutDegree(adj, i) = k, NEW p \in ForwardPaths(adj, i)
  PROVE  HasPlateau(FlipPath(adj, p), k)
<1>1. PICK adj2 : adj2 = FlipPath(adj, p)
  OBVIOUS
<1>2. PICK S \in SUBSET Node : /\ S # {} /\ IsClosed(adj, S)
                               /\ \A x \in S : OutDegree(adj, x) = k
  BY DEF HasPlateau
<1>3. adj \in Digraph
  BY DEF IsOrientation
<1>4. /\ p \in Seq(Node) /\ IsPath(adj, p) /\ Len(p) >= 2
      /\ p[1] = i /\ p[Len(p)] \in Node \ {i}
      /\ OutDegree(adj, p[Len(p)]) < k - 1
      /\ DegreeMoved(adj, adj2, i, p[Len(p)])
  BY <1>1, ForwardFlipMoves
<1>5. p[Len(p)] \notin S
  BY <1>2, <1>4
<1>6. i \notin S
  <2>1. 1 \in 1..Len(p) /\ Len(p) \in 1..Len(p)
    BY <1>4
  <2>2. QED
    BY <1>2, <1>3, <1>4, <1>5, <2>1, PathInClosed
<1>7. IsClosed(adj2, S)
  BY <1>1, <1>2, <1>3, <1>4, <1>5, FlipKeepsClosed
<1>8. \A x \in S : OutDegree(adj2, x) = k
  BY <1>2, <1>4, <1>5, <1>6 DEF DegreeMoved
<1>9. QED
  BY <1>1, <1>2, <1>7, <1>8 DEF HasPlateau

\* A plateau and what the searches of a round without success have seen are a core.
LEMMA RoundLeavesCore ==
  ASSUME NEW adj \in Digraph, NEW k \in Int, AtMost(adj, k), HasPlateau(adj, k),
         \A v \in WithDegree(adj, k) : ForwardPaths(adj, v) = {}
  PROVE  HasCore(adj, k)
<1> DEFINE Seen(u, R) ==
             /\ u \in R
             /\ \A x \in R : OutDegree(adj, x) >= k - 1
             /\ \A x \in R : \A y \in adj[x] : y \in R \/ OutDegree(adj, y) >= k
           C == {x \in Node : \E u \in WithDegree(adj, k) : \E R \in SUBSET Node :
                                Seen(u, R) /\ x \in R}
<1>1. \A x \in Node : OutDegree(adj, x) \in Nat /\ OutDegree(adj, x) <= k /\ adj[x] \subseteq Node
  BY DegreeType DEF AtMost, Digraph
<1>2. \A u \in WithDegree(adj, k) : \E R \in SUBSET Node : Seen(u, R)
  <2> SUFFICES ASSUME NEW u \in WithDegree(adj, k) PROVE \E R \in SUBSET Node : Seen(u, R)
    OBVIOUS
  <2>1. u \in Node /\ OutDegree(adj, u) = k /\ ForwardPaths(adj, u) = {}
    BY DEF WithDegree
  <2>2. QED
    BY <2>1, ForwardExhausted
<1>3. WithDegree(adj, k) \subseteq C
  BY <1>2 DEF WithDegree
<1>4. C \in SUBSET Node /\ \A x \in C : OutDegree(adj, x) >= k - 1
  OBVIOUS
<1>5. IsClosed(adj, C)
  <2> SUFFICES ASSUME NEW x \in C, NEW y \in adj[x] PROVE y \in C
    BY DEF IsClosed
  <2>1. PICK u \in WithDegree(adj, k), R \in SUBSET Node : Seen(u, R) /\ x \in R
    OBVIOUS
  <2>2. y \in Node
    BY <1>1
  <2>3. CASE y \in R
    BY <2>1, <2>2, <2>3
  <2>4. CASE OutDegree(adj, y) >= k
    <3>1. y \in WithDegree(adj, k)
      BY <1>1, <2>2, <2>4 DEF WithDegree
    <3>2. QED
      BY <1>3, <3>1
  <2>5. QED
    BY <2>1, <2>3, <2>4
<1>6. C # {}
  <2>1. PICK S \in SUBSET Node : S # {} /\ \A x \in S : OutDegree(adj, x) = k
    BY DEF HasPlateau
  <2>2. QED
    BY <1>3, <2>1 DEF WithDegree
<1> HIDE DEF C
<1>7. QED
  BY <1>3, <1>4, <1>5, <1>6 DEF HasCore, IsCore

\* A pass of the loop of find_optimal.
LEMMA TryNodeStaysInRound ==
  ASSUME IInv, InRound, NEW i \in Node, tryNode(i)
  PROVE  InRound'
<1>1. PICK k \in Int : k = max_out_degree /\ max_out_degree' = k /\ k >= 2
  BY DEF IInv, TypeOK, InRound, tryNode, counters
<1>2. max_node_count' = 0 /\ todo' = todo \ {i} /\ AtMost(m_adj, k) /\ HasPlateau(m_adj, k)
  BY <1>1 DEF InRound, tryNode, counters
<1>3. m_adj \in Digraph /\ IsOrientation(m_adj, edges)
  BY DEF IInv, TypeOK, Oriented
<1>4. /\ ForwardResults(m_adj, i) \in SUBSET ForwardPaths(m_adj, i)
      /\ ForwardResults(m_adj, i) = {} => ForwardPaths(m_adj, i) = {}
  BY <1>3, ForwardResultsFacts
<1>5. all_path_improved => \A v \in Node \ todo : OutDegree(m_adj, v) < k
  BY <1>1 DEF InRound
<1>6. ~path_improved => \A v \in WithDegree(m_adj, k) \ todo : ForwardPaths(m_adj, v) = {}
  BY <1>1 DEF InRound
<1>7. {path_improved, all_path_improved} \subseteq BOOLEAN
  BY DEF IInv, TypeOK
<1>8. CASE OutDegree(m_adj, i) = k /\ ForwardResults(m_adj, i) # {}
  <2>1. PICK p \in ForwardPaths(m_adj, i) : m_adj' = FlipPath(m_adj, p)
    BY <1>1, <1>4, <1>8 DEF tryNode, Flipped
  <2>2. path_improved' /\ (all_path_improved' => all_path_improved)
    BY <1>1, <1>8 DEF tryNode
  <2>3. /\ AtMost(m_adj', k)
        /\ \A x \in Node : OutDegree(m_adj, x) < k => OutDegree(m_adj', x) < k
        /\ OutDegree(m_adj', i) < k
    BY <1>2, <1>3, <1>8, <2>1, FlipSpends
  <2>4. HasPlateau(m_adj', k)
    BY <1>2, <1>3, <1>8, <2>1, PlateauAvoided
  <2>5. QED
    BY <1>1, <1>2, <1>5, <2>2, <2>3, <2>4 DEF InRound
<1>9. CASE OutDegree(m_adj, i) = k /\ ForwardResults(m_adj, i) = {}
  <2>1. m_adj' = m_adj /\ ~all_path_improved' /\ (path_improved' <=> path_improved)
    BY <1>1, <1>9 DEF tryNode, Flipped
  <2>2. ForwardPaths(m_adj, i) = {}
    BY <1>4, <1>9
  <2>3. QED
    BY <1>1, <1>2, <1>6, <2>1, <2>2 DEF InRound
<1>10. CASE OutDegree(m_adj, i) # k
  <2>1. UNCHANGED <<m_adj, path_improved, all_path_improved>>
    BY <1>1, <1>10 DEF tryNode
  <2>2. OutDegree(m_adj, i) < k /\ i \notin WithDegree(m_adj, k)
    <3>1. OutDegree(m_adj, i) \in Nat /\ OutDegree(m_adj, i) <= k
      BY <1>2, <1>3, DegreeType DEF AtMost
    <3>2. QED
      BY <1>10, <3>1 DEF WithDegree
  <2>3. QED
    BY <1>1, <1>2, <1>5, <1>6, <2>1, <2>2 DEF InRound
<1>11. QED
  BY <1>8, <1>9, <1>10

\* The end of a round: the plateau refutes that all nodes have been lowered, so the
\* maximum stays; when the rounds end, there is a core.
LEMMA EndRoundSettles ==
  ASSUME IInv, InRound, endRound
  PROVE  CoreInv' /\ UNCHANGED max_out_degree
<1>1. PICK k \in Int : k = max_out_degree /\ k >= 2
  BY DEF IInv, TypeOK, InRound
<1>2. todo = {} /\ UNCHANGED <<edges, m_adj, lapsed>>
  BY DEF endRound, graph
<1>3. AtMost(m_adj, k) /\ HasPlateau(m_adj, k)
  BY <1>1 DEF InRound
<1>4. PICK x \in Node : OutDegree(m_adj, x) = k
  BY <1>3 DEF HasPlateau
<1>5. ~all_path_improved
  BY <1>1, <1>2, <1>4 DEF InRound
<1>6. max_out_degree' = k
  BY <1>1, <1>5 DEF endRound
<1>7. CASE path_improved
  <2>1. /\ todo' = Node /\ path_improved' = FALSE
        /\ max_node_count' = 0 /\ pc' = "find_optimal"
    BY <1>7 DEF endRound, beginRound, InRound
  <2>2. WithDegree(m_adj, k) \ Node = {}
    BY DEF WithDegree
  <2>3. InRound'
    BY <1>1, <1>2, <1>3, <1>6, <2>1, <2>2 DEF InRound
  <2>4. QED
    BY <1>1, <1>6, <2>1, <2>3 DEF CoreInv
<1>8. CASE ~path_improved
  <2>1. pc' = "idle" /\ max_node_count' = 0 + Cardinality(WithDegree(m_adj, k))
    BY <1>6, <1>8 DEF endRound, InRound
  <2>2. Cardinality(WithDegree(m_adj, k)) \in Nat
    BY WithDegreeType
  <2>3. m_adj \in Digraph /\ IsOrientation(m_adj, edges) /\ edges \in SUBSET Edge
    BY DEF IInv, TypeOK, Oriented
  <2>4. edges # {}
    BY <1>1, <1>4, <2>3, EdgesGiveDegrees
  <2>5. \A v \in WithDegree(m_adj, k) : ForwardPaths(m_adj, v) = {}
    BY <1>1, <1>2, <1>8 DEF InRound
  <2>6. HasCore(m_adj, k)
    BY <1>3, <2>3, <2>5, RoundLeavesCore
  <2>7. IsMaxOutDegree(m_adj, k)
    BY <1>3, <1>4 DEF AtMost, IsMaxOutDegree
  <2>8. Settled(m_adj', edges', max_out_degree', max_node_count')
    BY <1>2, <1>6, <2>1, <2>2, <2>4, <2>6, <2>7 DEF Settled
  <2>9. QED
    BY <1>1, <1>6, <2>1, <2>8 DEF CoreInv
<1>9. QED
  BY <1>7, <1>8

\* A lapse is never forgotten.
LEMMA LapsedStays ==
  ASSUME lapsed, [Next]_vars
  PROVE  lapsed'
<1>1. ASSUME NEW source \in Node, NEW target \in Node, handleInsertion(source, target)
      PROVE  lapsed'
  <2>1. UNCHANGED lapsed
    BY <1>1 DEF handleInsertion, insertArc
  <2>2. QED
    BY <2>1
<1>2. ASSUME NEW source \in Node, NEW target \in Node, handleDeletion(source, target)
      PROVE  lapsed'
  <2>1. ASSUME NEW s, NEW t, deleteArc(s, t) PROVE lapsed'
    <3>1. CASE callFindOptimal
      <4>1. CASE max_out_degree' > 1
        BY <3>1, <4>1 DEF callFindOptimal
      <4>2. CASE ~(max_out_degree' > 1)
        <5>1. lapsed' = (lapsed \/ edges' # {})
          BY <3>1, <4>2 DEF callFindOptimal
        <5>2. QED
          BY <5>1
      <4>3. QED
        BY <4>1, <4>2
    <3>2. CASE UNCHANGED lapsed
      BY <3>2
    <3>3. callFindOptimal \/ UNCHANGED lapsed
      BY <2>1 DEF deleteArc
    <3>4. QED
      BY <3>1, <3>2, <3>3
  <2>2. QED
    BY <1>2, <2>1 DEF handleDeletion
<1>3. CASE find_optimal
  <2>1. UNCHANGED lapsed
    BY <1>3 DEF find_optimal, tryNode, endRound
  <2>2. QED
    BY <2>1
<1>4. CASE UNCHANGED vars
  BY <1>4 DEF vars
<1>5. QED
  BY <1>1, <1>2, <1>3, <1>4 DEF Next

\* Every step keeps the core.
LEMMA NextKeepsCore == IInv /\ CoreInv /\ [Next]_vars => CoreInv'
<1> SUFFICES ASSUME IInv, CoreInv, [Next]_vars PROVE CoreInv'
  OBVIOUS
<1>1. \A v \in Node : OutDegree(m_adj, v) \in Nat
  BY DegreeType DEF IInv, TypeOK
<1>2. lapsed \in BOOLEAN /\ lapsed' \in BOOLEAN
  BY NextKeepsOriented DEF IInv, TypeOK
<1>3. CASE lapsed
  <2>1. lapsed'
    BY <1>3, LapsedStays
  <2>2. QED
    BY <2>1 DEF CoreInv
<1>4. ASSUME ~lapsed, NEW source \in Node, NEW target \in Node,
             handleInsertion(source, target)
      PROVE  CoreInv'
  <2>1. PICK s \in Node, t \in Node :
          /\ s # t /\ {s, t} \notin edges
          /\ OutDegree(m_adj, s) <= OutDegree(m_adj, t)
          /\ insertArc(s, t)
    <3>1. {source, target} = {target, source}
      OBVIOUS
    <3>2. CASE OutDegree(m_adj, source) > OutDegree(m_adj, target)
      <4>1. OutDegree(m_adj, target) <= OutDegree(m_adj, source)
        BY <1>1, <3>2
      <4>2. QED
        BY <1>4, <3>1, <3>2, <4>1 DEF handleInsertion
    <3>3. CASE ~(OutDegree(m_adj, source) > OutDegree(m_adj, target))
      <4>1. OutDegree(m_adj, source) <= OutDegree(m_adj, target)
        BY <1>1, <3>3
      <4>2. QED
        BY <1>4, <3>3, <4>1 DEF handleInsertion
    <3>4. QED
      BY <3>2, <3>3
  <2>2. pc = "idle" /\ pc' = pc
    BY <1>4, <2>1 DEF handleInsertion, insertArc
  <2>3. Settled(m_adj', edges', max_out_degree', max_node_count')
    BY <1>4, <2>1, <2>2, InsertionSettles DEF CoreInv
  <2>4. QED
    BY <2>2, <2>3 DEF CoreInv
<1>5. ASSUME ~lapsed, NEW source \in Node, NEW target \in Node,
             handleDeletion(source, target)
      PROVE  CoreInv'
  <2>1. PICK s \in Node, t \in Node : t \in m_adj[s] /\ deleteArc(s, t)
    <3>1. CASE target \in m_adj[source]
      BY <1>5, <3>1 DEF handleDeletion
    <3>2. CASE target \notin m_adj[source]
      <4>1. source \in m_adj[target]
        BY <1>5, <3>2 DEF handleDeletion, IInv, Oriented, IsOrientation
      <4>2. QED
        BY <1>5, <3>2, <4>1 DEF handleDeletion
    <3>3. QED
      BY <3>1, <3>2
  <2>2. pc = "idle" /\ Settled(m_adj, edges, max_out_degree, max_node_count)
    BY <1>5 DEF handleDeletion, CoreInv
  <2>3. QED
    BY <2>1, <2>2, DeletionSettles
<1>6. ASSUME ~lapsed, NEW i \in Node, tryNode(i)
      PROVE  CoreInv'
  <2>1. InRound /\ pc' = "find_optimal"
    BY <1>6 DEF tryNode, CoreInv
  <2>2. InRound'
    BY <1>6, <2>1, TryNodeStaysInRound
  <2>3. QED
    BY <2>1, <2>2 DEF CoreInv
<1>7. CASE ~lapsed /\ endRound
  BY <1>7, EndRoundSettles DEF CoreInv, endRound
<1>8. CASE UNCHANGED vars
  BY <1>8 DEF vars, graph, counters, loop, CoreInv, InRound
<1>9. QED
  BY <1>2, <1>3, <1>4, <1>5, <1>6, <1>7, <1>8 DEF Next, find_optimal

(****************************************************************************)
(* The core certifies that the orientation is optimal.                      *)
(****************************************************************************)

\* All arcs of a core stay in it, so it spans an edge for each of them: at least k - 1 per
\* node, and one more for a node of out-degree k.
LEMMA CoreCertifies ==
  ASSUME NEW adj, NEW E, IsFiniteSet(E), IsOrientation(adj, E),
         NEW k \in Nat, IsMaxOutDegree(adj, k), HasCore(adj, k)
  PROVE  NeedsOutDegree(E, k)
<1> SUFFICES ASSUME k # 0 PROVE NeedsOutDegree(E, k)
  BY DEF NeedsOutDegree
<1>1. PICK C \in SUBSET Node : IsCore(adj, k, C)
  BY DEF HasCore
<1>2. PICK u \in Node : OutDegree(adj, u) = k
  BY DEF IsMaxOutDegree
<1>3. PICK l \in Nat : l = k - 1
  OBVIOUS
<1>4. adj \in Digraph /\ \A x \in Node : IsFiniteSet(adj[x]) /\ OutDegree(adj, x) \in Nat
  BY DegreeType DEF IsOrientation
<1>5. u \in C /\ IsClosed(adj, C) /\ \A x \in C : x \in Node /\ OutDegree(adj, x) >= l
  BY <1>1, <1>2, <1>3 DEF IsCore, WithDegree
<1> DEFINE need == [x \in Node |-> IF x = u THEN k ELSE l]
<1>6. need[u] = k /\ \A x \in Node \ {u} : need[x] = l
  OBVIOUS
<1> HIDE DEF need
<1>7. \A x \in C : \E h \in [1..need[x] -> adj[x]] : \A i, j \in 1..need[x] : h[i] = h[j] => i = j
  <2> SUFFICES ASSUME NEW x \in C
               PROVE  \E h \in [1..need[x] -> adj[x]] : \A i, j \in 1..need[x] : h[i] = h[j] => i = j
    OBVIOUS
  <2>1. Cardinality(adj[x]) >= need[x] /\ need[x] \in Nat
    BY <1>2, <1>5, <1>6 DEF OutDegree
  <2>2. IsFiniteSet(adj[x])
    BY <1>4, <1>5
  <2>3. QED
    BY <2>1, <2>2, Choosing
<1> DEFINE out == [x \in C |-> CHOOSE h \in [1..need[x] -> adj[x]] :
                                 \A i, j \in 1..need[x] : h[i] = h[j] => i = j]
<1>8. \A x \in C : /\ out[x] \in [1..need[x] -> adj[x]]
                   /\ \A i, j \in 1..need[x] : out[x][i] = out[x][j] => i = j
  BY <1>7
<1> HIDE DEF out
<1> DEFINE T == C \X (1..l)
           extra == <<u, k>>
           Dom == T \cup {extra}
           f == [d \in Dom |-> {d[1], out[d[1]][d[2]]}]
<1>9. \A d \in Dom : d[1] \in C /\ d[2] \in 1..need[d[1]] /\ d = <<d[1], d[2]>>
  <2> SUFFICES ASSUME NEW d \in Dom PROVE d[1] \in C /\ d[2] \in 1..need[d[1]] /\ d = <<d[1], d[2]>>
    OBVIOUS
  <2>1. CASE d = extra
    BY <1>5, <1>6, <2>1
  <2>2. CASE d \in T
    <3>1. d[1] \in C /\ d[2] \in 1..l /\ d = <<d[1], d[2]>>
      BY <2>2
    <3>2. need[d[1]] = l \/ need[d[1]] = k
      BY <1>5, <1>6, <3>1
    <3>3. d[2] \in 1..need[d[1]]
      BY <1>3, <3>1, <3>2
    <3>4. QED
      BY <3>1, <3>3
  <2>3. QED
    BY <2>1, <2>2
<1> HIDE DEF Dom
<1>10. \A d \in Dom : /\ out[d[1]][d[2]] \in adj[d[1]]
                      /\ d[1] \in Node /\ out[d[1]][d[2]] \in Node
                      /\ {d[1], out[d[1]][d[2]]} \in Spanned(E, C)
  <2> SUFFICES ASSUME NEW d \in Dom
               PROVE  /\ out[d[1]][d[2]] \in adj[d[1]]
                      /\ d[1] \in Node /\ out[d[1]][d[2]] \in Node
                      /\ {d[1], out[d[1]][d[2]]} \in Spanned(E, C)
    OBVIOUS
  <2>1. d[1] \in C /\ d[2] \in 1..need[d[1]]
    BY <1>9
  <2>2. out[d[1]][d[2]] \in adj[d[1]]
    BY <1>8, <2>1
  <2>3. out[d[1]][d[2]] \in C
    BY <1>5, <2>1, <2>2 DEF IsClosed
  <2>4. d[1] \in Node /\ out[d[1]][d[2]] \in Node
    BY <1>5, <2>1, <2>3
  <2>5. {d[1], out[d[1]][d[2]]} \in E
    BY <2>2, <2>4 DEF IsOrientation
  <2>6. QED
    BY <2>1, <2>2, <2>3, <2>4, <2>5 DEF Spanned
<1>11. f \in [Dom -> Spanned(E, C)]
  BY <1>10
<1>12. ASSUME NEW d \in Dom, NEW e \in Dom, f[d] = f[e] PROVE d = e
  <2>1. {d[1], out[d[1]][d[2]]} = {e[1], out[e[1]][e[2]]}
    BY <1>12
  <2>2. /\ out[d[1]][d[2]] \in adj[d[1]] /\ out[e[1]][e[2]] \in adj[e[1]]
        /\ d[1] \in Node /\ e[1] \in Node
        /\ out[d[1]][d[2]] \in Node /\ out[e[1]][e[2]] \in Node
    BY <1>10
  <2>3. d[1] = e[1] /\ out[d[1]][d[2]] = out[e[1]][e[2]]
    <3>1. d[1] \notin adj[out[d[1]][d[2]]]
      BY <2>2 DEF IsOrientation
    <3>2. QED
      BY <2>1, <2>2, <3>1
  <2>4. d[2] = e[2]
    BY <1>8, <1>9, <2>3
  <2>5. QED
    BY <1>9, <2>3, <2>4
<1>13. IsFiniteSet(T) /\ Cardinality(T) = Cardinality(C) * l
  <2>1. IsFiniteSet(1..l) /\ Cardinality(1..l) = l
    BY <1>3, FS_Interval
  <2>2. IsFiniteSet(C)
    BY NodeAssumption, FS_Subset
  <2>3. QED
    BY <2>1, <2>2, FS_Product
<1>14. extra \notin T
  BY <1>3
<1>15. Cardinality(Dom) = Cardinality(T) + 1
  BY <1>13, <1>14, FS_AddElement DEF Dom
<1>16. IsFiniteSet(Spanned(E, C))
  BY FS_Subset DEF Spanned
<1>17. f \in Injection(Dom, Spanned(E, C))
  <2> HIDE DEF f
  <2>1. QED
    BY <1>11, <1>12 DEF Injection, IsInjective
<1>18. Cardinality(Dom) <= Cardinality(Spanned(E, C))
  <2> HIDE DEF f
  <2>1. QED
    BY <1>16, <1>17, FS_Injection
<1>19. Cardinality(Spanned(E, C)) > (k - 1) * Cardinality(C)
  <2>1. PICK c \in Nat, n \in Nat : c = Cardinality(C) /\ n = Cardinality(Spanned(E, C))
    BY <1>1, <1>16, NodeAssumption, FS_Subset, FS_CardinalityType DEF IsCore
  <2>2. c * l + 1 <= n
    BY <1>13, <1>15, <1>18, <2>1
  <2>3. (k - 1) * c = c * l /\ c * l \in Nat
    BY <1>3, <2>1
  <2>4. QED
    BY <2>1, <2>2, <2>3
<1>20. QED
  BY <1>1, <1>19 DEF NeedsOutDegree, IsCore

(****************************************************************************)
(* Theorems.                                                                *)
(****************************************************************************)

LEMMA Invariance == Spec => [](IInv /\ CoreInv)
<1>1. IInv /\ CoreInv /\ [Next]_vars => IInv' /\ CoreInv'
  BY NextKeepsOriented, NextKeepsCore
<1>2. QED
  BY <1>1, InitOriented, InitSettled, PTL DEF Spec

\* The counters of handleInsertion, handleDeletion and find_optimal are what a recount of
\* the lists would give, until find_optimal has been skipped with edges left.
THEOREM CountersAlwaysExact == Spec => []CountersExact
<1>1. CoreInv => CountersExact
  BY DEF CoreInv, Settled, CountersExact
<1>2. QED
  BY <1>1, Invariance, PTL

\* No node of maximum out-degree has an improving path although most updates search
\* nothing: all that it reaches lies in the core.
THEOREM NeverImprovingMaxPath == Spec => []NoImprovingMaxPath
<1>1. IInv /\ CoreInv => NoImprovingMaxPath
  <2> SUFFICES ASSUME IInv, CoreInv, pc = "idle", ~lapsed,
                      NEW u \in WithDegree(m_adj, max_out_degree),
                      NEW v \in Reachable(m_adj, u)
               PROVE  max_out_degree <= OutDegree(m_adj, v) + 1
    BY DEF NoImprovingMaxPath
  <2>1. PICK C \in SUBSET Node : IsCore(m_adj, max_out_degree, C)
    BY DEF CoreInv, Settled, HasCore
  <2>2. u \in Node /\ u \in C /\ v \in Node
    BY <2>1 DEF IsCore, WithDegree, Reachable
  <2>3. v \in C
    BY <2>1, <2>2, ReachableInClosed DEF IsCore
  <2>4. OutDegree(m_adj, v) >= max_out_degree - 1
    BY <2>1, <2>3 DEF IsCore
  <2>5. OutDegree(m_adj, v) \in Nat /\ max_out_degree \in Int
    BY <2>2, DegreeType DEF IInv, TypeOK
  <2>6. QED
    BY <2>4, <2>5
<1>2. QED
  BY <1>1, Invariance, PTL

\* Graphs are finite.
LEMMA FiniteGraph == ASSUME NEW E \in SUBSET Edge PROVE IsFiniteSet(E)
<1>1. IsFiniteSet(SUBSET Node)
  BY NodeAssumption, FS_SUBSET
<1>2. E \subseteq SUBSET Node
  BY DEF Edge
<1>3. QED
  BY <1>1, <1>2, FS_Subset

\* Until find_optimal has been skipped with edges left, the maximum out-degree between two
\* handlers is one that the graph needs.
THEOREM CertifiedUntilLapse == Spec => []OptimalUntilLapse
<1>1. IInv /\ CoreInv => OptimalUntilLapse
  <2> SUFFICES ASSUME IInv, CoreInv, pc = "idle", ~lapsed,
                      NEW k \in 0..Cardinality(Node), IsMaxOutDegree(m_adj, k)
               PROVE  NeedsOutDegree(edges, k)
    BY DEF OptimalUntilLapse, IsCertifiedOptimal
  <2>1. k \in Nat
    BY NodeAssumption, FS_CardinalityType
  <2>2. IsMaxOutDegree(m_adj, max_out_degree) /\ HasCore(m_adj, max_out_degree)
    BY DEF CoreInv, Settled
  <2>3. k = max_out_degree
    <3>1. PICK x \in Node, y \in Node :
            /\ OutDegree(m_adj, x) = k /\ OutDegree(m_adj, y) = max_out_degree
      BY <2>2 DEF IsMaxOutDegree
    <3>2. k <= max_out_degree /\ max_out_degree <= k
      BY <2>2, <3>1 DEF IsMaxOutDegree
    <3>3. max_out_degree \in Int
      BY DEF IInv, TypeOK
    <3>4. QED
      BY <2>1, <3>2, <3>3
  <2>4. IsFiniteSet(edges) /\ IsOrientation(m_adj, edges)
    BY FiniteGraph DEF IInv, TypeOK, Oriented
  <2>5. QED
    BY <2>1, <2>2, <2>3, <2>4, CoreCertifies
<1>2. QED
  BY <1>1, Invariance, PTL

\* ... so that no other orientation of the graph has a smaller one, as README.md says of
\* the exact algorithms.
THEOREM StaysOptimalUntilLapse ==
  Spec => [](pc = "idle" /\ ~lapsed => IsOptimal(m_adj, edges))
<1>1. OptimalUntilLapse /\ IInv => (pc = "idle" /\ ~lapsed => IsOptimal(m_adj, edges))
  BY FiniteGraph, CertifiedIsOptimal DEF OptimalUntilLapse, IInv, TypeOK
<1>2. QED
  BY <1>1, CertifiedUntilLapse, Invariance, PTL

\* Inside find_optimal no flip raises a node above the lowered maximum or back to it.
THEOREM RoundsBounded == Spec => []RoundBound
<1>1. CoreInv => RoundBound
  BY DEF CoreInv, InRound, AtMost, RoundBound
<1>2. QED
  BY <1>1, Invariance, PTL

\* find_optimal lowers the maximum once, before its first round.
THEOREM MaximumLoweredOnce == Spec => LoweredOnce
<1>1. IInv /\ CoreInv /\ [Next]_vars => [find_optimal /\ ~lapsed => UNCHANGED max_out_degree]_vars
  <2> SUFFICES ASSUME IInv, CoreInv, find_optimal, ~lapsed
               PROVE  UNCHANGED max_out_degree
    OBVIOUS
  <2>1. ASSUME NEW i \in Node, tryNode(i) PROVE UNCHANGED max_out_degree
    BY <2>1 DEF tryNode, counters
  <2>2. CASE endRound
    <3>1. InRound
      BY <2>2 DEF endRound, CoreInv
    <3>2. QED
      BY <2>2, <3>1, EndRoundSettles
  <2>3. QED
    BY <2>1, <2>2 DEF find_optimal
<1>2. QED
  BY <1>1, Invariance, PTL DEF Spec, LoweredOnce

\* Every successful search of find_optimal uses up a node of maximum out-degree, also
\* after a lapse; with finitely many of them the rounds end.
THEOREM FlipsSpendMaxNodes == Spec => FlipSpendsMaxNode
<1> DEFINE Spends == \E i \in WithDegree(m_adj, max_out_degree) :
             WithDegree(m_adj', max_out_degree) = WithDegree(m_adj, max_out_degree) \ {i}
<1>1. ASSUME IInv, find_optimal, m_adj' # m_adj PROVE Spends
  <2>1. PICK i \in Node : tryNode(i)
    BY <1>1 DEF find_optimal, endRound, graph
  <2>2. m_adj \in Digraph /\ IsOrientation(m_adj, edges) /\ max_out_degree \in Int
    BY <1>1 DEF IInv, TypeOK, Oriented
  <2>3. OutDegree(m_adj, i) = max_out_degree /\ m_adj' \in Flipped(m_adj, ForwardResults(m_adj, i))
    BY <1>1, <2>1 DEF tryNode
  <2>4. PICK p \in ForwardPaths(m_adj, i) : m_adj' = FlipPath(m_adj, p)
    BY <1>1, <2>2, <2>3, ForwardResultsFacts DEF Flipped
  <2>5. WithDegree(m_adj', max_out_degree) = WithDegree(m_adj, max_out_degree) \ {i}
    BY <2>2, <2>3, <2>4, FlipSpends
  <2>6. QED
    BY <2>3, <2>5 DEF WithDegree
<1>2. IInv /\ [Next]_vars => [find_optimal /\ m_adj' # m_adj => Spends]_vars
  BY <1>1
<1> HIDE DEF Spends
<1>3. Spec => [][find_optimal /\ m_adj' # m_adj => Spends]_vars
  BY <1>2, Invariance, PTL DEF Spec
<1>4. QED
  BY <1>3 DEF FlipSpendsMaxNode, Spends
=============================================================================
