--------------------------- MODULE StrongOptProofs ---------------------------
(****************************************************************************)
(* Theorems about module StrongOpt, for every finite set of nodes.          *)
(****************************************************************************)
EXTENDS StrongOpt, OrientationsProofs

(****************************************************************************)
(* Type correctness and the graph.                                          *)
(****************************************************************************)

\* A call of handleInsertion adds an arc for the new edge, from the end point of
\* smaller out-degree, and then searches from there.
LEMMA InsertionAddsArc ==
  ASSUME TypeOK, NEW source \in Node, NEW target \in Node, handleInsertion(source, target)
  PROVE  \E s, t \in Node :
           /\ s # t /\ {s, t} \notin edges
           /\ OutDegree(m_adj, s) <= OutDegree(m_adj, t)
           /\ edges' = edges \cup {{s, t}}
           /\ m_adj' \in bfs_forward(WithArc(m_adj, s, t), s)
<1>1. \A v \in Node : OutDegree(m_adj, v) \in Nat
  BY DegreeType DEF TypeOK
<1>2. {source, target} = {target, source}
  OBVIOUS
<1>3. CASE OutDegree(m_adj, source) > OutDegree(m_adj, target)
  <2>1. insertArc(target, source)
    BY <1>3 DEF handleInsertion
  <2>2. OutDegree(m_adj, target) <= OutDegree(m_adj, source)
    BY <1>1, <1>3
  <2>3. QED
    BY <1>2, <2>1, <2>2 DEF handleInsertion, insertArc, WithArc
<1>4. CASE ~(OutDegree(m_adj, source) > OutDegree(m_adj, target))
  <2>1. insertArc(source, target)
    BY <1>4 DEF handleInsertion
  <2>2. OutDegree(m_adj, source) <= OutDegree(m_adj, target)
    BY <1>1, <1>4
  <2>3. QED
    BY <2>1, <2>2 DEF handleInsertion, insertArc, WithArc
<1>5. QED
  BY <1>3, <1>4

\* A call of handleDeletion takes the arc of the edge from its tail, and then
\* searches from there.
LEMMA DeletionTakesArc ==
  ASSUME Oriented, NEW source \in Node, NEW target \in Node, handleDeletion(source, target)
  PROVE  \E s, t \in Node :
           /\ t \in m_adj[s]
           /\ edges' = edges \ {{s, t}}
           /\ m_adj' \in bfs_backward(WithoutArc(m_adj, s, t), s)
<1>1. {source, target} = {target, source}
  OBVIOUS
<1>2. CASE target \in m_adj[source]
  BY <1>2 DEF handleDeletion, deleteArc, WithoutArc
<1>3. CASE target \notin m_adj[source]
  <2>1. source \in m_adj[target]
    BY <1>3 DEF handleDeletion, Oriented, IsOrientation
  <2>2. QED
    BY <1>1, <1>3, <2>1 DEF handleDeletion, deleteArc, WithoutArc
<1>4. QED
  BY <1>2, <1>3

\* handleInsertion leaves an orientation of the graph with the new edge.
LEMMA InsertionKeepsOriented ==
  ASSUME TypeOK, Oriented, NEW source \in Node, NEW target \in Node,
         handleInsertion(source, target)
  PROVE  TypeOK' /\ Oriented'
<1>1. PICK s, t \in Node :
        /\ s # t /\ {s, t} \notin edges
        /\ edges' = edges \cup {{s, t}}
        /\ m_adj' \in bfs_forward(WithArc(m_adj, s, t), s)
  BY InsertionAddsArc
<1>2. IsOrientation(WithArc(m_adj, s, t), edges \cup {{s, t}})
  BY <1>1, WithArcFacts DEF Oriented
<1>3. IsOrientation(m_adj', edges')
  BY <1>1, <1>2, bfs_forwardKeepsOrientation
<1>4. {s, t} \in Edge
  BY <1>1 DEF Edge
<1>5. QED
  BY <1>1, <1>3, <1>4 DEF TypeOK, Oriented, IsOrientation

\* handleDeletion leaves an orientation of the graph without the edge.
LEMMA DeletionKeepsOriented ==
  ASSUME TypeOK, Oriented, NEW source \in Node, NEW target \in Node,
         handleDeletion(source, target)
  PROVE  TypeOK' /\ Oriented'
<1>1. PICK s, t \in Node :
        /\ t \in m_adj[s]
        /\ edges' = edges \ {{s, t}}
        /\ m_adj' \in bfs_backward(WithoutArc(m_adj, s, t), s)
  BY DeletionTakesArc
<1>2. IsOrientation(WithoutArc(m_adj, s, t), edges \ {{s, t}})
  BY <1>1, WithoutArcFacts DEF Oriented
<1>3. IsOrientation(m_adj', edges')
  BY <1>1, <1>2, bfs_backwardKeepsOrientation
<1>4. QED
  BY <1>1, <1>3 DEF TypeOK, Oriented, IsOrientation

\* The empty lists orient the empty graph.
LEMMA InitOriented == Init => TypeOK /\ Oriented
BY DEF Init, TypeOK, Oriented, IsOrientation, NoArcs, Digraph

\* The lists always hold one orientation of the graph that the edge sequence
\* describes (handleInsertion, handleDeletion and the two searches).
THEOREM StaysOriented == Spec => [](TypeOK /\ Oriented)
<1>1. Init => TypeOK /\ Oriented
  BY InitOriented
<1>2. TypeOK /\ Oriented /\ [Next]_vars => (TypeOK /\ Oriented)'
  <2> SUFFICES ASSUME TypeOK, Oriented, [Next]_vars PROVE TypeOK' /\ Oriented'
    OBVIOUS
  <2>1. ASSUME NEW source \in Node, NEW target \in Node, handleInsertion(source, target)
        PROVE  TypeOK' /\ Oriented'
    BY <2>1, InsertionKeepsOriented
  <2>2. ASSUME NEW source \in Node, NEW target \in Node, handleDeletion(source, target)
        PROVE  TypeOK' /\ Oriented'
    BY <2>2, DeletionKeepsOriented
  <2>3. CASE UNCHANGED vars
    BY <2>3 DEF vars, TypeOK, Oriented
  <2>4. QED
    BY <2>1, <2>2, <2>3 DEF Next
<1>3. QED
  BY <1>1, <1>2, PTL DEF Spec

(****************************************************************************)
(* No improving path is left.                                               *)
(****************************************************************************)

NoGap(adj) ==
  \A u \in Node : \A v \in Reachable(adj, u) : OutDegree(adj, u) <= OutDegree(adj, v) + 1

\* A node has no improving path when some closed set around it holds no node that
\* is two or more below it.
IsShield(adj, u, C) ==
  u \in C /\ IsClosed(adj, C) /\ \A x \in C : OutDegree(adj, u) <= OutDegree(adj, x) + 1

\* Shields around all nodes exclude every improving path.
LEMMA ShieldsSuffice ==
  ASSUME NEW adj, \A u \in Node : \E C \in SUBSET Node : IsShield(adj, u, C)
  PROVE  NoGap(adj)
<1> SUFFICES ASSUME NEW u \in Node, NEW v \in Reachable(adj, u)
             PROVE  OutDegree(adj, u) <= OutDegree(adj, v) + 1
  BY DEF NoGap
<1>1. PICK C \in SUBSET Node : IsShield(adj, u, C)
  OBVIOUS
<1>2. v \in C
  BY <1>1, ReachableInClosed DEF IsShield
<1>3. QED
  BY <1>1, <1>2 DEF IsShield

\* Fewer arcs reach less.
LEMMA ReachableMonotone ==
  ASSUME NEW adj1 \in Digraph, NEW adj \in Digraph, \A x \in Node : adj1[x] \subseteq adj[x],
         NEW u \in Node
  PROVE  Reachable(adj1, u) \subseteq Reachable(adj, u)
<1>1. IsClosed(adj1, Reachable(adj, u))
  <2>1. IsClosed(adj, Reachable(adj, u)) /\ Reachable(adj, u) \subseteq Node
    BY ReachableClosed, ReachableSubset
  <2>2. QED
    BY <2>1 DEF IsClosed
<1>2. QED
  BY <1>1, ReachableReflexive, ReachableSubset, ReachableInClosed

(****************************************************************************)
(* Insertion.  D is the out-degree of s before the arc s -> t is added.     *)
(****************************************************************************)

\* The search finds no path.
LEMMA InsertionWithoutPath ==
  ASSUME NEW adj, NEW E, IsOrientation(adj, E), NoGap(adj),
         NEW s \in Node, NEW t \in Node, s # t, {s, t} \notin E,
         ForwardPaths(WithArc(adj, s, t), s) = {}
  PROVE  NoGap(WithArc(adj, s, t))
<1> DEFINE D == OutDegree(adj, s)
<1>1. PICK adj1 : adj1 = WithArc(adj, s, t)
  OBVIOUS
<1>2. IsOrientation(adj1, E \cup {{s, t}})
  BY <1>1, WithArcFacts
<1>3. adj \in Digraph /\ adj1 \in Digraph
  BY <1>2 DEF IsOrientation
<1>4. OutDegree(adj1, s) = D + 1 /\ \A x \in Node \ {s} : OutDegree(adj1, x) = OutDegree(adj, x)
  <2>1. OutDegree(adj1, s) = D + 1
    BY <1>1, WithArcFacts
  <2>2. ASSUME NEW x \in Node, x # s PROVE OutDegree(adj1, x) = OutDegree(adj, x)
    BY <1>1, <1>3, <2>2, WithArcOthers
  <2>3. QED
    BY <1>1, <2>1, <2>2
<1>5. \A x \in Node : OutDegree(adj, x) \in Nat
  BY <1>3, DegreeType
<1>6. \A x \in Node : \A y : y \in adj1[x] <=> y \in adj[x] \/ (x = s /\ y = t)
  BY <1>1, <1>3, WithArcMembers
<1>7. PICK R \in SUBSET Node :
        /\ s \in R
        /\ \A x \in R : OutDegree(adj1, x) >= D
        /\ \A x \in R : \A y \in adj1[x] : y \in R \/ OutDegree(adj1, y) >= D + 1
  <2>1. PICK R \in SUBSET Node :
          /\ s \in R
          /\ \A x \in R : OutDegree(adj1, x) >= OutDegree(adj1, s) - 1
          /\ \A x \in R : \A y \in adj1[x] : y \in R \/ OutDegree(adj1, y) >= OutDegree(adj1, s)
    BY <1>1, <1>3, ForwardExhausted
  <2>2. OutDegree(adj1, s) = D + 1 /\ OutDegree(adj1, s) - 1 = D
    BY <1>4, <1>5
  <2>3. QED
    BY <2>1, <2>2
<1> DEFINE Above == {x \in Node : \E y \in Node : OutDegree(adj, y) >= D + 1 /\ x \in Reachable(adj, y)}
           C == R \cup Above
<1>8. \A x \in Above : \A y \in adj[x] : y \in Above
  BY <1>3, ReachableClosed DEF IsClosed, Digraph
<1>9. IsClosed(adj1, C)
  <2> SUFFICES ASSUME NEW x \in C, NEW y \in adj1[x] PROVE y \in C
    BY DEF IsClosed
  <2>1. x \in Node /\ y \in Node
    BY <1>3 DEF Digraph
  <2>2. CASE x \in R
    <3>1. CASE y \in R
      BY <3>1
    <3>2. CASE y \notin R
      <4>1. y # s /\ OutDegree(adj1, y) >= D + 1
        BY <1>7, <2>2, <3>2
      <4>2. OutDegree(adj, y) >= D + 1
        BY <1>4, <2>1, <4>1
      <4>3. y \in Above
        BY <2>1, <4>2, ReachableReflexive
      <4>4. QED
        BY <4>3
    <3>3. QED
      BY <3>1, <3>2
  <2>3. CASE x \notin R
    <3>1. x \in Above /\ x # s
      BY <1>7, <2>3
    <3>2. y \in adj[x]
      BY <1>6, <2>1, <3>1
    <3>3. QED
      BY <1>8, <3>1, <3>2
  <2>4. QED
    BY <2>2, <2>3
<1>10. \A x \in C : OutDegree(adj1, x) >= D
  <2> SUFFICES ASSUME NEW x \in Above PROVE OutDegree(adj1, x) >= D
    BY <1>7
  <2>1. PICK y \in Node : OutDegree(adj, y) >= D + 1 /\ x \in Reachable(adj, y)
    OBVIOUS
  <2>2. OutDegree(adj, y) <= OutDegree(adj, x) + 1
    BY <2>1 DEF NoGap
  <2>3. OutDegree(adj, x) >= D /\ OutDegree(adj, x) \in Nat /\ D \in Nat
    BY <1>5, <2>1, <2>2
  <2>4. OutDegree(adj1, x) = OutDegree(adj, x) \/ OutDegree(adj1, x) = D + 1
    BY <1>4
  <2>5. QED
    BY <2>3, <2>4
<1>11. \A x \in Node : OutDegree(adj1, x) >= OutDegree(adj, x)
  BY <1>4, <1>5
<1>12. C \in SUBSET Node /\ s \in C
  BY <1>7
<1> HIDE DEF C
<1>13. ASSUME NEW u \in Node PROVE \E S \in SUBSET Node : IsShield(adj1, u, S)
  <2> DEFINE U == Reachable(adj, u)
  <2>1. U \in SUBSET Node /\ u \in U /\ IsClosed(adj, U)
    BY <1>3, ReachableSubset, ReachableReflexive, ReachableClosed
  <2>2. \A x \in U : OutDegree(adj, u) <= OutDegree(adj, x) + 1
    BY DEF NoGap
  <2> HIDE DEF U
  <2>3. CASE u = s
    <3>1. \A x \in C : OutDegree(adj1, u) <= OutDegree(adj1, x) + 1
      <4> SUFFICES ASSUME NEW x \in C PROVE OutDegree(adj1, u) <= OutDegree(adj1, x) + 1
        OBVIOUS
      <4>1. OutDegree(adj1, x) >= D /\ D \in Nat /\ OutDegree(adj1, u) = D + 1
        BY <1>4, <1>5, <1>10, <2>3
      <4>2. OutDegree(adj1, x) \in Nat
        BY <1>3, <1>12, DegreeType
      <4>3. QED
        BY <4>1, <4>2
    <3>2. IsShield(adj1, u, C)
      BY <1>9, <1>12, <2>3, <3>1 DEF IsShield
    <3>3. QED
      BY <1>12, <3>2
  <2>4. CASE u # s /\ s \notin U
    <3>1. IsClosed(adj1, U)
      BY <1>6, <2>1, <2>4 DEF IsClosed
    <3>2. \A x \in U : OutDegree(adj1, u) <= OutDegree(adj1, x) + 1
      BY <1>4, <2>1, <2>2, <2>4
    <3>3. IsShield(adj1, u, U)
      BY <2>1, <3>1, <3>2 DEF IsShield
    <3>4. QED
      BY <2>1, <3>3
  <2>5. CASE u # s /\ s \in U
    <3>1. OutDegree(adj1, u) = OutDegree(adj, u) /\ OutDegree(adj, u) <= D + 1
      BY <1>4, <2>2, <2>5
    <3>2. IsClosed(adj1, U \cup C)
      <4> SUFFICES ASSUME NEW x \in U \cup C, NEW y \in adj1[x] PROVE y \in U \cup C
        BY DEF IsClosed
      <4>1. CASE x \in C
        BY <1>9, <4>1 DEF IsClosed
      <4>2. CASE x \notin C
        <5>1. x \in U /\ x # s /\ x \in Node
          BY <1>12, <2>1, <4>2
        <5>2. y \in adj[x]
          BY <1>6, <5>1
        <5>3. QED
          BY <2>1, <5>1, <5>2 DEF IsClosed
      <4>3. QED
        BY <4>1, <4>2
    <3>3. \A x \in U \cup C : OutDegree(adj1, u) <= OutDegree(adj1, x) + 1
      <4> SUFFICES ASSUME NEW x \in U \cup C PROVE OutDegree(adj1, u) <= OutDegree(adj1, x) + 1
        OBVIOUS
      <4>1. x \in Node
        BY <1>12, <2>1
      <4>2. OutDegree(adj, x) \in Nat /\ OutDegree(adj1, x) \in Nat /\ D \in Nat /\ OutDegree(adj, u) \in Nat
        BY <1>3, <1>5, <4>1, DegreeType
      <4>3. OutDegree(adj1, x) >= D \/ OutDegree(adj, u) <= OutDegree(adj, x) + 1
        BY <1>10, <2>2
      <4>4. OutDegree(adj1, x) >= OutDegree(adj, x)
        BY <1>11, <4>1
      <4>5. QED
        BY <3>1, <4>2, <4>3, <4>4
    <3>4. IsShield(adj1, u, U \cup C)
      BY <2>1, <3>2, <3>3 DEF IsShield
    <3>5. QED
      BY <1>12, <2>1, <3>4
  <2>6. QED
    BY <2>3, <2>4, <2>5
<1>14. QED
  BY <1>1, <1>13, ShieldsSuffice

\* The search flips a path.
LEMMA InsertionWithPath ==
  ASSUME NEW adj, NEW E, IsOrientation(adj, E), NoGap(adj),
         NEW s \in Node, NEW t \in Node, s # t, {s, t} \notin E,
         OutDegree(adj, s) <= OutDegree(adj, t),
         NEW p \in ForwardPaths(WithArc(adj, s, t), s)
  PROVE  NoGap(FlipPath(WithArc(adj, s, t), p))
<1> DEFINE D == OutDegree(adj, s)
<1>1. PICK adj1 : adj1 = WithArc(adj, s, t)
  OBVIOUS
<1>2. IsOrientation(adj1, E \cup {{s, t}})
  BY <1>1, WithArcFacts
<1>3. adj \in Digraph /\ adj1 \in Digraph
  BY <1>2 DEF IsOrientation
<1>4. OutDegree(adj1, s) = D + 1 /\ \A x \in Node \ {s} : OutDegree(adj1, x) = OutDegree(adj, x)
  <2>1. OutDegree(adj1, s) = D + 1
    BY <1>1, WithArcFacts
  <2>2. ASSUME NEW x \in Node, x # s PROVE OutDegree(adj1, x) = OutDegree(adj, x)
    BY <1>1, <1>3, <2>2, WithArcOthers
  <2>3. QED
    BY <1>1, <2>1, <2>2
<1>5. \A x \in Node : OutDegree(adj, x) \in Nat
  BY <1>3, DegreeType
<1>6. \A x \in Node : \A y : y \in adj1[x] <=> y \in adj[x] \/ (x = s /\ y = t)
  BY <1>1, <1>3, WithArcMembers
<1>7. PICK n \in Nat : n = Len(p)
  BY <1>1, <1>3, ForwardPathFacts DEF IsSearchPath
<1>8. /\ p \in Seq(Node) /\ n >= 2 /\ IsPath(adj1, p) /\ Simple(p)
      /\ p[1] = s
      /\ \A i \in 2..n - 1 : OutDegree(adj1, p[i]) = D
      /\ OutDegree(adj1, p[n]) < D
  <2>1. OutDegree(adj1, s) - 1 = D
    BY <1>4, <1>5
  <2>2. IsSearchPath(adj1, p, D) /\ p[1] = s /\ OutDegree(adj1, p[n]) < D
    BY <1>1, <1>3, <1>7, <2>1, ForwardPathFacts
  <2>3. QED
    BY <1>7, <2>2 DEF IsSearchPath
<1>9. \A i \in 1..n : p[i] \in Node
  BY <1>7, <1>8
<1>10. \A i, j \in 1..n : p[i] = p[j] => i = j
  BY <1>7, <1>8 DEF Simple
<1>11. \A i \in 1..n - 1 : p[i + 1] \in adj1[p[i]]
  BY <1>7, <1>8 DEF IsPath
<1>12. PICK w \in Node : w = p[n]
  BY <1>8, <1>9
<1>13. \A i \in 2..n : p[i] # s /\ i \in 1..n
  BY <1>8, <1>10
<1>14. \A i \in 2..n : \A k \in i..n : p[k] \in Reachable(adj, p[i])
  <2> SUFFICES ASSUME NEW i \in 2..n, NEW k \in i..n PROVE p[k] \in Reachable(adj, p[i])
    OBVIOUS
  <2>1. \A j \in i..k - 1 : p[j + 1] \in adj[p[j]]
    <3> SUFFICES ASSUME NEW j \in i..k - 1 PROVE p[j + 1] \in adj[p[j]]
      OBVIOUS
    <3>1. j \in 2..n /\ j \in 1..n - 1
      BY <1>7
    <3>2. p[j + 1] \in adj1[p[j]] /\ p[j] # s /\ p[j] \in Node
      BY <1>9, <1>11, <1>13, <3>1
    <3>3. QED
      BY <1>6, <3>2
  <2>2. i \in 1..Len(p) /\ k \in i..Len(p)
    BY <1>7
  <2>3. QED
    BY <1>3, <1>8, <2>1, <2>2, PathReaches
<1>15. w # s /\ w \in Reachable(adj, p[2]) /\ p[2] # s /\ p[2] \in Node
  <2>1. 2 \in 2..n /\ n \in 2..n /\ 2 \in 1..n
    BY <1>7, <1>8
  <2>2. QED
    BY <1>9, <1>12, <1>13, <1>14, <2>1
<1>16. p[2] \in adj[s] \/ p[2] = t
  <2>1. 1 \in 1..n - 1 /\ 1 + 1 = 2
    BY <1>8
  <2>2. p[2] \in adj1[s]
    BY <1>8, <1>11, <2>1
  <2>3. QED
    BY <1>6, <2>2
<1>17. OutDegree(adj, w) = D - 1
  <2>1. OutDegree(adj, w) < D
    BY <1>4, <1>8, <1>12, <1>15
  <2>2. OutDegree(adj, w) >= D - 1
    <3>1. CASE n = 2
      <4>1. p[2] = w
        BY <1>12, <3>1
      <4>2. w \in adj[s]
        BY <1>5, <1>16, <2>1, <4>1
      <4>3. D <= OutDegree(adj, w) + 1
        BY <1>3, <4>2, ReachableStep DEF NoGap
      <4>4. QED
        BY <1>5, <4>3
    <3>2. CASE n # 2
      <4>1. 2 \in 2..n - 1
        BY <1>7, <1>8, <3>2
      <4>2. OutDegree(adj1, p[2]) = D
        BY <1>8, <4>1
      <4>3. OutDegree(adj, p[2]) = D
        BY <1>4, <1>15, <4>2
      <4>4. D <= OutDegree(adj, w) + 1
        BY <1>15, <4>3 DEF NoGap
      <4>5. QED
        BY <1>5, <4>4
    <3>3. QED
      BY <3>1, <3>2
  <2>3. QED
    BY <1>5, <2>1, <2>2
<1>18. PICK adj2 : adj2 = FlipPath(adj1, p)
  OBVIOUS
<1>19. adj2 \in Digraph
  <2>1. IsOrientation(adj2, E \cup {{s, t}})
    BY <1>2, <1>8, <1>18, FlipKeepsOrientation
  <2>2. QED
    BY <2>1 DEF IsOrientation
<1>20. \A i \in 1..n : OutDegree(adj2, p[i]) = D
  <2> SUFFICES ASSUME NEW i \in 1..n PROVE OutDegree(adj2, p[i]) = D
    OBVIOUS
  <2>1. Len(p) >= 2
    BY <1>7, <1>8
  <2>2. /\ p[i] = p[1] => OutDegree(adj2, p[i]) = OutDegree(adj1, p[i]) - 1
        /\ p[i] = p[Len(p)] => OutDegree(adj2, p[i]) = OutDegree(adj1, p[i]) + 1
        /\ p[i] # p[1] /\ p[i] # p[Len(p)] => OutDegree(adj2, p[i]) = OutDegree(adj1, p[i])
    BY <1>2, <1>8, <1>9, <1>18, <2>1, FlipDegrees
  <2>3. CASE i = 1
    BY <1>4, <1>5, <1>8, <2>2, <2>3
  <2>4. CASE i = n
    <3>1. OutDegree(adj2, w) = OutDegree(adj1, w) + 1
      BY <1>7, <1>12, <2>2, <2>4
    <3>2. OutDegree(adj1, w) = D - 1
      BY <1>4, <1>15, <1>17
    <3>3. QED
      BY <1>5, <1>12, <2>4, <3>1, <3>2
  <2>5. CASE i \in 2..n - 1
    <3>1. i # 1 /\ i # n /\ 1 \in 1..n /\ n \in 1..n
      BY <1>8, <2>5
    <3>2. p[i] # p[1] /\ p[i] # p[n]
      BY <1>10, <3>1
    <3>3. QED
      BY <1>7, <1>8, <2>2, <2>5, <3>2
  <2>6. i = 1 \/ i = n \/ i \in 2..n - 1
    BY <1>7
  <2>7. QED
    BY <2>3, <2>4, <2>5, <2>6
<1> DEFINE P == {p[i] : i \in 1..n}
<1>21. s \in P /\ w \in P /\ P \subseteq Node /\ \A x \in P : OutDegree(adj2, x) = D
  <2>1. 1 \in 1..n /\ n \in 1..n
    BY <1>8
  <2>2. QED
    BY <1>8, <1>9, <1>12, <1>20, <2>1
<1>22. \A x \in Node \ P : OutDegree(adj2, x) = OutDegree(adj, x)
  <2> SUFFICES ASSUME NEW x \in Node, x \notin P PROVE OutDegree(adj2, x) = OutDegree(adj, x)
    OBVIOUS
  <2>1. Len(p) >= 2
    BY <1>7, <1>8
  <2>2. x # p[1] /\ x # p[Len(p)] => OutDegree(adj2, x) = OutDegree(adj1, x)
    BY <1>2, <1>8, <1>18, <2>1, FlipDegrees
  <2>3. x # s /\ x # w
    BY <1>21
  <2>4. QED
    BY <1>4, <1>7, <1>8, <1>12, <2>2, <2>3
<1>23. \A x \in Node : \A y \in adj2[x] : y \in adj1[x] \/ (x \in P /\ y \in P)
  BY <1>3, <1>7, <1>8, <1>18, FlipNeighbours
<1>24. \A x \in P : OutDegree(adj, x) <= D
  <2> SUFFICES ASSUME NEW i \in 1..n PROVE OutDegree(adj, p[i]) <= D
    OBVIOUS
  <2>1. CASE i = 1
    BY <1>5, <1>8, <2>1
  <2>2. CASE i = n
    BY <1>5, <1>12, <1>17, <2>2
  <2>3. CASE i \in 2..n - 1
    <3>1. i \in 2..n
      BY <1>7, <2>3
    <3>2. OutDegree(adj, p[i]) = D
      BY <1>4, <1>8, <1>9, <1>13, <2>3, <3>1
    <3>3. QED
      BY <1>5, <3>2
  <2>4. i = 1 \/ i = n \/ i \in 2..n - 1
    BY <1>7
  <2>5. QED
    BY <2>1, <2>2, <2>3, <2>4
<1>25. \A x \in Node : OutDegree(adj2, x) \in Nat /\ OutDegree(adj2, x) >= OutDegree(adj, x)
  <2> SUFFICES ASSUME NEW x \in Node
               PROVE  OutDegree(adj2, x) \in Nat /\ OutDegree(adj2, x) >= OutDegree(adj, x)
    OBVIOUS
  <2>1. CASE x \in P
    BY <1>5, <1>21, <1>24, <2>1
  <2>2. CASE x \notin P
    BY <1>5, <1>22, <2>2
  <2>3. QED
    BY <2>1, <2>2
<1> DEFINE K == Reachable(adj, s) \cup Reachable(adj, t)
<1>26. K \in SUBSET Node /\ s \in K /\ t \in K /\ IsClosed(adj, K)
  <2>1. IsClosed(adj, Reachable(adj, s)) /\ IsClosed(adj, Reachable(adj, t))
    BY <1>3, ReachableClosed
  <2>2. QED
    BY <2>1, ReachableSubset, ReachableReflexive DEF IsClosed
<1>27. \A x \in K : OutDegree(adj, x) >= D - 1
  <2> SUFFICES ASSUME NEW x \in K PROVE OutDegree(adj, x) >= D - 1
    OBVIOUS
  <2>1. D <= OutDegree(adj, x) + 1 \/ OutDegree(adj, t) <= OutDegree(adj, x) + 1
    BY DEF NoGap
  <2>2. OutDegree(adj, x) \in Nat /\ OutDegree(adj, t) \in Nat /\ D \in Nat
    BY <1>5, <1>26
  <2>3. QED
    BY <2>1, <2>2
<1> HIDE DEF K
<1>28. P \subseteq K
  <2> SUFFICES ASSUME NEW i \in 1..n PROVE p[i] \in K
    OBVIOUS
  <2>1. CASE i = 1
    BY <1>8, <1>26, <2>1
  <2>2. CASE i \in 2..n
    <3>1. p[2] \in K
      BY <1>16, <1>26 DEF IsClosed
    <3>2. 2 \in 2..n
      BY <2>2
    <3>3. p[i] \in Reachable(adj, p[2])
      BY <1>14, <2>2, <3>2
    <3>4. QED
      BY <1>15, <1>26, <3>1, <3>3, ReachableInClosed
  <2>3. i = 1 \/ i \in 2..n
    BY <1>7
  <2>4. QED
    BY <2>1, <2>2, <2>3
<1> HIDE DEF P
<1>29. IsClosed(adj2, K)
  <2> SUFFICES ASSUME NEW x \in K, NEW y \in adj2[x] PROVE y \in K
    BY DEF IsClosed
  <2>1. y \in adj[x] \/ y = t \/ y \in P
    BY <1>6, <1>23, <1>26
  <2>2. QED
    BY <1>26, <1>28, <2>1 DEF IsClosed
<1>30. ASSUME NEW u \in Node PROVE \E S \in SUBSET Node : IsShield(adj2, u, S)
  <2> DEFINE U == Reachable(adj, u)
  <2>1. U \in SUBSET Node /\ u \in U /\ IsClosed(adj, U)
    BY <1>3, ReachableSubset, ReachableReflexive, ReachableClosed
  <2>2. \A x \in U : OutDegree(adj, u) <= OutDegree(adj, x) + 1
    BY DEF NoGap
  <2>3. \A x \in U : Reachable(adj, x) \subseteq U
    BY <1>3, ReachableTransitive
  <2> HIDE DEF U
  <2>4. CASE u \in P
    <3>1. \A x \in K : OutDegree(adj2, u) <= OutDegree(adj2, x) + 1
      <4> SUFFICES ASSUME NEW x \in K PROVE OutDegree(adj2, u) <= OutDegree(adj2, x) + 1
        OBVIOUS
      <4>1. /\ OutDegree(adj2, u) = D /\ D \in Nat
            /\ OutDegree(adj, x) >= D - 1 /\ OutDegree(adj, x) \in Nat
            /\ OutDegree(adj2, x) \in Nat /\ OutDegree(adj2, x) >= OutDegree(adj, x)
        BY <1>5, <1>21, <1>25, <1>26, <1>27, <2>4
      <4>2. QED
        BY <4>1
    <3>2. IsShield(adj2, u, K)
      BY <1>28, <1>29, <2>4, <3>1 DEF IsShield
    <3>3. QED
      BY <1>26, <3>2
  <2>5. CASE u \notin P /\ w \in U
    <3>1. OutDegree(adj2, u) = OutDegree(adj, u) /\ OutDegree(adj, u) <= D
      BY <1>5, <1>17, <1>22, <2>2, <2>5
    <3>2. IsClosed(adj2, U \cup K)
      <4> SUFFICES ASSUME NEW x \in U \cup K, NEW y \in adj2[x] PROVE y \in U \cup K
        BY DEF IsClosed
      <4>1. CASE x \in K
        BY <1>29, <4>1 DEF IsClosed
      <4>2. CASE x \notin K
        <5>1. x \in U /\ x \in Node /\ x # s /\ x \notin P
          BY <1>26, <1>28, <2>1, <4>2
        <5>2. y \in adj[x]
          BY <1>6, <1>23, <5>1
        <5>3. QED
          BY <2>1, <5>1, <5>2 DEF IsClosed
      <4>3. QED
        BY <4>1, <4>2
    <3>3. \A x \in U \cup K : OutDegree(adj2, u) <= OutDegree(adj2, x) + 1
      <4> SUFFICES ASSUME NEW x \in U \cup K PROVE OutDegree(adj2, u) <= OutDegree(adj2, x) + 1
        OBVIOUS
      <4>1. x \in Node
        BY <1>26, <2>1
      <4>2. OutDegree(adj, x) \in Nat /\ OutDegree(adj2, x) \in Nat /\ D \in Nat /\ OutDegree(adj, u) \in Nat
        BY <1>5, <1>25, <4>1
      <4>3. OutDegree(adj, x) >= D - 1 \/ OutDegree(adj, u) <= OutDegree(adj, x) + 1
        BY <1>27, <2>2
      <4>4. OutDegree(adj2, x) >= OutDegree(adj, x)
        BY <1>25, <4>1
      <4>5. QED
        BY <3>1, <4>2, <4>3, <4>4
    <3>4. IsShield(adj2, u, U \cup K)
      BY <2>1, <3>2, <3>3 DEF IsShield
    <3>5. QED
      BY <1>26, <2>1, <3>4
  <2>6. CASE u \notin P /\ w \notin U
    <3>1. \A i \in 2..n : p[i] \notin U
      <4> SUFFICES ASSUME NEW i \in 2..n, p[i] \in U PROVE w \in U
        BY <2>6
      <4>1. n \in i..n
        BY <1>7
      <4>2. w \in Reachable(adj, p[i])
        BY <1>12, <1>14, <4>1
      <4>3. QED
        BY <2>3, <4>2
    <3>2. IsClosed(adj2, U)
      <4> SUFFICES ASSUME NEW x \in U, NEW y \in adj2[x] PROVE y \in U
        BY DEF IsClosed
      <4>1. x \in Node /\ (y \in adj[x] => y \in U)
        BY <2>1 DEF IsClosed
      <4>2. CASE x \in P
        <5>1. PICK i \in 1..n : x = p[i]
          BY <4>2 DEF P
        <5>2. i = 1
          <6>1. i = 1 \/ i \in 2..n
            BY <1>7
          <6>2. QED
            BY <3>1, <5>1, <6>1
        <5>3. x = s
          BY <1>8, <5>1, <5>2
        <5>4. (y \in adj1[x] /\ ~OnPath(p, x, y)) \/ OnPath(p, y, x)
          BY <1>3, <1>8, <1>18, <4>1, FlipMembers
        <5>5. ~OnPath(p, y, x)
          <6> SUFFICES ASSUME OnPath(p, y, x) PROVE FALSE
            OBVIOUS
          <6>1. PICK j \in 1..n - 1 : p[j + 1] = s
            BY <1>7, <5>3 DEF OnPath
          <6>2. j + 1 \in 2..n
            BY <1>7
          <6>3. QED
            BY <1>13, <6>1, <6>2
        <5>6. OnPath(p, s, p[2])
          <6>1. 1 \in 1..Len(p) - 1 /\ 1 + 1 = 2
            BY <1>7, <1>8
          <6>2. QED
            BY <1>8, <6>1 DEF OnPath
        <5>7. y \in adj1[x] /\ y # p[2]
          BY <5>3, <5>4, <5>5, <5>6
        <5>8. p[2] \notin adj[s]
          <6>1. 2 \in 2..n
            BY <1>8
          <6>2. QED
            BY <2>1, <3>1, <5>3, <6>1 DEF IsClosed
        <5>9. y # t
          BY <1>16, <5>7, <5>8
        <5>10. QED
          BY <1>6, <4>1, <5>7, <5>9
      <4>3. CASE x \notin P
        BY <1>6, <1>21, <1>23, <4>1, <4>3
      <4>4. QED
        BY <4>2, <4>3
    <3>3. \A x \in U : OutDegree(adj2, u) <= OutDegree(adj2, x) + 1
      <4> SUFFICES ASSUME NEW x \in U PROVE OutDegree(adj2, u) <= OutDegree(adj2, x) + 1
        OBVIOUS
      <4>1. /\ x \in Node /\ OutDegree(adj2, u) = OutDegree(adj, u)
            /\ OutDegree(adj, u) <= OutDegree(adj, x) + 1
        BY <1>22, <2>1, <2>2, <2>6
      <4>2. /\ OutDegree(adj, u) \in Nat /\ OutDegree(adj, x) \in Nat
            /\ OutDegree(adj2, x) \in Nat /\ OutDegree(adj2, x) >= OutDegree(adj, x)
        BY <1>5, <1>25, <4>1
      <4>3. QED
        BY <4>1, <4>2
    <3>4. IsShield(adj2, u, U)
      BY <2>1, <3>2, <3>3 DEF IsShield
    <3>5. QED
      BY <2>1, <3>4
  <2>7. QED
    BY <2>4, <2>5, <2>6
<1>31. QED
  BY <1>1, <1>18, <1>30, ShieldsSuffice

(****************************************************************************)
(* Deletion.  D is the out-degree of s after the arc s -> t is taken.       *)
(****************************************************************************)

\* The search finds no path.
LEMMA DeletionWithoutPath ==
  ASSUME NEW adj, NEW E, IsOrientation(adj, E), NoGap(adj),
         NEW s \in Node, NEW t \in Node, t \in adj[s],
         BackwardPaths(WithoutArc(adj, s, t), s) = {}
  PROVE  NoGap(WithoutArc(adj, s, t))
<1>1. PICK adj1 : adj1 = WithoutArc(adj, s, t)
  OBVIOUS
<1> DEFINE D == OutDegree(adj1, s)
<1>2. IsOrientation(adj1, E \ {{s, t}})
  BY <1>1, WithoutArcFacts
<1>3. adj \in Digraph /\ adj1 \in Digraph
  BY <1>2 DEF IsOrientation
<1>4. \A x \in Node : OutDegree(adj, x) \in Nat /\ OutDegree(adj1, x) \in Nat
  BY <1>3, DegreeType
<1>5. D = OutDegree(adj, s) - 1
  BY <1>1, WithoutArcFacts
<1>6. ASSUME NEW x \in Node, x # s PROVE OutDegree(adj1, x) = OutDegree(adj, x)
  BY <1>1, <1>3, <1>6, WithoutArcOthers
<1>7. ASSUME NEW x \in Node PROVE Reachable(adj1, x) \subseteq Reachable(adj, x)
  BY <1>1, <1>3, WithoutArcMembers, ReachableMonotone
<1>8. PICK R \in SUBSET Node :
        /\ s \in R
        /\ \A x \in R : OutDegree(adj1, x) <= D + 1
        /\ \A x \in R : \A y \in Node : x \in adj1[y] => y \in R \/ OutDegree(adj1, y) <= D
  BY <1>1, <1>3, BackwardExhausted
<1> DEFINE Below == {x \in Node : \E y \in Node \ {s} : y \in Reachable(adj1, x) /\ OutDegree(adj1, y) <= D}
           Z == R \cup Below
<1>9. \A x \in Z : OutDegree(adj1, x) <= D + 1
  <2> SUFFICES ASSUME NEW x \in Below PROVE OutDegree(adj1, x) <= D + 1
    BY <1>8
  <2>1. PICK y \in Node \ {s} : y \in Reachable(adj1, x) /\ OutDegree(adj1, y) <= D
    OBVIOUS
  <2>2. OutDegree(adj, x) <= OutDegree(adj, y) + 1
    BY <1>7, <2>1 DEF NoGap
  <2>3. OutDegree(adj, y) = OutDegree(adj1, y)
    BY <1>6, <2>1
  <2>4. OutDegree(adj1, x) <= OutDegree(adj, x)
    <3>1. CASE x = s
      BY <1>4, <1>5, <3>1
    <3>2. CASE x # s
      BY <1>4, <1>6, <3>2
    <3>3. QED
      BY <3>1, <3>2
  <2>5. QED
    BY <1>4, <2>1, <2>2, <2>3, <2>4
<1>10. IsClosed(adj1, Node \ Z)
  <2> SUFFICES ASSUME NEW x \in Node \ Z, NEW y \in adj1[x], y \in Z PROVE FALSE
    BY <1>3 DEF IsClosed, Digraph
  <2>1. x \in Node /\ x # s /\ x \notin R /\ x \notin Below
    BY <1>8
  <2>2. x \in Reachable(adj1, x) /\ y \in Reachable(adj1, x)
    BY <1>3, <2>1, ReachableReflexive, ReachableStep
  <2>3. CASE y \in R
    <3>1. OutDegree(adj1, x) <= D
      BY <1>8, <2>1, <2>3
    <3>2. QED
      BY <2>1, <2>2, <3>1
  <2>4. CASE y \in Below
    <3>1. PICK z \in Node \ {s} : z \in Reachable(adj1, y) /\ OutDegree(adj1, z) <= D
      BY <2>4
    <3>2. z \in Reachable(adj1, x)
      BY <1>3, <2>1, <2>2, <3>1, ReachableTransitive
    <3>3. QED
      BY <2>1, <3>1, <3>2
  <2>5. QED
    BY <2>3, <2>4
<1>11. s \in Z
  BY <1>8
<1> HIDE DEF Z
<1>12. ASSUME NEW u \in Node, NEW v \in Reachable(adj1, u)
       PROVE  OutDegree(adj1, u) <= OutDegree(adj1, v) + 1
  <2>1. v \in Node
    BY ReachableSubset
  <2>2. CASE v = s
    <3>1. u \in Z
      <4> SUFFICES ASSUME u \in Node \ Z PROVE s \in Node \ Z
        BY <1>11
      <4>1. Node \ Z \in SUBSET Node
        OBVIOUS
      <4>2. QED
        BY <1>10, <2>2, <4>1, ReachableInClosed
    <3>2. QED
      BY <1>9, <2>2, <3>1
  <2>3. CASE v # s
    <3>1. OutDegree(adj, u) <= OutDegree(adj, v) + 1
      BY <1>7 DEF NoGap
    <3>2. OutDegree(adj1, v) = OutDegree(adj, v)
      BY <1>6, <2>1, <2>3
    <3>3. OutDegree(adj1, u) = OutDegree(adj, u) \/ OutDegree(adj1, u) = OutDegree(adj, u) - 1
      BY <1>5, <1>6
    <3>4. QED
      BY <1>4, <2>1, <3>1, <3>2, <3>3
  <2>4. QED
    BY <2>2, <2>3
<1>13. QED
  BY <1>1, <1>12 DEF NoGap

\* The search flips a path.
LEMMA DeletionWithPath ==
  ASSUME NEW adj, NEW E, IsOrientation(adj, E), NoGap(adj),
         NEW s \in Node, NEW t \in Node, t \in adj[s],
         NEW p \in BackwardPaths(WithoutArc(adj, s, t), s)
  PROVE  NoGap(FlipPath(WithoutArc(adj, s, t), p))
<1>1. PICK adj1 : adj1 = WithoutArc(adj, s, t)
  OBVIOUS
<1> DEFINE D == OutDegree(adj1, s)
<1>2. IsOrientation(adj1, E \ {{s, t}})
  BY <1>1, WithoutArcFacts
<1>3. adj \in Digraph /\ adj1 \in Digraph
  BY <1>2 DEF IsOrientation
<1>4. \A x \in Node : OutDegree(adj, x) \in Nat /\ OutDegree(adj1, x) \in Nat
  BY <1>3, DegreeType
<1>5. D = OutDegree(adj, s) - 1
  BY <1>1, WithoutArcFacts
<1>6. ASSUME NEW x \in Node, x # s PROVE OutDegree(adj1, x) = OutDegree(adj, x)
  BY <1>1, <1>3, <1>6, WithoutArcOthers
<1>7. \A x \in Node : adj1[x] \subseteq adj[x]
  BY <1>1, <1>3, WithoutArcMembers
<1>8. PICK n \in Nat : n = Len(p)
  BY <1>1, <1>3, BackwardPathFacts DEF IsSearchPath
<1>9. /\ p \in Seq(Node) /\ n >= 2 /\ IsPath(adj1, p) /\ Simple(p)
      /\ p[n] = s
      /\ \A i \in 2..n - 1 : OutDegree(adj1, p[i]) = D + 1
      /\ OutDegree(adj1, p[1]) > D + 1
  <2>1. IsSearchPath(adj1, p, D + 1) /\ p[n] = s /\ OutDegree(adj1, p[1]) > D + 1
    BY <1>1, <1>3, <1>8, BackwardPathFacts
  <2>2. QED
    BY <1>8, <2>1 DEF IsSearchPath
<1>10. \A i \in 1..n : p[i] \in Node
  BY <1>8, <1>9
<1>11. \A i, j \in 1..n : p[i] = p[j] => i = j
  BY <1>8, <1>9 DEF Simple
<1>12. \A i \in 1..n - 1 : p[i + 1] \in adj1[p[i]]
  BY <1>8, <1>9 DEF IsPath
<1>13. \A i \in 1..n : \A k \in i..n : p[k] \in Reachable(adj, p[i])
  <2> SUFFICES ASSUME NEW i \in 1..n, NEW k \in i..n PROVE p[k] \in Reachable(adj, p[i])
    OBVIOUS
  <2>1. \A j \in i..k - 1 : p[j + 1] \in adj[p[j]]
    <3> SUFFICES ASSUME NEW j \in i..k - 1 PROVE p[j + 1] \in adj[p[j]]
      OBVIOUS
    <3>1. j \in 1..n /\ j \in 1..n - 1
      BY <1>8
    <3>2. QED
      BY <1>7, <1>10, <1>12, <3>1
  <2>2. i \in 1..Len(p) /\ k \in i..Len(p)
    BY <1>8
  <2>3. QED
    BY <1>3, <1>9, <2>1, <2>2, PathReaches
<1>14. PICK w \in Node : w = p[1]
  BY <1>9, <1>10
<1>15. w # s /\ s \in Reachable(adj, w)
  <2>1. 1 \in 1..n /\ n \in 1..n /\ 1 # n
    BY <1>9
  <2>2. QED
    BY <1>9, <1>11, <1>13, <1>14, <2>1
<1>16. OutDegree(adj, w) = D + 2 /\ OutDegree(adj1, w) = D + 2
  <2>1. OutDegree(adj1, w) = OutDegree(adj, w)
    BY <1>6, <1>15
  <2>2. OutDegree(adj, w) <= OutDegree(adj, s) + 1
    BY <1>15 DEF NoGap
  <2>3. OutDegree(adj1, w) > D + 1
    BY <1>9, <1>14
  <2>4. OutDegree(adj, w) \in Nat /\ OutDegree(adj, s) \in Nat /\ D \in Nat
    BY <1>4
  <2>5. QED
    BY <1>5, <2>1, <2>2, <2>3, <2>4
<1>17. PICK adj2 : adj2 = FlipPath(adj1, p)
  OBVIOUS
<1>18. adj2 \in Digraph
  <2>1. IsOrientation(adj2, E \ {{s, t}})
    BY <1>2, <1>9, <1>17, FlipKeepsOrientation
  <2>2. QED
    BY <2>1 DEF IsOrientation
<1>19. \A i \in 1..n : OutDegree(adj2, p[i]) = D + 1
  <2> SUFFICES ASSUME NEW i \in 1..n PROVE OutDegree(adj2, p[i]) = D + 1
    OBVIOUS
  <2>1. Len(p) >= 2
    BY <1>8, <1>9
  <2>2. /\ p[i] = p[1] => OutDegree(adj2, p[i]) = OutDegree(adj1, p[i]) - 1
        /\ p[i] = p[Len(p)] => OutDegree(adj2, p[i]) = OutDegree(adj1, p[i]) + 1
        /\ p[i] # p[1] /\ p[i] # p[Len(p)] => OutDegree(adj2, p[i]) = OutDegree(adj1, p[i])
    BY <1>2, <1>9, <1>10, <1>17, <2>1, FlipDegrees
  <2>3. CASE i = 1
    BY <1>4, <1>14, <1>16, <2>2, <2>3
  <2>4. CASE i = n
    BY <1>8, <1>9, <2>2, <2>4
  <2>5. CASE i \in 2..n - 1
    <3>1. i # 1 /\ i # n /\ 1 \in 1..n /\ n \in 1..n
      BY <1>9, <2>5
    <3>2. p[i] # p[1] /\ p[i] # p[n]
      BY <1>11, <3>1
    <3>3. QED
      BY <1>8, <1>9, <2>2, <2>5, <3>2
  <2>6. i = 1 \/ i = n \/ i \in 2..n - 1
    BY <1>8
  <2>7. QED
    BY <2>3, <2>4, <2>5, <2>6
<1> DEFINE P == {p[i] : i \in 1..n}
<1>20. s \in P /\ w \in P /\ P \subseteq Node /\ \A x \in P : OutDegree(adj2, x) = D + 1
  <2>1. 1 \in 1..n /\ n \in 1..n
    BY <1>9
  <2>2. QED
    BY <1>9, <1>10, <1>14, <1>19, <2>1
<1>21. \A x \in Node \ P : OutDegree(adj2, x) = OutDegree(adj, x)
  <2> SUFFICES ASSUME NEW x \in Node, x \notin P PROVE OutDegree(adj2, x) = OutDegree(adj, x)
    OBVIOUS
  <2>1. Len(p) >= 2
    BY <1>8, <1>9
  <2>2. x # p[1] /\ x # p[Len(p)] => OutDegree(adj2, x) = OutDegree(adj1, x)
    BY <1>2, <1>9, <1>17, <2>1, FlipDegrees
  <2>3. x # s /\ x # w
    BY <1>20
  <2>4. QED
    BY <1>6, <1>8, <1>9, <1>14, <2>2, <2>3
<1>22. \A x \in Node : \A y \in adj2[x] : y \in adj1[x] \/ (x \in P /\ y \in P)
  BY <1>3, <1>8, <1>9, <1>17, FlipNeighbours
<1> DEFINE K == Reachable(adj, w)
<1>23. K \in SUBSET Node /\ IsClosed(adj, K)
  BY <1>3, ReachableSubset, ReachableClosed
<1>24. P \subseteq K
  <2> SUFFICES ASSUME NEW i \in 1..n PROVE p[i] \in K
    OBVIOUS
  <2>1. 1 \in 1..n
    BY <1>9
  <2>2. QED
    BY <1>13, <1>14, <2>1
<1>25. \A x \in K : OutDegree(adj, x) >= D + 1
  <2> SUFFICES ASSUME NEW x \in K PROVE OutDegree(adj, x) >= D + 1
    OBVIOUS
  <2>1. OutDegree(adj, w) <= OutDegree(adj, x) + 1
    BY DEF NoGap
  <2>2. QED
    BY <1>4, <1>16, <1>23, <2>1
<1> HIDE DEF K
<1>26. ASSUME NEW i \in 1..n PROVE s \in Reachable(adj, p[i])
  <2>1. n \in i..n
    BY <1>8
  <2>2. QED
    BY <1>9, <1>13, <2>1
<1>27. \A x \in P : s \in Reachable(adj, x)
  BY <1>26
<1> HIDE DEF P
<1>28. IsClosed(adj2, K)
  <2> SUFFICES ASSUME NEW x \in K, NEW y \in adj2[x] PROVE y \in K
    BY DEF IsClosed
  <2>1. y \in adj[x] \/ y \in P
    BY <1>7, <1>22, <1>23
  <2>2. QED
    BY <1>23, <1>24, <2>1 DEF IsClosed
<1>29. \A x \in K : OutDegree(adj2, x) >= D + 1
  <2> SUFFICES ASSUME NEW x \in K PROVE OutDegree(adj2, x) >= D + 1
    OBVIOUS
  <2>1. CASE x \in P
    BY <1>4, <1>20, <2>1
  <2>2. CASE x \notin P
    BY <1>21, <1>23, <1>25, <2>2
  <2>3. QED
    BY <2>1, <2>2
<1>30. ASSUME NEW u \in Node PROVE \E S \in SUBSET Node : IsShield(adj2, u, S)
  <2> DEFINE U == Reachable(adj, u)
  <2>1. U \in SUBSET Node /\ u \in U /\ IsClosed(adj, U)
    BY <1>3, ReachableSubset, ReachableReflexive, ReachableClosed
  <2>2. \A x \in U : OutDegree(adj, u) <= OutDegree(adj, x) + 1
    BY DEF NoGap
  <2>3. \A x \in U : Reachable(adj, x) \subseteq U
    BY <1>3, ReachableTransitive
  <2>4. \A x \in Node : OutDegree(adj2, x) \in Nat
    BY <1>18, DegreeType
  <2> HIDE DEF U
  <2>5. CASE u \in P
    <3>1. \A x \in K : OutDegree(adj2, u) <= OutDegree(adj2, x) + 1
      <4> SUFFICES ASSUME NEW x \in K PROVE OutDegree(adj2, u) <= OutDegree(adj2, x) + 1
        OBVIOUS
      <4>1. /\ OutDegree(adj2, u) = D + 1 /\ D \in Nat
            /\ OutDegree(adj2, x) >= D + 1 /\ OutDegree(adj2, x) \in Nat
        BY <1>4, <1>20, <1>23, <1>29, <2>4, <2>5
      <4>2. QED
        BY <4>1
    <3>2. IsShield(adj2, u, K)
      BY <1>24, <1>28, <2>5, <3>1 DEF IsShield
    <3>3. QED
      BY <1>23, <3>2
  <2>6. CASE u \notin P /\ s \in U
    <3>1. OutDegree(adj2, u) = OutDegree(adj, u) /\ OutDegree(adj, u) <= D + 2
      BY <1>4, <1>5, <1>21, <2>2, <2>6
    <3>2. IsClosed(adj2, U \cup K)
      <4> SUFFICES ASSUME NEW x \in U \cup K, NEW y \in adj2[x] PROVE y \in U \cup K
        BY DEF IsClosed
      <4>1. CASE x \in K
        BY <1>28, <4>1 DEF IsClosed
      <4>2. CASE x \notin K
        <5>1. x \in U /\ x \in Node /\ x \notin P
          BY <1>24, <2>1, <4>2
        <5>2. y \in adj[x]
          BY <1>7, <1>22, <5>1
        <5>3. QED
          BY <2>1, <5>1, <5>2 DEF IsClosed
      <4>3. QED
        BY <4>1, <4>2
    <3>3. \A x \in U \cup K : OutDegree(adj2, u) <= OutDegree(adj2, x) + 1
      <4> SUFFICES ASSUME NEW x \in U \cup K PROVE OutDegree(adj2, u) <= OutDegree(adj2, x) + 1
        OBVIOUS
      <4>1. x \in Node
        BY <1>23, <2>1
      <4>2. OutDegree(adj, x) \in Nat /\ OutDegree(adj2, x) \in Nat /\ D \in Nat /\ OutDegree(adj, u) \in Nat
        BY <1>4, <2>4, <4>1
      <4>3. CASE x \in K
        BY <1>29, <3>1, <4>2, <4>3
      <4>4. CASE x \notin K
        <5>1. x \in U /\ x \notin P
          BY <1>24, <4>4
        <5>2. OutDegree(adj2, x) = OutDegree(adj, x)
          BY <1>21, <4>1, <5>1
        <5>3. QED
          BY <2>2, <3>1, <5>1, <5>2
      <4>5. QED
        BY <4>3, <4>4
    <3>4. IsShield(adj2, u, U \cup K)
      BY <2>1, <3>2, <3>3 DEF IsShield
    <3>5. QED
      BY <1>23, <2>1, <3>4
  <2>7. CASE u \notin P /\ s \notin U
    <3>1. \A x \in U : x \notin P
      BY <1>27, <2>3, <2>7
    <3>2. IsClosed(adj2, U)
      <4> SUFFICES ASSUME NEW x \in U, NEW y \in adj2[x] PROVE y \in U
        BY DEF IsClosed
      <4>1. y \in adj[x]
        BY <1>7, <1>22, <2>1, <3>1
      <4>2. QED
        BY <2>1, <4>1 DEF IsClosed
    <3>3. \A x \in U : OutDegree(adj2, u) <= OutDegree(adj2, x) + 1
      <4> SUFFICES ASSUME NEW x \in U PROVE OutDegree(adj2, u) <= OutDegree(adj2, x) + 1
        OBVIOUS
      <4>1. OutDegree(adj2, u) = OutDegree(adj, u) /\ OutDegree(adj2, x) = OutDegree(adj, x)
        BY <1>21, <2>1, <2>7, <3>1
      <4>2. QED
        BY <2>2, <4>1
    <3>4. IsShield(adj2, u, U)
      BY <2>1, <3>2, <3>3 DEF IsShield
    <3>5. QED
      BY <2>1, <3>4
  <2>8. QED
    BY <2>5, <2>6, <2>7
<1>31. QED
  BY <1>1, <1>17, <1>30, ShieldsSuffice

(****************************************************************************)
(* The invariant.                                                           *)
(****************************************************************************)

\* An update of the lists keeps the graph oriented, and one search per update is
\* enough to leave no improving path.
IInv == TypeOK /\ Oriented /\ NoImprovingPath

\* handleInsertion: one search is enough, whether it finds a path or not.
LEMMA InsertionKeepsNoImprovingPath ==
  ASSUME IInv, NEW source \in Node, NEW target \in Node, handleInsertion(source, target)
  PROVE  NoImprovingPath'
<1>1. PICK s, t \in Node :
        /\ s # t /\ {s, t} \notin edges
        /\ OutDegree(m_adj, s) <= OutDegree(m_adj, t)
        /\ m_adj' \in bfs_forward(WithArc(m_adj, s, t), s)
  BY InsertionAddsArc DEF IInv
<1>2. IsOrientation(m_adj, edges) /\ NoGap(m_adj)
  BY DEF IInv, Oriented, NoImprovingPath, NoGap
<1>3. CASE ForwardPaths(WithArc(m_adj, s, t), s) = {}
  <2>1. m_adj' = WithArc(m_adj, s, t)
    BY <1>1, <1>3 DEF bfs_forward, Flipped, Shortest
  <2>2. NoGap(m_adj')
    BY <1>1, <1>2, <1>3, <2>1, InsertionWithoutPath
  <2>3. QED
    BY <2>2 DEF NoImprovingPath, NoGap
<1>4. CASE ForwardPaths(WithArc(m_adj, s, t), s) # {}
  <2>1. WithArc(m_adj, s, t) \in Digraph
    BY <1>1, <1>2, WithArcFacts DEF IsOrientation
  <2>2. Shortest(ForwardPaths(WithArc(m_adj, s, t), s)) # {}
    <3>1. \A q \in ForwardPaths(WithArc(m_adj, s, t), s) : Len(q) \in Nat
      BY <2>1, ForwardPathFacts DEF IsSearchPath
    <3>2. QED
      BY <1>4, <3>1, ShortestExists
  <2>3. PICK p \in ForwardPaths(WithArc(m_adj, s, t), s) :
          m_adj' = FlipPath(WithArc(m_adj, s, t), p)
    BY <1>1, <2>2 DEF bfs_forward, Flipped, Shortest
  <2>4. NoGap(m_adj')
    BY <1>1, <1>2, <2>3, InsertionWithPath
  <2>5. QED
    BY <2>4 DEF NoImprovingPath, NoGap
<1>5. QED
  BY <1>3, <1>4

\* handleDeletion: one search is enough, whether it finds a path or not.
LEMMA DeletionKeepsNoImprovingPath ==
  ASSUME IInv, NEW source \in Node, NEW target \in Node, handleDeletion(source, target)
  PROVE  NoImprovingPath'
<1>1. PICK s, t \in Node :
        /\ t \in m_adj[s]
        /\ m_adj' \in bfs_backward(WithoutArc(m_adj, s, t), s)
  BY DeletionTakesArc DEF IInv
<1>2. IsOrientation(m_adj, edges) /\ NoGap(m_adj)
  BY DEF IInv, Oriented, NoImprovingPath, NoGap
<1>3. CASE BackwardPaths(WithoutArc(m_adj, s, t), s) = {}
  <2>1. m_adj' = WithoutArc(m_adj, s, t)
    BY <1>1, <1>3 DEF bfs_backward, Flipped, Shortest
  <2>2. NoGap(m_adj')
    BY <1>1, <1>2, <1>3, <2>1, DeletionWithoutPath
  <2>3. QED
    BY <2>2 DEF NoImprovingPath, NoGap
<1>4. CASE BackwardPaths(WithoutArc(m_adj, s, t), s) # {}
  <2>1. WithoutArc(m_adj, s, t) \in Digraph
    <3>1. IsOrientation(WithoutArc(m_adj, s, t), edges \ {{s, t}})
      BY <1>1, <1>2, WithoutArcFacts
    <3>2. QED
      BY <3>1 DEF IsOrientation
  <2>2. Shortest(BackwardPaths(WithoutArc(m_adj, s, t), s)) # {}
    <3>1. \A q \in BackwardPaths(WithoutArc(m_adj, s, t), s) : Len(q) \in Nat
      BY <2>1, BackwardPathFacts DEF IsSearchPath
    <3>2. QED
      BY <1>4, <3>1, ShortestExists
  <2>3. PICK p \in BackwardPaths(WithoutArc(m_adj, s, t), s) :
          m_adj' = FlipPath(WithoutArc(m_adj, s, t), p)
    BY <1>1, <2>2 DEF bfs_backward, Flipped, Shortest
  <2>4. NoGap(m_adj')
    BY <1>1, <1>2, <2>3, DeletionWithPath
  <2>5. QED
    BY <2>4 DEF NoImprovingPath, NoGap
<1>5. QED
  BY <1>3, <1>4

\* The invariant holds of the empty lists.
LEMMA InitNoImprovingPath == Init => IInv
<1> SUFFICES ASSUME Init PROVE IInv
  OBVIOUS
<1>1. TypeOK /\ Oriented
  BY InitOriented
<1>2. ASSUME NEW u \in Node, NEW v \in Reachable(m_adj, u)
      PROVE  OutDegree(m_adj, u) <= OutDegree(m_adj, v) + 1
  <2>1. v \in Node
    BY ReachableSubset
  <2>2. OutDegree(m_adj, u) = 0 /\ OutDegree(m_adj, v) = 0
    BY <2>1, FS_EmptySet DEF Init, NoArcs, OutDegree
  <2>3. QED
    BY <2>2
<1>3. QED
  BY <1>1, <1>2 DEF IInv, NoImprovingPath

\* Every call preserves the invariant.
LEMMA NextKeepsInvariant == IInv /\ [Next]_vars => IInv'
<1> SUFFICES ASSUME IInv, [Next]_vars PROVE IInv'
  OBVIOUS
<1>1. ASSUME NEW source \in Node, NEW target \in Node, handleInsertion(source, target)
      PROVE  IInv'
  <2>1. TypeOK' /\ Oriented'
    BY <1>1, InsertionKeepsOriented DEF IInv
  <2>2. NoImprovingPath'
    BY <1>1, InsertionKeepsNoImprovingPath
  <2>3. QED
    BY <2>1, <2>2 DEF IInv
<1>2. ASSUME NEW source \in Node, NEW target \in Node, handleDeletion(source, target)
      PROVE  IInv'
  <2>1. TypeOK' /\ Oriented'
    BY <1>2, DeletionKeepsOriented DEF IInv
  <2>2. NoImprovingPath'
    BY <1>2, DeletionKeepsNoImprovingPath
  <2>3. QED
    BY <2>1, <2>2 DEF IInv
<1>3. CASE UNCHANGED vars
  BY <1>3 DEF IInv, vars, TypeOK, Oriented, NoImprovingPath
<1>4. QED
  BY <1>1, <1>2, <1>3 DEF Next

\* After every update no node reaches one that is two or more below it: the single
\* search of handleInsertion and handleDeletion restores it for all pairs of nodes.
THEOREM StaysWithoutImprovingPath == Spec => []NoImprovingPath
<1>1. IInv => NoImprovingPath
  BY DEF IInv
<1>2. QED
  BY <1>1, InitNoImprovingPath, NextKeepsInvariant, PTL DEF Spec

(****************************************************************************)
(* Optimality.  Suppose a node u has more than k out-neighbours although    *)
(* some choice of tails gives no node more than k edges.  Every node that u *)
(* reaches has at least k out-neighbours, and all of them are reached, so   *)
(* the nodes reached span more edges than their k tails each can take.      *)
(****************************************************************************)

\* Without an improving path the orientation is optimal.
LEMMA NoGapOptimal ==
  ASSUME NEW adj, NEW E \in SUBSET Edge, IsOrientation(adj, E), NoGap(adj)
  PROVE  IsOptimal(adj, E)
<1> SUFFICES ASSUME NEW tail \in TailChoices(E), NEW k \in 0..Cardinality(Node),
                    \A v \in Node : Cardinality({e \in E : tail[e] = v}) <= k,
                    NEW u \in Node, ~(OutDegree(adj, u) <= k)
             PROVE  FALSE
  BY DEF IsOptimal
<1>1. adj \in Digraph
  BY DEF IsOrientation
<1>2. \A x \in Node : IsFiniteSet(adj[x]) /\ OutDegree(adj, x) \in Nat
  BY <1>1, DegreeType
<1>3. k \in Nat
  BY NodeAssumption, FS_CardinalityType
<1>4. IsFiniteSet(E)
  <2>1. E \in SUBSET (SUBSET Node)
    BY DEF Edge
  <2>2. IsFiniteSet(SUBSET Node)
    BY NodeAssumption, FS_SUBSET
  <2>3. QED
    BY <2>1, <2>2, FS_Subset
<1>5. tail \in [E -> Node] /\ \A e \in E : tail[e] \in e
  BY DEF TailChoices
<1> DEFINE S == Reachable(adj, u)
           need == [x \in Node |-> IF x = u THEN k + 1 ELSE k]
           Tails(x) == {e \in E : tail[e] = x}
<1>6. S \in SUBSET Node /\ u \in S /\ IsClosed(adj, S)
  BY <1>1, ReachableSubset, ReachableReflexive, ReachableClosed
<1>7. \A x \in S : OutDegree(adj, x) >= need[x] /\ need[x] \in Nat
  <2> SUFFICES ASSUME NEW x \in S PROVE OutDegree(adj, x) >= need[x] /\ need[x] \in Nat
    OBVIOUS
  <2>1. OutDegree(adj, u) <= OutDegree(adj, x) + 1
    BY DEF NoGap
  <2>2. x \in Node /\ OutDegree(adj, x) \in Nat /\ OutDegree(adj, u) \in Nat
    BY <1>2, <1>6
  <2>3. CASE x = u
    BY <1>3, <2>2, <2>3
  <2>4. CASE x # u
    BY <1>3, <2>1, <2>2, <2>4
  <2>5. QED
    BY <2>3, <2>4
<1>8. need \in [Node -> Nat] /\ need[u] = k + 1 /\ \A x \in Node \ {u} : need[x] = k
  BY <1>3
<1> HIDE DEF S, need, Tails
<1>9. \A x \in Node : \E g \in [Tails(x) -> 1..k] : \A a, b \in Tails(x) : g[a] = g[b] => a = b
  <2> SUFFICES ASSUME NEW x \in Node
               PROVE  \E g \in [Tails(x) -> 1..k] : \A a, b \in Tails(x) : g[a] = g[b] => a = b
    OBVIOUS
  <2>1. Cardinality(Tails(x)) <= k
    BY DEF Tails
  <2>2. IsFiniteSet(Tails(x))
    BY <1>4, FS_Subset DEF Tails
  <2>3. QED
    BY <1>3, <2>1, <2>2, Numbering
<1>10. \A x \in S : \E h \in [1..need[x] -> adj[x]] : \A i, j \in 1..need[x] : h[i] = h[j] => i = j
  <2> SUFFICES ASSUME NEW x \in S
               PROVE  \E h \in [1..need[x] -> adj[x]] : \A i, j \in 1..need[x] : h[i] = h[j] => i = j
    OBVIOUS
  <2>1. Cardinality(adj[x]) >= need[x] /\ need[x] \in Nat
    BY <1>7 DEF OutDegree
  <2>2. IsFiniteSet(adj[x])
    BY <1>2, <1>6
  <2>3. QED
    BY <2>1, <2>2, Choosing
<1> DEFINE num == [x \in Node |-> CHOOSE g \in [Tails(x) -> 1..k] :
                                    \A a, b \in Tails(x) : g[a] = g[b] => a = b]
           out == [x \in S |-> CHOOSE h \in [1..need[x] -> adj[x]] :
                                 \A i, j \in 1..need[x] : h[i] = h[j] => i = j]
<1>11. \A x \in Node : /\ num[x] \in [Tails(x) -> 1..k]
                       /\ \A a, b \in Tails(x) : num[x][a] = num[x][b] => a = b
  BY <1>9
<1>12. \A x \in S : /\ out[x] \in [1..need[x] -> adj[x]]
                    /\ \A i, j \in 1..need[x] : out[x][i] = out[x][j] => i = j
  BY <1>10
<1> HIDE DEF num, out
<1> DEFINE T == S \X (1..k)
           extra == <<u, k + 1>>
           Dom == T \cup {extra}
           edge(d) == {d[1], out[d[1]][d[2]]}
           f == [d \in Dom |-> <<tail[edge(d)], num[tail[edge(d)]][edge(d)]>>]
<1>13. \A d \in Dom : d[1] \in S /\ d[2] \in 1..need[d[1]] /\ d = <<d[1], d[2]>>
  <2> SUFFICES ASSUME NEW d \in Dom PROVE d[1] \in S /\ d[2] \in 1..need[d[1]] /\ d = <<d[1], d[2]>>
    OBVIOUS
  <2>1. CASE d = extra
    BY <1>3, <1>6, <1>8, <2>1
  <2>2. CASE d \in T
    <3>1. d[1] \in S /\ d[2] \in 1..k /\ d = <<d[1], d[2]>>
      BY <2>2
    <3>2. need[d[1]] = k \/ need[d[1]] = k + 1
      BY <1>6, <1>8, <3>1
    <3>3. d[2] \in 1..need[d[1]]
      BY <1>3, <3>1, <3>2
    <3>4. QED
      BY <3>1, <3>3
  <2>3. QED
    BY <2>1, <2>2
<1> HIDE DEF Dom
<1>14. \A d \in Dom : /\ out[d[1]][d[2]] \in adj[d[1]]
                      /\ d[1] \in Node /\ out[d[1]][d[2]] \in Node /\ out[d[1]][d[2]] \in S
                      /\ edge(d) \in E
  <2> SUFFICES ASSUME NEW d \in Dom
               PROVE  /\ out[d[1]][d[2]] \in adj[d[1]]
                      /\ d[1] \in Node /\ out[d[1]][d[2]] \in Node /\ out[d[1]][d[2]] \in S
                      /\ edge(d) \in E
    OBVIOUS
  <2>1. d[1] \in S /\ d[2] \in 1..need[d[1]]
    BY <1>13
  <2>2. out[d[1]][d[2]] \in adj[d[1]]
    BY <1>12, <2>1
  <2>3. out[d[1]][d[2]] \in S
    BY <1>6, <2>1, <2>2 DEF IsClosed
  <2>4. d[1] \in Node /\ out[d[1]][d[2]] \in Node
    BY <1>6, <2>1, <2>3
  <2>5. edge(d) \in E
    BY <2>2, <2>4 DEF IsOrientation
  <2>6. QED
    BY <2>2, <2>3, <2>4, <2>5
<1>15. \A d \in Dom : /\ tail[edge(d)] \in S /\ tail[edge(d)] \in Node
                      /\ edge(d) \in Tails(tail[edge(d)])
                      /\ num[tail[edge(d)]][edge(d)] \in 1..k
  <2> SUFFICES ASSUME NEW d \in Dom
               PROVE  /\ tail[edge(d)] \in S /\ tail[edge(d)] \in Node
                      /\ edge(d) \in Tails(tail[edge(d)])
                      /\ num[tail[edge(d)]][edge(d)] \in 1..k
    OBVIOUS
  <2>1. edge(d) \in E /\ tail[edge(d)] \in edge(d)
    BY <1>5, <1>14
  <2>2. tail[edge(d)] \in S
    BY <1>13, <1>14, <2>1
  <2>3. tail[edge(d)] \in Node
    BY <1>6, <2>2
  <2>4. edge(d) \in Tails(tail[edge(d)])
    BY <2>1 DEF Tails
  <2> HIDE DEF edge
  <2>5. num[tail[edge(d)]] \in [Tails(tail[edge(d)]) -> 1..k]
    BY <1>11, <2>3
  <2>6. QED
    BY <2>2, <2>3, <2>4, <2>5
<1>16. f \in [Dom -> T]
  BY <1>15
<1>17. ASSUME NEW d \in Dom, NEW e \in Dom, f[d] = f[e] PROVE d = e
  <2>1. tail[edge(d)] = tail[edge(e)] /\ num[tail[edge(d)]][edge(d)] = num[tail[edge(e)]][edge(e)]
    BY <1>17
  <2>2. edge(d) = edge(e)
    <3> HIDE DEF edge
    <3>1. edge(e) \in Tails(tail[edge(d)]) /\ num[tail[edge(d)]][edge(d)] = num[tail[edge(d)]][edge(e)]
      BY <1>15, <2>1
    <3>2. QED
      BY <1>11, <1>15, <3>1
  <2>3. {d[1], out[d[1]][d[2]]} = {e[1], out[e[1]][e[2]]}
    BY <2>2
  <2>4. out[d[1]][d[2]] \in adj[d[1]] /\ out[e[1]][e[2]] \in adj[e[1]]
        /\ d[1] \in Node /\ e[1] \in Node
    BY <1>14
  <2>5. d[1] = e[1] /\ out[d[1]][d[2]] = out[e[1]][e[2]]
    <3>1. d[1] \notin adj[out[d[1]][d[2]]]
      BY <1>14, <2>4 DEF IsOrientation
    <3>2. QED
      BY <2>3, <2>4, <3>1
  <2>6. d[2] = e[2]
    BY <1>12, <1>13, <2>5
  <2>7. QED
    BY <1>13, <2>5, <2>6
<1>18. IsFiniteSet(T) /\ Cardinality(T) \in Nat
  <2>1. IsFiniteSet(S)
    BY <1>6, NodeAssumption, FS_Subset
  <2>2. IsFiniteSet(1..k)
    BY <1>3, FS_Interval
  <2>3. IsFiniteSet(T)
    BY <2>1, <2>2, FS_Product
  <2>4. QED
    BY <2>3, FS_CardinalityType
<1>19. extra \notin T
  BY <1>3
<1>20. Cardinality(Dom) = Cardinality(T) + 1
  BY <1>18, <1>19, FS_AddElement DEF Dom
<1>21. f \in Injection(Dom, T)
  <2> HIDE DEF f, T
  <2>1. QED
    BY <1>16, <1>17 DEF Injection, IsInjective
<1>22. Cardinality(Dom) <= Cardinality(T)
  <2> HIDE DEF f, T
  <2>1. QED
    BY <1>18, <1>21, FS_Injection
<1>23. QED
  BY <1>18, <1>20, <1>22

\* The maximum out-degree is always the smallest possible ("the exact algorithm
\* maintains an optimal edge orientation during both insertions and deletions").
THEOREM StaysOptimal == Spec => []Optimal
<1>1. IInv => Optimal
  BY NoGapOptimal DEF IInv, TypeOK, Oriented, NoImprovingPath, NoGap, Optimal
<1>2. QED
  BY <1>1, InitNoImprovingPath, NextKeepsInvariant, PTL DEF Spec

\* Every call is an update of module OptimalOrientation: it changes the graph by one
\* edge and leaves an optimal orientation of the new graph.
THEOREM Refinement == Spec => Implements
<1>1. Init => Abstract!Init
  BY DEF Init, Abstract!Init, NoArcs, Abstract!NoArcs
<1>2. IInv /\ IInv' /\ [Next]_vars => [Abstract!NextOptimal]_vars
  <2> SUFFICES ASSUME IInv, IInv', Next PROVE Abstract!NextOptimal
    OBVIOUS
  <2>1. PICK source \in Node, target \in Node :
          handleInsertion(source, target) \/ handleDeletion(source, target)
    BY DEF Next
  <2>2. m_adj' \in Digraph /\ IsOrientation(m_adj', edges')
    BY DEF IInv, TypeOK, Oriented
  <2>3. IsOptimal(m_adj', edges')
    BY <2>2, NoGapOptimal DEF IInv, TypeOK, NoImprovingPath, NoGap
  <2>4. Abstract!IsOptimal(m_adj', edges')
    <3>1. \A T : Abstract!Cardinality(T) = Cardinality(T)
      BY DEF Cardinality, Abstract!Cardinality
    <3>2. QED
      BY <2>3, <3>1 DEF IsOptimal, TailChoices, OutDegree,
                        Abstract!IsOptimal, Abstract!TailChoices, Abstract!OutDegree
  <2>5. m_adj' \in Abstract!Digraph /\ Abstract!IsOrientation(m_adj', edges')
    BY <2>2 DEF IsOrientation, Digraph, Abstract!IsOrientation, Abstract!Digraph
  <2>6. CASE handleInsertion(source, target)
    <3>1. edges' = edges \cup {{source, target}}
      <4>1. {source, target} = {target, source}
        OBVIOUS
      <4>2. QED
        BY <2>6, <4>1 DEF handleInsertion, insertArc
    <3>2. Abstract!handleInsertion(source, target)
      BY <2>5, <2>6, <3>1 DEF handleInsertion, Abstract!handleInsertion, Abstract!Reorient
    <3>3. QED
      BY <2>4, <3>2 DEF Abstract!NextOptimal
  <2>7. CASE handleDeletion(source, target)
    <3>1. edges' = edges \ {{source, target}}
      <4>1. {source, target} = {target, source}
        OBVIOUS
      <4>2. QED
        BY <2>7, <4>1 DEF handleDeletion, deleteArc
    <3>2. Abstract!handleDeletion(source, target)
      BY <2>5, <2>7, <3>1 DEF handleDeletion, Abstract!handleDeletion, Abstract!Reorient
    <3>3. QED
      BY <2>4, <3>2 DEF Abstract!NextOptimal
  <2>8. QED
    BY <2>1, <2>6, <2>7
<1>3. QED
  BY <1>1, <1>2, InitNoImprovingPath, NextKeepsInvariant, PTL
     DEF Spec, Implements, Abstract!OptimalSpec, vars, Abstract!vars
(****************************************************************************)
(* What a call does to the out-degrees.                                     *)
(****************************************************************************)

\* From adj to adj2, v is the only node whose out-degree changes, by c.
OnlyChange(adj, adj2, v, c) ==
  /\ OutDegree(adj2, v) = OutDegree(adj, v) + c
  /\ \A x \in Node \ {v} : OutDegree(adj2, x) = OutDegree(adj, x)

\* The flip gives back to s what the new arc took; its last node has one more.
LEMMA InsertionChange ==
  ASSUME NEW adj, NEW E, IsOrientation(adj, E),
         NEW s \in Node, NEW t \in Node, s # t, {s, t} \notin E,
         NEW adj2 \in bfs_forward(WithArc(adj, s, t), s)
  PROVE  \E v \in Node : OnlyChange(adj, adj2, v, 1)
<1>1. PICK adj1 : adj1 = WithArc(adj, s, t)
  OBVIOUS
<1>2. IsOrientation(adj1, E \cup {{s, t}}) /\ OutDegree(adj1, s) = OutDegree(adj, s) + 1
  BY <1>1, WithArcFacts
<1>3. adj \in Digraph /\ adj1 \in Digraph
  BY <1>2 DEF IsOrientation
<1>4. OnlyChange(adj, adj1, s, 1)
  BY <1>1, <1>2, <1>3, WithArcOthers DEF OnlyChange
<1>5. CASE adj2 = adj1
  BY <1>4, <1>5
<1>6. CASE \E p \in ForwardPaths(adj1, s) : adj2 = FlipPath(adj1, p)
  <2>1. PICK p \in ForwardPaths(adj1, s) : adj2 = FlipPath(adj1, p)
    BY <1>6
  <2>2. /\ IsSearchPath(adj1, p, OutDegree(adj1, s) - 1)
        /\ p[1] = s /\ OutDegree(adj1, p[Len(p)]) < OutDegree(adj1, s) - 1
    BY <1>3, <2>1, ForwardPathFacts
  <2>3. PICK v : v = p[Len(p)]
    OBVIOUS
  <2>4. /\ p \in Seq(Node) /\ IsPath(adj1, p) /\ Simple(p) /\ Len(p) >= 2
        /\ v \in Node
    BY <2>2, <2>3 DEF IsSearchPath
  <2>5. \A x \in Node : OutDegree(adj1, x) \in Nat /\ OutDegree(adj, x) \in Nat
    BY <1>3, DegreeType
  <2>6. v # s
    BY <2>2, <2>3, <2>5
  <2>7. \A x \in Node :
          /\ x = s => OutDegree(adj2, x) = OutDegree(adj1, x) - 1
          /\ x = v => OutDegree(adj2, x) = OutDegree(adj1, x) + 1
          /\ x # s /\ x # v => OutDegree(adj2, x) = OutDegree(adj1, x)
    BY <1>2, <2>1, <2>2, <2>3, <2>4, FlipDegrees
  <2>8. OnlyChange(adj, adj2, v, 1)
    <3>1. OutDegree(adj2, v) = OutDegree(adj, v) + 1
      BY <1>4, <2>4, <2>6, <2>7 DEF OnlyChange
    <3>2. OutDegree(adj2, s) = OutDegree(adj, s)
      BY <1>2, <2>5, <2>7
    <3>3. ASSUME NEW x \in Node, x # v, x # s PROVE OutDegree(adj2, x) = OutDegree(adj, x)
      BY <1>4, <2>7, <3>3 DEF OnlyChange
    <3>4. QED
      BY <3>1, <3>2, <3>3 DEF OnlyChange
  <2>9. QED
    BY <2>4, <2>8
<1>7. QED
  BY <1>1, <1>5, <1>6 DEF bfs_forward, Flipped, Shortest

\* The flip gives s what the deletion took; its first node has one less.
LEMMA DeletionChange ==
  ASSUME NEW adj, NEW E, IsOrientation(adj, E),
         NEW s \in Node, NEW t \in Node, t \in adj[s],
         NEW adj2 \in bfs_backward(WithoutArc(adj, s, t), s)
  PROVE  \E v \in Node : OnlyChange(adj, adj2, v, -1)
<1>1. PICK adj1 : adj1 = WithoutArc(adj, s, t)
  OBVIOUS
<1>2. IsOrientation(adj1, E \ {{s, t}}) /\ OutDegree(adj1, s) = OutDegree(adj, s) - 1
  BY <1>1, WithoutArcFacts
<1>3. adj \in Digraph /\ adj1 \in Digraph
  BY <1>2 DEF IsOrientation
<1>4. \A x \in Node : OutDegree(adj1, x) \in Nat /\ OutDegree(adj, x) \in Nat
  BY <1>3, DegreeType
<1>5. OnlyChange(adj, adj1, s, -1)
  BY <1>1, <1>2, <1>3, <1>4, WithoutArcOthers DEF OnlyChange
<1>6. CASE adj2 = adj1
  BY <1>5, <1>6
<1>7. CASE \E p \in BackwardPaths(adj1, s) : adj2 = FlipPath(adj1, p)
  <2>1. PICK p \in BackwardPaths(adj1, s) : adj2 = FlipPath(adj1, p)
    BY <1>7
  <2>2. /\ IsSearchPath(adj1, p, OutDegree(adj1, s) + 1)
        /\ p[Len(p)] = s /\ OutDegree(adj1, p[1]) > OutDegree(adj1, s) + 1
    BY <1>3, <2>1, BackwardPathFacts
  <2>3. PICK v : v = p[1]
    OBVIOUS
  <2>4. /\ p \in Seq(Node) /\ IsPath(adj1, p) /\ Simple(p) /\ Len(p) >= 2
        /\ v \in Node
    BY <2>2, <2>3 DEF IsSearchPath
  <2>5. v # s
    BY <1>4, <2>2, <2>3
  <2>6. \A x \in Node :
          /\ x = v => OutDegree(adj2, x) = OutDegree(adj1, x) - 1
          /\ x = s => OutDegree(adj2, x) = OutDegree(adj1, x) + 1
          /\ x # s /\ x # v => OutDegree(adj2, x) = OutDegree(adj1, x)
    BY <1>2, <2>1, <2>2, <2>3, <2>4, FlipDegrees
  <2>7. OnlyChange(adj, adj2, v, -1)
    <3>1. OutDegree(adj2, v) = OutDegree(adj, v) + -1
      BY <1>4, <1>5, <2>4, <2>5, <2>6 DEF OnlyChange
    <3>2. OutDegree(adj2, s) = OutDegree(adj, s)
      BY <1>2, <1>4, <2>6
    <3>3. ASSUME NEW x \in Node, x # v, x # s PROVE OutDegree(adj2, x) = OutDegree(adj, x)
      BY <1>5, <2>6, <3>3 DEF OnlyChange
    <3>4. QED
      BY <3>1, <3>2, <3>3 DEF OnlyChange
  <2>8. QED
    BY <2>4, <2>7
<1>8. QED
  BY <1>1, <1>6, <1>7 DEF bfs_backward, Flipped, Shortest

\* Every call moves the out-degree of exactly one node, by what it adds to or takes
\* from the number of edges, whichever path it flips.
THEOREM OneDegreePerCall == Spec => OneDegreeChanges
<1> DEFINE OneChange == \E v \in Node :
             /\ DegreeChanges = {v}
             /\ OutDegree(m_adj, v)' - OutDegree(m_adj, v)
                  = Cardinality(edges') - Cardinality(edges)
<1>1. ASSUME IInv, Next PROVE OneChange
  <2>1. IsFiniteSet(edges) /\ Cardinality(edges) \in Nat
    <3>1. IsFiniteSet(SUBSET Node)
      BY NodeAssumption, FS_SUBSET
    <3>2. edges \subseteq SUBSET Node
      BY <1>1 DEF IInv, TypeOK, Edge
    <3>3. QED
      BY <3>1, <3>2, FS_Subset, FS_CardinalityType
  <2>2. TypeOK /\ Oriented /\ IsOrientation(m_adj, edges)
    BY <1>1 DEF IInv, Oriented
  <2>3. \A v \in Node : OutDegree(m_adj, v) \in Nat
    BY <2>2, DegreeType DEF TypeOK
  <2>4. ASSUME NEW v \in Node, NEW c \in {1, -1}, OnlyChange(m_adj, m_adj', v, c),
               Cardinality(edges') = Cardinality(edges) + c
        PROVE  OneChange
    <3>1. OutDegree(m_adj, v)' = OutDegree(m_adj, v) + c
      BY <2>4 DEF OnlyChange, OutDegree
    <3>2. \A x \in Node \ {v} : OutDegree(m_adj, x)' = OutDegree(m_adj, x)
      BY <2>4 DEF OnlyChange, OutDegree
    <3>3. DegreeChanges = {v}
      BY <2>3, <2>4, <3>1, <3>2 DEF DegreeChanges
    <3>4. OutDegree(m_adj, v)' - OutDegree(m_adj, v) = Cardinality(edges') - Cardinality(edges)
      BY <2>1, <2>3, <2>4, <3>1
    <3>5. QED
      BY <3>3, <3>4
  <2>5. ASSUME NEW source \in Node, NEW target \in Node, handleInsertion(source, target)
        PROVE  OneChange
    <3>1. PICK s, t \in Node :
            /\ s # t /\ {s, t} \notin edges
            /\ edges' = edges \cup {{s, t}}
            /\ m_adj' \in bfs_forward(WithArc(m_adj, s, t), s)
      BY <2>2, <2>5, InsertionAddsArc
    <3>2. PICK v \in Node : OnlyChange(m_adj, m_adj', v, 1)
      BY <2>2, <3>1, InsertionChange
    <3>3. Cardinality(edges') = Cardinality(edges) + 1
      BY <2>1, <3>1, FS_AddElement
    <3>4. QED
      BY <2>4, <3>2, <3>3
  <2>6. ASSUME NEW source \in Node, NEW target \in Node, handleDeletion(source, target)
        PROVE  OneChange
    <3>1. PICK s, t \in Node :
            /\ t \in m_adj[s]
            /\ edges' = edges \ {{s, t}}
            /\ m_adj' \in bfs_backward(WithoutArc(m_adj, s, t), s)
      BY <2>2, <2>6, DeletionTakesArc
    <3>2. PICK v \in Node : OnlyChange(m_adj, m_adj', v, -1)
      BY <2>2, <3>1, DeletionChange
    <3>3. {s, t} \in edges
      BY <2>2, <3>1 DEF IsOrientation
    <3>4. Cardinality(edges') = Cardinality(edges) - 1
      BY <2>1, <3>1, <3>3, FS_RemoveElement
    <3>5. Cardinality(edges') = Cardinality(edges) + (-1)
      BY <2>1, <3>4
    <3>6. QED
      BY <2>4, <3>2, <3>5
  <2>7. QED
    BY <1>1, <2>5, <2>6 DEF Next
<1>2. IInv /\ [Next]_vars => [OneChange]_vars
  BY <1>1
<1> HIDE DEF OneChange
<1>3. Spec => [][OneChange]_vars
  BY <1>2, InitNoImprovingPath, NextKeepsInvariant, PTL DEF Spec
<1>4. QED
  BY <1>3 DEF OneDegreeChanges, OneChange

=============================================================================
