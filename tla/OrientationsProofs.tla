------------------------- MODULE OrientationsProofs -------------------------
(****************************************************************************)
(* Facts about the operators of module Orientations, for every set of nodes *)
(* and every digraph: what flipping a path does to an orientation and to    *)
(* the out-degrees, what reachability is good for, when a search that finds *)
(* nothing has excluded every improving path, and what the updates of the   *)
(* lists before a search do.                                                *)
(****************************************************************************)
EXTENDS Orientations, FiniteSetTheorems, TLAPS

(****************************************************************************)
(* Flipping a path.                                                         *)
(****************************************************************************)

\* p leads over the arc from v to w.
OnPath(p, v, w) == \E i \in 1..Len(p) - 1 : p[i] = v /\ p[i + 1] = w

\* The out-neighbours of v after the flip: those the path does not lead to from v,
\* and those it comes from to v.
LEMMA FlipMembers ==
  ASSUME NEW adj \in Digraph, NEW p \in Seq(Node), NEW v \in Node, NEW w
  PROVE  w \in FlipPath(adj, p)[v]
           <=> (w \in adj[v] /\ ~OnPath(p, v, w)) \/ OnPath(p, w, v)
BY DEF FlipPath, OnPath, Digraph

\* A flip gives a node of the path no out-neighbours but its old ones and nodes of
\* the path, and leaves the out-neighbours of the others as they are.
LEMMA FlipNeighbours ==
  ASSUME NEW adj \in Digraph, NEW p \in Seq(Node), NEW x \in Node, NEW y,
         y \in FlipPath(adj, p)[x]
  PROVE  y \in adj[x] \/ \E i, j \in 1..Len(p) : x = p[i] /\ y = p[j]
<1>1. (y \in adj[x] /\ ~OnPath(p, x, y)) \/ OnPath(p, y, x)
  BY FlipMembers
<1>2. CASE y \in adj[x]
  BY <1>2
<1>3. CASE OnPath(p, y, x)
  <2>1. PICK i \in 1..Len(p) - 1 : p[i] = y /\ p[i + 1] = x
    BY <1>3 DEF OnPath
  <2>2. i \in 1..Len(p) /\ i + 1 \in 1..Len(p)
    OBVIOUS
  <2>3. QED
    BY <2>1, <2>2
<1>4. QED
  BY <1>1, <1>2, <1>3

\* A flip turns arcs of the path and leaves the others: an orientation of the graph
\* stays one (FlipPath, the loop over flip_active_edge).
LEMMA FlipKeepsOrientation ==
  ASSUME NEW adj, NEW edges, IsOrientation(adj, edges),
         NEW p \in Seq(Node), IsPath(adj, p)
  PROVE  IsOrientation(FlipPath(adj, p), edges)
<1> DEFINE flip == FlipPath(adj, p)
<1>1. adj \in Digraph
  BY DEF IsOrientation
<1>2. \A v, w \in Node : OnPath(p, v, w) => w \in adj[v]
  BY DEF OnPath, IsPath
<1>3. \A v, w \in Node : w \in flip[v] <=> (w \in adj[v] /\ ~OnPath(p, v, w)) \/ OnPath(p, w, v)
  BY <1>1, FlipMembers
<1>4. flip \in Digraph
  <2>1. \A v \in Node : adj[v] \subseteq Node
    BY <1>1 DEF Digraph
  <2>2. \A i \in 1..Len(p) - 1 : p[i] \in Node
    OBVIOUS
  <2>3. flip = [v \in Node |-> (adj[v] \ {p[i + 1] : i \in {j \in 1..Len(p) - 1 : p[j] = v}})
                                 \cup {p[i] : i \in {j \in 1..Len(p) - 1 : p[j + 1] = v}}]
    BY DEF FlipPath
  <2>4. \A v \in Node : (adj[v] \ {p[i + 1] : i \in {j \in 1..Len(p) - 1 : p[j] = v}})
                          \cup {p[i] : i \in {j \in 1..Len(p) - 1 : p[j + 1] = v}} \in SUBSET Node
    BY <2>1, <2>2
  <2>5. QED
    BY <2>3, <2>4 DEF Digraph
<1>5. ASSUME NEW v \in Node, NEW w \in Node, w \in flip[v]
      PROVE  {v, w} \in edges /\ v \notin flip[w]
  <2>1. {v, w} = {w, v}
    OBVIOUS
  <2>2. CASE w \in adj[v] /\ ~OnPath(p, v, w)
    <3>1. {v, w} \in edges /\ v \notin adj[w]
      BY <2>2 DEF IsOrientation
    <3>2. QED
      BY <1>3, <2>2, <3>1
  <2>3. CASE OnPath(p, w, v)
    <3>1. v \in adj[w]
      BY <1>2, <2>3
    <3>2. {w, v} \in edges /\ w \notin adj[v]
      BY <3>1 DEF IsOrientation
    <3>3. QED
      BY <1>2, <1>3, <2>1, <2>3, <3>2
  <2>4. QED
    BY <1>3, <1>5, <2>2, <2>3
<1>6. ASSUME NEW v \in Node, NEW w \in Node, {v, w} \in edges
      PROVE  w \in flip[v] \/ v \in flip[w]
  <2>1. w \in adj[v] \/ v \in adj[w]
    BY <1>6 DEF IsOrientation
  <2>2. QED
    BY <1>3, <2>1
<1>7. QED
  BY <1>4, <1>5, <1>6 DEF IsOrientation

(****************************************************************************)
(* Degrees.                                                                 *)
(****************************************************************************)

\* Out-degrees are natural numbers, as the set of nodes is finite.
LEMMA DegreeType ==
  ASSUME NEW adj \in Digraph, NEW v \in Node
  PROVE  IsFiniteSet(adj[v]) /\ OutDegree(adj, v) \in Nat
<1>1. adj[v] \in SUBSET Node
  BY DEF Digraph
<1>2. IsFiniteSet(adj[v])
  BY <1>1, NodeAssumption, FS_Subset
<1>3. QED
  BY <1>2, FS_CardinalityType DEF OutDegree

\* p visits no node twice.
Simple(p) == \A i, j \in 1..Len(p) : p[i] = p[j] => i = j

\* Flipping a simple path takes one out-neighbour from its first node, gives one to
\* its last, and leaves every other out-degree as it is.
LEMMA FlipDegrees ==
  ASSUME NEW adj, NEW edges, IsOrientation(adj, edges),
         NEW p \in Seq(Node), IsPath(adj, p), Simple(p), Len(p) >= 2,
         NEW v \in Node
  PROVE  /\ v = p[1] => OutDegree(FlipPath(adj, p), v) = OutDegree(adj, v) - 1
         /\ v = p[Len(p)] => OutDegree(FlipPath(adj, p), v) = OutDegree(adj, v) + 1
         /\ v # p[1] /\ v # p[Len(p)] => OutDegree(FlipPath(adj, p), v) = OutDegree(adj, v)
<1> DEFINE flip == FlipPath(adj, p)
           n == Len(p)
<1>1. adj \in Digraph /\ flip \in Digraph
  BY FlipKeepsOrientation DEF IsOrientation
<1>2. n \in Nat /\ n >= 2 /\ \A i \in 1..n : p[i] \in Node
  OBVIOUS
<1>3. \A x, y \in Node : y \in adj[x] => x \notin adj[y]
  BY DEF IsOrientation
<1>4. \A i \in 1..n - 1 : p[i + 1] \in adj[p[i]]
  BY DEF IsPath
<1>5. \A i, j \in 1..n : p[i] = p[j] => i = j
  BY DEF Simple
<1>6. \A w : w \in flip[v] <=> (w \in adj[v] /\ ~OnPath(p, v, w)) \/ OnPath(p, w, v)
  BY <1>1, FlipMembers
<1>7. IsFiniteSet(adj[v]) /\ OutDegree(adj, v) \in Nat
  BY <1>1, DegreeType
<1>8. CASE v = p[1]
  <2>1. \A w : OnPath(p, v, w) <=> w = p[2]
    BY <1>2, <1>5, <1>8 DEF OnPath
  <2>2. \A w : ~OnPath(p, w, v)
    <3>1. \A i \in 1..n - 1 : p[i + 1] # p[1]
      BY <1>2, <1>5
    <3>2. QED
      BY <3>1, <1>8 DEF OnPath
  <2>3. flip[v] = adj[v] \ {p[2]}
    BY <1>6, <2>1, <2>2
  <2>4. p[2] \in adj[v]
    BY <1>2, <1>4, <1>8
  <2>5. Cardinality(adj[v] \ {p[2]}) = Cardinality(adj[v]) - 1
    BY <1>7, <2>4, FS_RemoveElement
  <2>6. v # p[n]
    BY <1>2, <1>5, <1>8
  <2>7. QED
    BY <1>8, <2>3, <2>5, <2>6 DEF OutDegree
<1>9. CASE v = p[n]
  <2>1. \A w : OnPath(p, w, v) <=> w = p[n - 1]
    <3>1. \A i \in 1..n - 1 : p[i + 1] = p[n] => i = n - 1
      BY <1>2, <1>5
    <3>2. n - 1 \in 1..n - 1 /\ (n - 1) + 1 = n
      BY <1>2
    <3>3. QED
      BY <3>1, <3>2, <1>9 DEF OnPath
  <2>2. \A w : ~OnPath(p, v, w)
    <3>1. \A i \in 1..n - 1 : p[i] # p[n]
      BY <1>2, <1>5
    <3>2. QED
      BY <3>1, <1>9 DEF OnPath
  <2>3. flip[v] = adj[v] \cup {p[n - 1]}
    BY <1>6, <2>1, <2>2
  <2>4. p[n - 1] \notin adj[v]
    <3>1. p[(n - 1) + 1] \in adj[p[n - 1]]
      BY <1>2, <1>4
    <3>2. QED
      BY <3>1, <1>2, <1>3, <1>9
  <2>5. Cardinality(adj[v] \cup {p[n - 1]}) = Cardinality(adj[v]) + 1
    BY <1>7, <2>4, FS_AddElement
  <2>6. v # p[1]
    BY <1>2, <1>5, <1>9
  <2>7. QED
    BY <1>9, <2>3, <2>5, <2>6 DEF OutDegree
<1>10. CASE v # p[1] /\ v # p[n] /\ \E j \in 1..n : v = p[j]
  <2>1. PICK j \in 2..n - 1 : v = p[j]
    <3>1. PICK j \in 1..n : v = p[j]
      BY <1>10
    <3>2. j # 1 /\ j # n
      BY <3>1, <1>10
    <3>3. j \in 2..n - 1
      BY <3>2, <1>2
    <3>4. QED
      BY <3>1, <3>3
  <2>2. j - 1 \in 1..n - 1 /\ (j - 1) + 1 = j /\ j \in 1..n - 1
    BY <1>2, <2>1
  <2>3. \A w : OnPath(p, v, w) <=> w = p[j + 1]
    BY <1>2, <1>5, <2>1, <2>2 DEF OnPath
  <2>4. \A w : OnPath(p, w, v) <=> w = p[j - 1]
    <3>1. \A i \in 1..n - 1 : p[i + 1] = p[j] => i = j - 1
      BY <1>2, <1>5, <2>1
    <3>2. QED
      BY <3>1, <2>1, <2>2 DEF OnPath
  <2>5. flip[v] = (adj[v] \ {p[j + 1]}) \cup {p[j - 1]}
    BY <1>6, <2>3, <2>4, <1>2, <1>5, <2>1
  <2>6. p[j + 1] \in adj[v] /\ p[j - 1] \notin adj[v]
    <3>1. p[(j - 1) + 1] \in adj[p[j - 1]]
      BY <2>2, <1>4
    <3>2. p[j - 1] \in Node
      BY <2>2, <1>2
    <3>3. QED
      BY <1>3, <1>4, <2>1, <2>2, <3>1, <3>2
  <2>7. IsFiniteSet(adj[v] \ {p[j + 1]}) /\ Cardinality(adj[v] \ {p[j + 1]}) = Cardinality(adj[v]) - 1
    BY <1>7, <2>6, FS_RemoveElement
  <2>8. Cardinality((adj[v] \ {p[j + 1]}) \cup {p[j - 1]}) = (Cardinality(adj[v]) - 1) + 1
    BY <2>6, <2>7, FS_AddElement
  <2>9. QED
    BY <1>7, <1>10, <2>5, <2>8 DEF OutDegree
<1>11. CASE ~\E j \in 1..n : v = p[j]
  <2>1. \A w : ~OnPath(p, v, w) /\ ~OnPath(p, w, v)
    BY <1>2, <1>11 DEF OnPath
  <2>2. flip[v] = adj[v]
    BY <1>6, <2>1
  <2>3. v # p[1] /\ v # p[n]
    BY <1>2, <1>11
  <2>4. QED
    BY <2>2, <2>3 DEF OutDegree
<1>12. QED
  BY <1>8, <1>9, <1>10, <1>11

(****************************************************************************)
(* Reachability.                                                            *)
(****************************************************************************)

\* Reachable nodes are nodes.
LEMMA ReachableSubset == ASSUME NEW adj, NEW u PROVE Reachable(adj, u) \subseteq Node
BY DEF Reachable

\* A node reaches itself.
LEMMA ReachableReflexive == ASSUME NEW adj, NEW u \in Node PROVE u \in Reachable(adj, u)
BY DEF Reachable

\* What is reachable lies in every closed set around the start.
LEMMA ReachableInClosed ==
  ASSUME NEW adj, NEW u \in Node, NEW S \in SUBSET Node, u \in S, IsClosed(adj, S)
  PROVE  Reachable(adj, u) \subseteq S
BY DEF Reachable

\* No arc leaves the nodes that u reaches.
LEMMA ReachableClosed ==
  ASSUME NEW adj \in Digraph, NEW u \in Node
  PROVE  IsClosed(adj, Reachable(adj, u))
<1> SUFFICES ASSUME NEW x \in Reachable(adj, u), NEW y \in adj[x]
             PROVE  y \in Reachable(adj, u)
  BY DEF IsClosed
<1>1. x \in Node /\ y \in Node
  BY DEF Reachable, Digraph
<1>2. ASSUME NEW S \in SUBSET Node, u \in S, IsClosed(adj, S)
      PROVE  y \in S
  <2>1. x \in S
    BY <1>2 DEF Reachable
  <2>2. QED
    BY <1>2, <2>1 DEF IsClosed
<1>3. QED
  BY <1>1, <1>2 DEF Reachable

\* What v reaches, a node that reaches v reaches.
LEMMA ReachableTransitive ==
  ASSUME NEW adj \in Digraph, NEW u \in Node, NEW v \in Reachable(adj, u)
  PROVE  Reachable(adj, v) \subseteq Reachable(adj, u)
<1>1. v \in Node /\ Reachable(adj, u) \in SUBSET Node
  BY ReachableSubset
<1>2. QED
  BY <1>1, ReachableClosed, ReachableInClosed

\* A node reaches its out-neighbours.
LEMMA ReachableStep ==
  ASSUME NEW adj \in Digraph, NEW u \in Node, NEW v \in adj[u]
  PROVE  v \in Reachable(adj, u)
BY ReachableReflexive, ReachableClosed DEF IsClosed

\* Induction along an interval, from the finiteness of its subsets: a set that holds
\* a and the successor of each of its members up to b holds b.  (If it did not, the
\* successor would inject it into itself without a.)
LEMMA IntervalInduction ==
  ASSUME NEW a \in Nat, NEW b \in Nat, a <= b,
         NEW J \in SUBSET (a..b), a \in J, \A j \in J : j < b => j + 1 \in J
  PROVE  b \in J
<1> SUFFICES ASSUME b \notin J PROVE FALSE
  OBVIOUS
<1> DEFINE next == [j \in J |-> j + 1]
<1>1. IsFiniteSet(J)
  <2>1. IsFiniteSet(a..b)
    BY FS_Interval
  <2>2. QED
    BY <2>1, FS_Subset
<1>2. IsFiniteSet(J \ {a}) /\ Cardinality(J \ {a}) = Cardinality(J) - 1
  BY <1>1, FS_RemoveElement
<1>3. Cardinality(J) \in Nat
  BY <1>1, FS_CardinalityType
<1>4. next \in Injection(J, J \ {a})
  <2>1. \A j \in J : j \in Int /\ j < b /\ j >= a
    OBVIOUS
  <2>2. \A j \in J : j + 1 \in J \ {a}
    BY <2>1
  <2>3. QED
    BY <2>1, <2>2 DEF Injection, IsInjective
<1>5. Cardinality(J) <= Cardinality(J \ {a})
  BY <1>2, <1>4, FS_Injection
<1>6. QED
  BY <1>2, <1>3, <1>5

\* The nodes of a path are reachable from those before them.
LEMMA PathReaches ==
  ASSUME NEW adj \in Digraph, NEW p \in Seq(Node),
         NEW i \in 1..Len(p), NEW k \in i..Len(p),
         \A j \in i..k - 1 : p[j + 1] \in adj[p[j]]
  PROVE  p[k] \in Reachable(adj, p[i])
<1>1. Len(p) \in Nat /\ \A j \in 1..Len(p) : p[j] \in Node
  OBVIOUS
<1>2. i \in Nat /\ k \in Nat /\ i <= k
  BY <1>1
<1> SUFFICES ASSUME NEW S \in SUBSET Node, p[i] \in S, IsClosed(adj, S)
             PROVE  p[k] \in S
  BY <1>1, <1>2 DEF Reachable
<1> DEFINE J == {j \in i..k : p[j] \in S}
<1>3. i \in J
  BY <1>2
<1>4. \A j \in J : j < k => j + 1 \in J
  <2> SUFFICES ASSUME NEW j \in J, j < k PROVE j + 1 \in J
    OBVIOUS
  <2>1. j \in i..k - 1 /\ j + 1 \in i..k /\ p[j] \in S
    BY <1>2
  <2>2. p[j + 1] \in adj[p[j]]
    BY <2>1
  <2>3. QED
    BY <2>1, <2>2 DEF IsClosed
<1>5. k \in J
  <2> HIDE DEF J
  <2>1. J \in SUBSET (i..k)
    BY DEF J
  <2>2. QED
    BY <1>2, <1>3, <1>4, <2>1, IntervalInduction
<1>6. QED
  BY <1>5

\* A path does not leave a closed set.
LEMMA PathInClosed ==
  ASSUME NEW adj \in Digraph, NEW H \in SUBSET Node, IsClosed(adj, H),
         NEW p \in Seq(Node), IsPath(adj, p),
         NEW i \in 1..Len(p), p[i] \in H, NEW k \in i..Len(p)
  PROVE  p[k] \in H
<1>1. \A j \in i..k - 1 : p[j + 1] \in adj[p[j]]
  BY DEF IsPath
<1>2. p[k] \in Reachable(adj, p[i])
  BY <1>1, PathReaches
<1>3. QED
  BY <1>2, ReachableInClosed

\* A set stays closed when a path is flipped that does not come into it from outside.
LEMMA FlipKeepsClosed ==
  ASSUME NEW adj \in Digraph, NEW H \in SUBSET Node, IsClosed(adj, H),
         NEW p \in Seq(Node), IsPath(adj, p),
         p[Len(p)] \in H => p[1] \in H
  PROVE  IsClosed(FlipPath(adj, p), H)
<1> SUFFICES ASSUME NEW x \in H, NEW y \in FlipPath(adj, p)[x]
             PROVE  y \in H
  BY DEF IsClosed
<1>1. (y \in adj[x] /\ ~OnPath(p, x, y)) \/ OnPath(p, y, x)
  BY FlipMembers
<1>2. CASE y \in adj[x]
  BY <1>2 DEF IsClosed
<1>3. CASE OnPath(p, y, x)
  <2>1. PICK i \in 1..Len(p) - 1 : p[i] = y /\ p[i + 1] = x
    BY <1>3 DEF OnPath
  <2>2. i + 1 \in 1..Len(p) /\ Len(p) \in (i + 1)..Len(p) /\ 1 \in 1..Len(p) /\ i \in 1..Len(p)
    OBVIOUS
  <2>3. p[Len(p)] \in H
    BY <2>1, <2>2, PathInClosed
  <2>4. QED
    BY <2>1, <2>2, <2>3, PathInClosed
<1>4. QED
  BY <1>1, <1>2, <1>3

(****************************************************************************)
(* Numbering sets.                                                          *)
(****************************************************************************)

\* A set of at most k elements can be numbered from 1 to k.
LEMMA Numbering ==
  ASSUME NEW T, IsFiniteSet(T), NEW k \in Nat, Cardinality(T) <= k
  PROVE  \E g \in [T -> 1..k] : \A a, b \in T : g[a] = g[b] => a = b
<1>1. PICK c \in Nat : c = Cardinality(T) /\ c <= k
  BY FS_CardinalityType
<1>2. PICK f \in Bijection(1..c, T) : TRUE
  BY <1>1, FS_CardinalityType DEF ExistsBijection
<1>3. f \in [1..c -> T] /\ \A a \in T : \E i \in 1..c : f[i] = a
  BY <1>2 DEF Bijection, Surjection
<1> DEFINE g == [a \in T |-> CHOOSE i \in 1..c : f[i] = a]
<1>4. \A a \in T : g[a] \in 1..c /\ f[g[a]] = a
  BY <1>3
<1>5. \A i \in 1..c : i \in 1..k
  BY <1>1
<1>6. g \in [T -> 1..k]
  BY <1>4, <1>5
<1>7. \A a, b \in T : g[a] = g[b] => a = b
  BY <1>4
<1>8. QED
  BY <1>6, <1>7

\* A set of at least k elements holds k distinct ones.
LEMMA Choosing ==
  ASSUME NEW T, IsFiniteSet(T), NEW k \in Nat, Cardinality(T) >= k
  PROVE  \E h \in [1..k -> T] : \A i, j \in 1..k : h[i] = h[j] => i = j
<1>1. PICK c \in Nat : c = Cardinality(T) /\ k <= c
  BY FS_CardinalityType
<1>2. PICK f \in Bijection(1..c, T) : TRUE
  BY <1>1, FS_CardinalityType DEF ExistsBijection
<1>3. f \in [1..c -> T] /\ \A i, j \in 1..c : f[i] = f[j] => i = j
  BY <1>2 DEF Bijection, Injection, IsInjective
<1> DEFINE h == [i \in 1..k |-> f[i]]
<1>4. \A i \in 1..k : i \in 1..c
  BY <1>1
<1>5. h \in [1..k -> T]
  BY <1>3, <1>4
<1>6. \A i, j \in 1..k : h[i] = h[j] => i = j
  BY <1>3, <1>4
<1>7. QED
  BY <1>5, <1>6

(****************************************************************************)
(* What the searches return.                                                *)
(****************************************************************************)

\* m without repetition, over nodes that are none of the two ends.
LEMMA ArrangementSeq ==
  ASSUME NEW S, NEW m \in Arrangements(S)
  PROVE  /\ m \in Seq(S)
         /\ \A i, j \in 1..Len(m) : m[i] = m[j] => i = j
BY DEF Arrangements

\* Every sequence over S without repetition is an arrangement of S: it is not longer
\* than S is large.
LEMMA SeqIsArrangement ==
  ASSUME NEW S, IsFiniteSet(S), NEW m \in Seq(S),
         \A i, j \in 1..Len(m) : m[i] = m[j] => i = j
  PROVE  m \in Arrangements(S)
<1>1. Len(m) \in Nat /\ m \in [1..Len(m) -> S]
  OBVIOUS
<1>2. m \in Injection(1..Len(m), S)
  BY <1>1 DEF Injection, IsInjective
<1>3. Cardinality(1..Len(m)) <= Cardinality(S)
  BY <1>2, FS_Injection
<1>4. Cardinality(1..Len(m)) = Len(m)
  BY <1>1, FS_Interval
<1>5. Cardinality(S) \in Nat
  BY FS_CardinalityType
<1>6. Len(m) \in 0..Cardinality(S)
  BY <1>1, <1>3, <1>4, <1>5
<1>7. QED
  BY <1>1, <1>6 DEF Arrangements

\* p is m between u and v.
IsJoined(p, u, m, v) ==
  /\ p \in Seq(Node)
  /\ Len(p) = Len(m) + 2
  /\ p[1] = u
  /\ p[Len(m) + 2] = v
  /\ \A i \in 2..Len(m) + 1 : p[i] = m[i - 1]

\* The entries of a joined sequence.
LEMMA JoinedFacts ==
  ASSUME NEW u \in Node, NEW v \in Node, NEW m \in Seq(Node)
  PROVE  IsJoined(Joined(u, m, v), u, m, v)
<1> DEFINE p == <<u>> \o m \o <<v>>
<1>1. /\ p \in Seq(Node)
      /\ Len(p) = Len(m) + 2
      /\ p[1] = u
      /\ p[Len(m) + 2] = v
      /\ \A i \in 2..Len(m) + 1 : p[i] = m[i - 1]
  OBVIOUS
<1>2. QED
  BY <1>1 DEF Joined, IsJoined

\* A path a search flips: simple, from its first node to its last, over nodes whose
\* out-degree is the given one.
IsSearchPath(adj, p, mid) ==
  /\ p \in Seq(Node) /\ Len(p) >= 2
  /\ IsPath(adj, p)
  /\ Simple(p)
  /\ \A i \in 2..Len(p) - 1 : OutDegree(adj, p[i]) = mid

\* The results of bfs_forward are such paths, from s to a node at least two below.
LEMMA ForwardPathFacts ==
  ASSUME NEW adj \in Digraph, NEW s \in Node, NEW p \in ForwardPaths(adj, s)
  PROVE  /\ IsSearchPath(adj, p, OutDegree(adj, s) - 1)
         /\ p[1] = s
         /\ OutDegree(adj, p[Len(p)]) < OutDegree(adj, s) - 1
<1> DEFINE d == OutDegree(adj, s)
           mid == WithDegree(adj, d - 1)
<1>1. PICK m \in Arrangements(mid), v \in Node :
        p = Joined(s, m, v) /\ OutDegree(adj, v) < d - 1 /\ IsPath(adj, p)
  BY DEF ForwardPaths
<1>2. d \in Nat /\ \A x \in Node : OutDegree(adj, x) \in Nat
  BY DegreeType
<1>3. m \in Seq(mid) /\ \A i, j \in 1..Len(m) : m[i] = m[j] => i = j
  BY ArrangementSeq
<1>4. \A i \in 1..Len(m) : m[i] \in Node /\ OutDegree(adj, m[i]) = d - 1
  BY <1>3 DEF WithDegree
<1>5. m \in Seq(Node) /\ Len(m) \in Nat
  BY <1>3, <1>4
<1>6. /\ p \in Seq(Node)
      /\ Len(p) = Len(m) + 2
      /\ p[1] = s
      /\ p[Len(p)] = v
      /\ \A i \in 2..Len(p) - 1 : p[i] = m[i - 1]
  BY <1>1, <1>5 DEF Joined
<1>7. \A i \in 2..Len(p) - 1 : i - 1 \in 1..Len(m)
  BY <1>5, <1>6
<1>8. \A i \in 2..Len(p) - 1 : OutDegree(adj, p[i]) = d - 1
  BY <1>4, <1>6, <1>7
<1>9. Simple(p)
  <2> SUFFICES ASSUME NEW i \in 1..Len(p), NEW j \in 1..Len(p), p[i] = p[j]
               PROVE  i = j
    BY DEF Simple
  <2>1. i = 1 \/ i = Len(p) \/ i \in 2..Len(p) - 1
    BY <1>5, <1>6
  <2>2. j = 1 \/ j = Len(p) \/ j \in 2..Len(p) - 1
    BY <1>5, <1>6
  <2>3. CASE i \in 2..Len(p) - 1 /\ j \in 2..Len(p) - 1
    <3>1. m[i - 1] = m[j - 1]
      BY <1>6, <2>3
    <3>2. i - 1 = j - 1
      BY <1>3, <1>7, <2>3, <3>1
    <3>3. QED
      BY <3>2
  <2>4. OutDegree(adj, v) \in Int /\ d \in Int
    BY <1>2
  <2>5. OutDegree(adj, p[1]) = d /\ OutDegree(adj, p[Len(p)]) < d - 1
    BY <1>1, <1>6
  <2>6. QED
    BY <1>8, <2>1, <2>2, <2>3, <2>4, <2>5, <1>6
<1>10. QED
  BY <1>1, <1>5, <1>6, <1>8, <1>9 DEF IsSearchPath

\* The results of bfs_backward, from a node at least two above to s.
LEMMA BackwardPathFacts ==
  ASSUME NEW adj \in Digraph, NEW s \in Node, NEW p \in BackwardPaths(adj, s)
  PROVE  /\ IsSearchPath(adj, p, OutDegree(adj, s) + 1)
         /\ p[Len(p)] = s
         /\ OutDegree(adj, p[1]) > OutDegree(adj, s) + 1
<1> DEFINE d == OutDegree(adj, s)
           mid == WithDegree(adj, d + 1)
<1>1. PICK m \in Arrangements(mid), v \in Node :
        p = Joined(v, m, s) /\ OutDegree(adj, v) > d + 1 /\ IsPath(adj, p)
  BY DEF BackwardPaths
<1>2. d \in Nat /\ \A x \in Node : OutDegree(adj, x) \in Nat
  BY DegreeType
<1>3. m \in Seq(mid) /\ \A i, j \in 1..Len(m) : m[i] = m[j] => i = j
  BY ArrangementSeq
<1>4. \A i \in 1..Len(m) : m[i] \in Node /\ OutDegree(adj, m[i]) = d + 1
  BY <1>3 DEF WithDegree
<1>5. m \in Seq(Node) /\ Len(m) \in Nat
  BY <1>3, <1>4
<1>6. /\ p \in Seq(Node)
      /\ Len(p) = Len(m) + 2
      /\ p[1] = v
      /\ p[Len(p)] = s
      /\ \A i \in 2..Len(p) - 1 : p[i] = m[i - 1]
  BY <1>1, <1>5 DEF Joined
<1>7. \A i \in 2..Len(p) - 1 : i - 1 \in 1..Len(m)
  BY <1>5, <1>6
<1>8. \A i \in 2..Len(p) - 1 : OutDegree(adj, p[i]) = d + 1
  BY <1>4, <1>6, <1>7
<1>9. Simple(p)
  <2> SUFFICES ASSUME NEW i \in 1..Len(p), NEW j \in 1..Len(p), p[i] = p[j]
               PROVE  i = j
    BY DEF Simple
  <2>1. i = 1 \/ i = Len(p) \/ i \in 2..Len(p) - 1
    BY <1>5, <1>6
  <2>2. j = 1 \/ j = Len(p) \/ j \in 2..Len(p) - 1
    BY <1>5, <1>6
  <2>3. CASE i \in 2..Len(p) - 1 /\ j \in 2..Len(p) - 1
    <3>1. m[i - 1] = m[j - 1]
      BY <1>6, <2>3
    <3>2. i - 1 = j - 1
      BY <1>3, <1>7, <2>3, <3>1
    <3>3. QED
      BY <3>2
  <2>4. OutDegree(adj, v) \in Int /\ d \in Int
    BY <1>2
  <2>5. OutDegree(adj, p[1]) > d + 1 /\ OutDegree(adj, p[Len(p)]) = d
    BY <1>1, <1>6
  <2>6. QED
    BY <1>8, <2>1, <2>2, <2>3, <2>4, <2>5, <1>6
<1>10. QED
  BY <1>1, <1>5, <1>6, <1>8, <1>9 DEF IsSearchPath

\* From adj to adj2 one out-neighbour is taken from v and one is given to w.
DegreeMoved(adj, adj2, v, w) ==
  /\ OutDegree(adj2, v) = OutDegree(adj, v) - 1
  /\ OutDegree(adj2, w) = OutDegree(adj, w) + 1
  /\ \A x \in Node \ {v, w} : OutDegree(adj2, x) = OutDegree(adj, x)

\* Flipping a path that bfs_forward finds levels the out-degrees of its ends.
LEMMA ForwardFlipMoves ==
  ASSUME NEW adj, NEW E, IsOrientation(adj, E), NEW s \in Node,
         NEW p \in ForwardPaths(adj, s)
  PROVE  /\ p \in Seq(Node) /\ IsPath(adj, p) /\ Len(p) >= 2
         /\ p[1] = s /\ p[Len(p)] \in Node \ {s}
         /\ OutDegree(adj, p[Len(p)]) < OutDegree(adj, s) - 1
         /\ DegreeMoved(adj, FlipPath(adj, p), s, p[Len(p)])
<1>1. adj \in Digraph
  BY DEF IsOrientation
<1>2. /\ p \in Seq(Node) /\ IsPath(adj, p) /\ Simple(p) /\ Len(p) >= 2
      /\ p[1] = s
      /\ OutDegree(adj, p[Len(p)]) < OutDegree(adj, s) - 1
  BY <1>1, ForwardPathFacts DEF IsSearchPath
<1>3. p[Len(p)] \in Node
  BY <1>2
<1>4. p[Len(p)] # s
  <2>1. OutDegree(adj, s) \in Nat
    BY <1>1, DegreeType
  <2>2. QED
    BY <1>2, <2>1
<1>5. DegreeMoved(adj, FlipPath(adj, p), s, p[Len(p)])
  BY <1>2, <1>3, <1>4, FlipDegrees DEF DegreeMoved
<1>6. QED
  BY <1>2, <1>3, <1>4, <1>5

\* The same of a path that bfs_backward finds.
LEMMA BackwardFlipMoves ==
  ASSUME NEW adj, NEW E, IsOrientation(adj, E), NEW s \in Node,
         NEW p \in BackwardPaths(adj, s)
  PROVE  /\ p \in Seq(Node) /\ IsPath(adj, p) /\ Len(p) >= 2
         /\ p[1] \in Node \ {s} /\ p[Len(p)] = s
         /\ OutDegree(adj, p[1]) > OutDegree(adj, s) + 1
         /\ DegreeMoved(adj, FlipPath(adj, p), p[1], s)
<1>1. adj \in Digraph
  BY DEF IsOrientation
<1>2. /\ p \in Seq(Node) /\ IsPath(adj, p) /\ Simple(p) /\ Len(p) >= 2
      /\ p[Len(p)] = s
      /\ OutDegree(adj, p[1]) > OutDegree(adj, s) + 1
  BY <1>1, BackwardPathFacts DEF IsSearchPath
<1>3. p[1] \in Node
  BY <1>2
<1>4. p[1] # s
  <2>1. OutDegree(adj, s) \in Nat
    BY <1>1, DegreeType
  <2>2. QED
    BY <1>2, <2>1
<1>5. DegreeMoved(adj, FlipPath(adj, p), p[1], s)
  BY <1>2, <1>3, <1>4, FlipDegrees DEF DegreeMoved
<1>6. QED
  BY <1>2, <1>3, <1>4, <1>5

\* A set of natural numbers that is not empty has a least member.
LEMMA LeastNatural ==
  ASSUME NEW T \in SUBSET Nat, T # {}
  PROVE  \E n \in T : \A t \in T : n <= t
<1> SUFFICES ASSUME \A n \in T : \E t \in T : t < n
             PROVE  FALSE
  OBVIOUS
<1>1. PICK n \in T : TRUE
  OBVIOUS
<1> DEFINE J == {j \in 0..n : \A t \in T : j <= t}
<1>2. 0 \in J
  BY <1>1
<1>3. \A j \in J : j < n => j + 1 \in J
  <2> SUFFICES ASSUME NEW j \in J, j < n PROVE j + 1 \in J
    OBVIOUS
  <2>1. j \notin T
    OBVIOUS
  <2>2. \A t \in T : j + 1 <= t
    BY <2>1
  <2>3. QED
    BY <2>2, <1>1
<1>4. n \in J
  <2> HIDE DEF J
  <2>1. J \in SUBSET (0..n)
    BY DEF J
  <2>2. QED
    BY <1>1, <1>2, <1>3, <2>1, IntervalInduction
<1>5. QED
  BY <1>1, <1>4

\* There is a shortest path as soon as there is a path.
LEMMA ShortestExists ==
  ASSUME NEW paths, paths # {}, \A p \in paths : Len(p) \in Nat
  PROVE  Shortest(paths) # {}
<1> DEFINE T == {Len(p) : p \in paths}
<1>1. PICK n \in T : \A t \in T : n <= t
  <2> HIDE DEF T
  <2>1. T \in SUBSET Nat /\ T # {}
    BY DEF T
  <2>2. QED
    BY <2>1, LeastNatural
<1>2. PICK p \in paths : Len(p) = n
  BY <1>1
<1>3. p \in Shortest(paths)
  BY <1>1, <1>2 DEF Shortest
<1>4. QED
  BY <1>3

\* m holds the nodes of q after the first.
IsTail(m, q) == Len(m) = Len(q) - 1 /\ \A i \in 2..Len(q) : m[i - 1] = q[i]

\* Nodes of a walk after the first, as a sequence of their own.
LEMMA AfterFirst ==
  ASSUME NEW S \in SUBSET Node, NEW q \in Seq(Node), Len(q) >= 1, Simple(q),
         \A i \in 2..Len(q) : q[i] \in S
  PROVE  \E m \in Arrangements(S) : m \in Seq(Node) /\ IsTail(m, q)
<1> DEFINE m == [i \in 1..Len(q) - 1 |-> q[i + 1]]
<1>1. Len(q) \in Nat
  OBVIOUS
<1>2. \A i \in 1..Len(q) - 1 : i + 1 \in 2..Len(q)
  BY <1>1
<1>3. \A i \in 1..Len(q) - 1 : q[i + 1] \in S
  BY <1>2
<1>4. Len(q) - 1 \in Nat
  BY <1>1
<1>5. m \in Seq(S) /\ Len(m) = Len(q) - 1 /\ m \in Seq(Node)
  BY <1>3, <1>4
<1>6. \A i \in 1..Len(q) - 1 : m[i] = q[i + 1]
  OBVIOUS
<1> HIDE DEF m
<1>7. \A i, j \in 1..Len(m) : m[i] = m[j] => i = j
  <2> SUFFICES ASSUME NEW i \in 1..Len(m), NEW j \in 1..Len(m), m[i] = m[j] PROVE i = j
    OBVIOUS
  <2>1. q[i + 1] = q[j + 1] /\ i + 1 \in 1..Len(q) /\ j + 1 \in 1..Len(q)
    BY <1>1, <1>5, <1>6
  <2>2. i + 1 = j + 1
    BY <2>1 DEF Simple
  <2>3. QED
    BY <2>2
<1>8. IsFiniteSet(S)
  BY NodeAssumption, FS_Subset
<1>9. m \in Arrangements(S)
  BY <1>5, <1>7, <1>8, SeqIsArrangement
<1>10. \A i \in 2..Len(q) : m[i - 1] = q[i]
  <2> SUFFICES ASSUME NEW i \in 2..Len(q) PROVE m[i - 1] = q[i]
    OBVIOUS
  <2>1. i - 1 \in 1..Len(q) - 1 /\ (i - 1) + 1 = i
    BY <1>1
  <2>2. QED
    BY <1>6, <2>1
<1>11. QED
  BY <1>5, <1>9, <1>10 DEF IsTail

\* A path continued by one more arc, written as the searches return it.
LEMMA JoinedPath ==
  ASSUME NEW adj, NEW q \in Seq(Node), Len(q) >= 1, IsPath(adj, q),
         NEW y \in Node, y \in adj[q[Len(q)]],
         NEW m \in Seq(Node), IsTail(m, q)
  PROVE  IsPath(adj, Joined(q[1], m, y))
<1>1. PICK n \in Nat : n = Len(q)
  OBVIOUS
<1>2. PICK u \in Node : u = q[1]
  OBVIOUS
<1>3. PICK p : p = Joined(u, m, y)
  OBVIOUS
<1>4. IsJoined(p, u, m, y)
  BY <1>3, JoinedFacts
<1>5. Len(p) = n + 1 /\ p[n + 1] = y
  BY <1>1, <1>4 DEF IsTail, IsJoined
<1>6. \A i \in 1..n : p[i] = q[i]
  <2> SUFFICES ASSUME NEW i \in 1..n PROVE p[i] = q[i]
    OBVIOUS
  <2>1. i = 1 \/ (i \in 2..n /\ i \in 2..Len(m) + 1)
    BY <1>1 DEF IsTail
  <2>2. QED
    BY <1>1, <1>2, <1>4, <2>1 DEF IsTail, IsJoined
<1>7. \A i \in 1..n : p[i + 1] \in adj[p[i]]
  <2> SUFFICES ASSUME NEW i \in 1..n PROVE p[i + 1] \in adj[p[i]]
    OBVIOUS
  <2>1. CASE i = n
    BY <1>1, <1>5, <1>6, <2>1
  <2>2. CASE i \in 1..n - 1
    <3>1. i + 1 \in 1..n
      BY <2>2
    <3>2. q[i + 1] \in adj[q[i]]
      BY <1>1, <2>2 DEF IsPath
    <3>3. QED
      BY <1>6, <3>1, <3>2
  <2>3. QED
    BY <1>1, <2>1, <2>2
<1>8. Len(p) - 1 = n
  BY <1>5
<1>9. QED
  BY <1>2, <1>3, <1>7, <1>8 DEF IsPath

\* No path leads from s over nodes of mid to one of last.
NoPath(adj, s, mid, last) ==
  \A m \in Arrangements(mid) : \A v \in last : ~IsPath(adj, Joined(s, m, v))

\* R holds all that a search from s over mid reaches, and the search leaves no arc
\* to a node of mid or last untried.
IsExhausted(adj, s, mid, last, R) ==
  /\ s \in R
  /\ R \subseteq mid \cup {s}
  /\ \A x \in R : \A y \in adj[x] : y \in R \/ (y \notin mid /\ y \notin last)

\* What a search has seen when it finds no path from s over mid to last: a set of
\* nodes around s, the others in mid, that no arc leaves towards mid or last.
LEMMA SearchExhausted ==
  ASSUME NEW adj \in Digraph, NEW s \in Node,
         NEW mid \in SUBSET Node, NEW last \in SUBSET Node,
         NoPath(adj, s, mid, last)
  PROVE  \E R \in SUBSET Node : IsExhausted(adj, s, mid, last, R)
<1> DEFINE Walk(q) == /\ q \in Seq(Node) /\ Len(q) >= 1 /\ q[1] = s
                      /\ IsPath(adj, q) /\ Simple(q)
                      /\ \A i \in 2..Len(q) : q[i] \in mid
           R == {x \in Node : \E q \in Seq(Node) : Walk(q) /\ x = q[Len(q)]}
<1>1. s \in R
  <2>1. Walk(<<s>>)
    BY DEF IsPath, Simple
  <2>2. <<s>> \in Seq(Node) /\ s = <<s>>[Len(<<s>>)]
    OBVIOUS
  <2>3. QED
    BY <2>1, <2>2
<1>2. R \subseteq mid \cup {s}
  <2> SUFFICES ASSUME NEW x \in R PROVE x \in mid \cup {s}
    OBVIOUS
  <2>1. PICK q \in Seq(Node) : Walk(q) /\ x = q[Len(q)]
    OBVIOUS
  <2>2. Len(q) = 1 \/ Len(q) \in 2..Len(q)
    <3>1. Len(q) \in Nat /\ Len(q) >= 1
      BY <2>1
    <3>2. \A n \in Nat : n >= 1 => n = 1 \/ n \in 2..n
      OBVIOUS
    <3>3. QED
      BY <3>1, <3>2
  <2>3. CASE Len(q) = 1
    BY <2>1, <2>3
  <2>4. CASE Len(q) \in 2..Len(q)
    BY <2>1, <2>4
  <2>5. QED
    BY <2>2, <2>3, <2>4
<1>3. ASSUME NEW x \in R, NEW y \in adj[x]
      PROVE  y \in R \/ (y \notin mid /\ y \notin last)
  <2>1. PICK q \in Seq(Node) : Walk(q) /\ x = q[Len(q)]
    OBVIOUS
  <2> DEFINE n == Len(q)
  <2>2. n \in Nat /\ n >= 1 /\ q \in [1..n -> Node]
    BY <2>1
  <2>3. y \in Node
    BY DEF Digraph
  <2>4. \A i \in 1..n - 1 : q[i + 1] \in adj[q[i]]
    BY <2>1 DEF IsPath
  <2>5. y \notin last
    <3> SUFFICES ASSUME y \in last PROVE FALSE
      OBVIOUS
    <3>1. PICK m \in Arrangements(mid) : m \in Seq(Node) /\ IsTail(m, q)
      <4> HIDE DEF R
      <4>1. QED
        BY <2>1, AfterFirst
    <3>2. IsPath(adj, Joined(s, m, y))
      <4> HIDE DEF R
      <4>1. QED
        BY <2>1, <2>3, <3>1, JoinedPath
    <3>3. QED
      BY <3>1, <3>2 DEF NoPath
  <2>6. CASE \E k \in 1..n : q[k] = y
    <3>1. PICK k \in 1..n : q[k] = y
      BY <2>6
    <3> DEFINE r == [i \in 1..k |-> q[i]]
    <3>2. r \in Seq(Node) /\ Len(r) = k /\ \A i \in 1..k : r[i] = q[i]
      BY <2>2
    <3> HIDE DEF r
    <3>3. Walk(r)
      <4>1. IsPath(adj, r)
        <5>1. \A i \in 1..k - 1 : i \in 1..n - 1 /\ r[i] = q[i] /\ r[i + 1] = q[i + 1]
          BY <2>2, <3>2
        <5>2. QED
          BY <2>4, <3>2, <5>1 DEF IsPath
      <4>2. Simple(r)
        BY <2>1, <2>2, <3>2 DEF Simple
      <4>3. \A i \in 2..k : i \in 2..n /\ r[i] = q[i]
        BY <2>2, <3>2
      <4>4. QED
        BY <2>1, <2>2, <3>2, <4>1, <4>2, <4>3
    <3>4. y = r[Len(r)]
      BY <3>1, <3>2
    <3>5. QED
      BY <2>3, <2>5, <3>2, <3>3, <3>4
  <2>7. CASE y \in mid /\ ~\E k \in 1..n : q[k] = y
    <3> DEFINE r == Append(q, y)
    <3>1. /\ r \in Seq(Node) /\ Len(r) = n + 1 /\ r[n + 1] = y
          /\ \A i \in 1..n : r[i] = q[i]
      BY <2>2, <2>3
    <3> HIDE DEF r
    <3>2. Walk(r)
      <4>1. IsPath(adj, r)
        <5>1. \A i \in 1..n - 1 : r[i] = q[i] /\ r[i + 1] = q[i + 1]
          BY <2>2, <3>1
        <5>2. r[n] = x /\ r[n + 1] = y /\ \A i \in 1..Len(r) - 1 : i \in 1..n - 1 \/ i = n
          BY <2>1, <2>2, <3>1
        <5>3. QED
          BY <2>4, <5>1, <5>2 DEF IsPath
      <4>2. Simple(r)
        BY <2>1, <2>2, <2>7, <3>1 DEF Simple
      <4>3. \A i \in 2..n + 1 : r[i] \in mid
        BY <2>1, <2>2, <2>7, <3>1
      <4>4. QED
        BY <2>1, <2>2, <3>1, <4>1, <4>2, <4>3
    <3>3. QED
      BY <2>3, <3>1, <3>2
  <2>8. QED
    BY <2>5, <2>6, <2>7
<1>4. R \in SUBSET Node
  OBVIOUS
<1>5. QED
  <2> HIDE DEF R
  <2>1. QED
    BY <1>1, <1>2, <1>3, <1>4 DEF IsExhausted

\* bfs_forward finds nothing: a set of nodes around s, none of them more than one
\* below s, that is left only towards nodes not below s.
LEMMA ForwardExhausted ==
  ASSUME NEW adj \in Digraph, NEW s \in Node, ForwardPaths(adj, s) = {}
  PROVE  \E R \in SUBSET Node :
           /\ s \in R
           /\ \A x \in R : OutDegree(adj, x) >= OutDegree(adj, s) - 1
           /\ \A x \in R : \A y \in adj[x] :
                y \in R \/ OutDegree(adj, y) >= OutDegree(adj, s)
<1> DEFINE d == OutDegree(adj, s)
           mid == WithDegree(adj, d - 1)
           low == {v \in Node : OutDegree(adj, v) < d - 1}
<1>1. d \in Nat /\ \A x \in Node : OutDegree(adj, x) \in Nat /\ adj[x] \subseteq Node
  BY DegreeType DEF Digraph
<1>2. NoPath(adj, s, mid, low)
  BY DEF ForwardPaths, NoPath
<1>3. mid \in SUBSET Node /\ low \in SUBSET Node
  BY DEF WithDegree
<1>4. /\ \A x \in mid : OutDegree(adj, x) = d - 1
      /\ \A x \in Node : x \notin mid /\ x \notin low => OutDegree(adj, x) >= d
  BY <1>1 DEF WithDegree
<1> HIDE DEF mid, low
<1>5. PICK R \in SUBSET Node : IsExhausted(adj, s, mid, low, R)
  BY <1>2, <1>3, SearchExhausted
<1>6. \A x \in R : OutDegree(adj, x) >= d - 1
  BY <1>1, <1>4, <1>5 DEF IsExhausted
<1>7. \A x \in R : \A y \in adj[x] : y \in R \/ OutDegree(adj, y) >= d
  BY <1>1, <1>4, <1>5 DEF IsExhausted
<1>8. QED
  BY <1>5, <1>6, <1>7 DEF IsExhausted

(****************************************************************************)
(* The backward search is a forward search in the reversed digraph.         *)
(****************************************************************************)

InArcs(adj) == [v \in Node |-> {u \in Node : v \in adj[u]}]

Backwards(m) == [i \in 1..Len(m) |-> m[Len(m) + 1 - i]]

\* The entries of a sequence read backwards.
LEMMA BackwardsFacts ==
  ASSUME NEW S, NEW m \in Seq(S)
  PROVE  /\ Backwards(m) \in Seq(S)
         /\ Len(Backwards(m)) = Len(m)
         /\ \A i \in 1..Len(m) : Backwards(m)[i] = m[Len(m) + 1 - i]
<1>1. Len(m) \in Nat /\ \A i \in 1..Len(m) : Len(m) + 1 - i \in 1..Len(m)
  OBVIOUS
<1>2. \A i \in 1..Len(m) : m[Len(m) + 1 - i] \in S
  BY <1>1
<1>3. QED
  BY <1>1, <1>2 DEF Backwards

\* A sequence without repetition has none when read backwards.
LEMMA BackwardsArrangement ==
  ASSUME NEW S, IsFiniteSet(S), NEW m \in Arrangements(S)
  PROVE  Backwards(m) \in Arrangements(S)
<1>1. m \in Seq(S) /\ \A i, j \in 1..Len(m) : m[i] = m[j] => i = j
  BY ArrangementSeq
<1>2. PICK n \in Nat : n = Len(m)
  BY <1>1
<1>3. PICK r : r = Backwards(m)
  OBVIOUS
<1>4. r \in Seq(S) /\ Len(r) = n /\ \A i \in 1..n : r[i] = m[n + 1 - i]
  BY <1>1, <1>2, <1>3, BackwardsFacts
<1>5. ASSUME NEW i \in 1..n, NEW j \in 1..n, r[i] = r[j] PROVE i = j
  <2>1. n + 1 - i \in 1..n /\ n + 1 - j \in 1..n
    BY <1>2
  <2>2. n + 1 - i = n + 1 - j
    BY <1>1, <1>2, <1>4, <1>5, <2>1
  <2>3. QED
    BY <1>2, <2>2
<1>6. r \in Arrangements(S)
  BY <1>4, <1>5, SeqIsArrangement
<1>7. QED
  BY <1>3, <1>6

\* A path over reversed arcs, read backwards, is a path over the arcs.
LEMMA BackwardsPath ==
  ASSUME NEW adj \in Digraph, NEW s \in Node, NEW v \in Node, NEW m \in Seq(Node),
         IsPath(InArcs(adj), Joined(s, m, v))
  PROVE  IsPath(adj, Joined(v, Backwards(m), s))
<1>1. PICK n \in Nat : n = Len(m)
  OBVIOUS
<1>2. PICK r \in Seq(Node) : r = Backwards(m)
  BY BackwardsFacts
<1>3. r \in Seq(Node) /\ Len(r) = n /\ \A i \in 1..n : r[i] = m[n + 1 - i]
  BY <1>1, <1>2, BackwardsFacts
<1>4. PICK p : p = Joined(s, m, v)
  OBVIOUS
<1>5. PICK q : q = Joined(v, r, s)
  OBVIOUS
<1>6. IsJoined(p, s, m, v)
  BY <1>4, JoinedFacts
<1>7. IsJoined(q, v, r, s)
  BY <1>5, JoinedFacts
<1>8. \A i \in 1..n + 2 : q[i] = p[n + 3 - i]
  <2> SUFFICES ASSUME NEW i \in 1..n + 2 PROVE q[i] = p[n + 3 - i]
    OBVIOUS
  <2>1. CASE i = 1
    <3>1. n + 3 - i = n + 2
      BY <1>1, <2>1
    <3>2. QED
      BY <1>1, <1>6, <1>7, <2>1, <3>1 DEF IsJoined
  <2>2. CASE i = n + 2
    <3>1. n + 3 - i = 1
      BY <1>1, <2>2
    <3>2. QED
      BY <1>3, <1>6, <1>7, <2>2, <3>1 DEF IsJoined
  <2>3. CASE i \in 2..n + 1
    <3>1. i - 1 \in 1..n /\ n + 3 - i \in 2..n + 1 /\ (n + 3 - i) - 1 = n + 1 - (i - 1)
      BY <1>1, <2>3
    <3>2. q[i] = r[i - 1]
      BY <1>3, <1>7, <2>3 DEF IsJoined
    <3>3. p[n + 3 - i] = m[(n + 3 - i) - 1]
      BY <1>1, <1>6, <3>1 DEF IsJoined
    <3>4. r[i - 1] = m[n + 1 - (i - 1)]
      BY <1>3, <3>1
    <3>5. QED
      BY <3>1, <3>2, <3>3, <3>4
  <2>4. i = 1 \/ i = n + 2 \/ i \in 2..n + 1
    BY <1>1
  <2>5. QED
    BY <2>1, <2>2, <2>3, <2>4
<1>9. \A i \in 1..n + 1 : p[i + 1] \in InArcs(adj)[p[i]]
  <2>1. Len(p) - 1 = n + 1
    BY <1>1, <1>6 DEF IsJoined
  <2>2. QED
    BY <1>4, <2>1 DEF IsPath
<1>10. \A i \in 1..n + 1 : q[i + 1] \in adj[q[i]]
  <2> SUFFICES ASSUME NEW i \in 1..n + 1 PROVE q[i + 1] \in adj[q[i]]
    OBVIOUS
  <2> DEFINE j == n + 2 - i
  <2>1. j \in 1..n + 1
    BY <1>1
  <2>2. /\ i \in 1..n + 2 /\ i + 1 \in 1..n + 2
        /\ n + 3 - i = j + 1 /\ n + 3 - (i + 1) = j
    BY <1>1
  <2> HIDE DEF j
  <2>3. q[i] = p[j + 1]
    BY <1>8, <2>2
  <2>4. q[i + 1] = p[j]
    BY <1>8, <2>2
  <2>5. p[j + 1] \in InArcs(adj)[p[j]] /\ p[j] \in Node
    <3>1. j \in 1..Len(p)
      BY <1>1, <1>6, <2>1 DEF IsJoined
    <3>2. QED
      BY <1>6, <1>9, <2>1, <3>1 DEF IsJoined
  <2>6. p[j] \in adj[p[j + 1]]
    BY <2>5 DEF InArcs
  <2>7. QED
    BY <2>3, <2>4, <2>6
<1>11. Len(q) - 1 = n + 1
  BY <1>3, <1>7 DEF IsJoined
<1>12. QED
  BY <1>2, <1>5, <1>10, <1>11 DEF IsPath

\* bfs_backward finds nothing: a set of nodes around s, none of them more than one
\* above s, entered only from nodes not above s.
LEMMA BackwardExhausted ==
  ASSUME NEW adj \in Digraph, NEW s \in Node, BackwardPaths(adj, s) = {}
  PROVE  \E R \in SUBSET Node :
           /\ s \in R
           /\ \A x \in R : OutDegree(adj, x) <= OutDegree(adj, s) + 1
           /\ \A x \in R : \A y \in Node :
                x \in adj[y] => y \in R \/ OutDegree(adj, y) <= OutDegree(adj, s)
<1> DEFINE d == OutDegree(adj, s)
           mid == WithDegree(adj, d + 1)
           high == {v \in Node : OutDegree(adj, v) > d + 1}
<1>1. d \in Nat /\ \A x \in Node : OutDegree(adj, x) \in Nat /\ adj[x] \subseteq Node
  BY DegreeType DEF Digraph
<1>2. \A m \in Arrangements(mid) : \A v \in high : ~IsPath(adj, Joined(v, m, s))
  BY DEF BackwardPaths
<1>3. mid \in SUBSET Node /\ high \in SUBSET Node
  BY DEF WithDegree
<1>4. /\ \A x \in mid : OutDegree(adj, x) = d + 1
      /\ \A x \in Node : x \notin mid /\ x \notin high => OutDegree(adj, x) <= d
  BY <1>1 DEF WithDegree
<1> HIDE DEF mid, high
<1>5. PICK radj \in Digraph : radj = InArcs(adj)
  BY DEF InArcs, Digraph
<1>6. NoPath(radj, s, mid, high)
  <2> SUFFICES ASSUME NEW m \in Arrangements(mid), NEW v \in high,
                      IsPath(radj, Joined(s, m, v))
               PROVE  FALSE
    BY DEF NoPath
  <2>1. m \in Seq(mid)
    BY ArrangementSeq
  <2>2. m \in Seq(Node) /\ v \in Node
    BY <1>3, <2>1
  <2>3. IsPath(adj, Joined(v, Backwards(m), s))
    BY <1>5, <2>2, BackwardsPath
  <2>4. IsFiniteSet(mid)
    BY <1>3, NodeAssumption, FS_Subset
  <2>5. Backwards(m) \in Arrangements(mid)
    BY <2>4, BackwardsArrangement
  <2>6. QED
    BY <1>2, <2>3, <2>5
<1>7. PICK R \in SUBSET Node : IsExhausted(radj, s, mid, high, R)
  BY <1>3, <1>6, SearchExhausted
<1>8. \A x \in R : OutDegree(adj, x) <= d + 1
  BY <1>1, <1>4, <1>7 DEF IsExhausted
<1>9. \A x \in R : \A y \in Node : x \in adj[y] => y \in R \/ OutDegree(adj, y) <= d
  BY <1>1, <1>4, <1>5, <1>7 DEF InArcs, IsExhausted
<1>10. QED
  BY <1>7, <1>8, <1>9 DEF IsExhausted

(****************************************************************************)
(* The two updates of the lists, before the search.                         *)
(****************************************************************************)

WithArc(adj, s, t) == [adj EXCEPT ![s] = @ \cup {t}]

WithoutArc(adj, s, t) == [adj EXCEPT ![s] = @ \ {t}]

\* Only the tail of the new arc has another out-degree.
LEMMA WithArcOthers ==
  ASSUME NEW adj \in Digraph, NEW s \in Node, NEW t \in Node, NEW x \in Node, x # s
  PROVE  OutDegree(WithArc(adj, s, t), x) = OutDegree(adj, x)
BY DEF WithArc, OutDegree, Digraph

\* Only the tail of the lost arc has another out-degree.
LEMMA WithoutArcOthers ==
  ASSUME NEW adj \in Digraph, NEW s \in Node, NEW t \in Node, NEW x \in Node, x # s
  PROVE  OutDegree(WithoutArc(adj, s, t), x) = OutDegree(adj, x)
BY DEF WithoutArc, OutDegree, Digraph

\* The list updates of handleInsertion: an orientation of the graph becomes one of
\* the graph with the new edge.
LEMMA WithArcFacts ==
  ASSUME NEW adj, NEW E, IsOrientation(adj, E),
         NEW s \in Node, NEW t \in Node, s # t, {s, t} \notin E
  PROVE  /\ IsOrientation(WithArc(adj, s, t), E \cup {{s, t}})
         /\ OutDegree(WithArc(adj, s, t), s) = OutDegree(adj, s) + 1
<1>1. PICK adj1 : adj1 = WithArc(adj, s, t)
  OBVIOUS
<1>2. adj \in Digraph
  BY DEF IsOrientation
<1>3. adj1[s] = adj[s] \cup {t} /\ \A v \in Node \ {s} : adj1[v] = adj[v]
  BY <1>1, <1>2 DEF WithArc, Digraph
<1>4. t \notin adj[s] /\ s \notin adj[t]
  <2>1. {s, t} = {t, s}
    OBVIOUS
  <2>2. QED
    BY <2>1 DEF IsOrientation
<1>5. adj1 \in Digraph
  BY <1>1, <1>2 DEF WithArc, Digraph
<1>6. ASSUME NEW u \in Node, NEW v \in Node, v \in adj1[u]
      PROVE  {u, v} \in E \cup {{s, t}} /\ u \notin adj1[v]
  <2>1. CASE v \in adj[u]
    <3>1. {u, v} \in E /\ u \notin adj[v]
      BY <2>1 DEF IsOrientation
    <3>2. ~(v = s /\ u = t)
      BY <1>4, <2>1
    <3>3. QED
      BY <1>3, <3>1, <3>2
  <2>2. CASE u = s /\ v = t
    BY <1>3, <1>4, <2>2
  <2>3. QED
    BY <1>3, <1>6, <2>1, <2>2
<1>7. ASSUME NEW u \in Node, NEW v \in Node, {u, v} \in E \cup {{s, t}}
      PROVE  v \in adj1[u] \/ u \in adj1[v]
  <2>1. CASE {u, v} \in E
    <3>1. v \in adj[u] \/ u \in adj[v]
      BY <2>1 DEF IsOrientation
    <3>2. QED
      BY <1>3, <3>1
  <2>2. CASE {u, v} = {s, t}
    <3>1. (u = s /\ v = t) \/ (u = t /\ v = s)
      BY <2>2
    <3>2. QED
      BY <1>3, <3>1
  <2>3. QED
    BY <1>7, <2>1, <2>2
<1>8. IsOrientation(adj1, E \cup {{s, t}})
  BY <1>5, <1>6, <1>7 DEF IsOrientation
<1>9. OutDegree(adj1, s) = OutDegree(adj, s) + 1
  <2>1. IsFiniteSet(adj[s])
    BY <1>2, DegreeType
  <2>2. Cardinality(adj[s] \cup {t}) = Cardinality(adj[s]) + 1
    BY <1>4, <2>1, FS_AddElement
  <2>3. QED
    BY <1>3, <2>2 DEF OutDegree
<1>10. QED
  BY <1>1, <1>8, <1>9

\* The list updates of handleDeletion: an orientation of the graph becomes one of
\* the graph without the edge.
LEMMA WithoutArcFacts ==
  ASSUME NEW adj, NEW E, IsOrientation(adj, E),
         NEW s \in Node, NEW t \in Node, t \in adj[s]
  PROVE  /\ IsOrientation(WithoutArc(adj, s, t), E \ {{s, t}})
         /\ OutDegree(WithoutArc(adj, s, t), s) = OutDegree(adj, s) - 1
<1>1. PICK adj1 : adj1 = WithoutArc(adj, s, t)
  OBVIOUS
<1>2. adj \in Digraph
  BY DEF IsOrientation
<1>3. adj1[s] = adj[s] \ {t} /\ \A v \in Node \ {s} : adj1[v] = adj[v]
  BY <1>1, <1>2 DEF WithoutArc, Digraph
<1>4. s \notin adj[t] /\ s # t
  BY DEF IsOrientation
<1>5. adj1 \in Digraph
  BY <1>1, <1>2 DEF WithoutArc, Digraph
<1>6. ASSUME NEW u \in Node, NEW v \in Node, v \in adj1[u]
      PROVE  {u, v} \in E \ {{s, t}} /\ u \notin adj1[v]
  <2>1. v \in adj[u] /\ ~(u = s /\ v = t)
    BY <1>3, <1>6
  <2>2. {u, v} \in E /\ u \notin adj[v]
    BY <2>1 DEF IsOrientation
  <2>3. {u, v} # {s, t}
    BY <1>4, <2>1
  <2>4. QED
    BY <1>3, <2>2, <2>3
<1>7. ASSUME NEW u \in Node, NEW v \in Node, {u, v} \in E \ {{s, t}}
      PROVE  v \in adj1[u] \/ u \in adj1[v]
  <2>1. v \in adj[u] \/ u \in adj[v]
    BY <1>7 DEF IsOrientation
  <2>2. ~(u = s /\ v = t) /\ ~(u = t /\ v = s)
    BY <1>7
  <2>3. QED
    BY <1>3, <2>1, <2>2
<1>8. IsOrientation(adj1, E \ {{s, t}})
  BY <1>5, <1>6, <1>7 DEF IsOrientation
<1>9. OutDegree(adj1, s) = OutDegree(adj, s) - 1
  <2>1. IsFiniteSet(adj[s])
    BY <1>2, DegreeType
  <2>2. Cardinality(adj[s] \ {t}) = Cardinality(adj[s]) - 1
    BY <2>1, FS_RemoveElement
  <2>3. QED
    BY <1>3, <2>2 DEF OutDegree
<1>10. QED
  BY <1>1, <1>8, <1>9

\* The out-neighbours after the list updates of handleInsertion.
LEMMA WithArcMembers ==
  ASSUME NEW adj \in Digraph, NEW s \in Node, NEW t \in Node, NEW x \in Node, NEW y
  PROVE  y \in WithArc(adj, s, t)[x] <=> y \in adj[x] \/ (x = s /\ y = t)
BY DEF WithArc, Digraph

\* The list updates of handleDeletion give no node a new out-neighbour.
LEMMA WithoutArcMembers ==
  ASSUME NEW adj \in Digraph, NEW s \in Node, NEW t \in Node
  PROVE  \A x \in Node : WithoutArc(adj, s, t)[x] \subseteq adj[x]
BY DEF WithoutArc, Digraph

(****************************************************************************)
(* The searches keep the graph.                                             *)
(****************************************************************************)

\* Whichever of its paths a forward search flips, the orientation stays one of the
\* graph.
LEMMA FlippedForward ==
  ASSUME NEW adj, NEW E, IsOrientation(adj, E), NEW s \in Node,
         NEW paths \in SUBSET ForwardPaths(adj, s), NEW adj2 \in Flipped(adj, paths)
  PROVE  IsOrientation(adj2, E)
<1>1. adj \in Digraph
  BY DEF IsOrientation
<1>2. CASE adj2 = adj
  BY <1>2
<1>3. CASE \E p \in ForwardPaths(adj, s) : adj2 = FlipPath(adj, p)
  <2>1. PICK p \in ForwardPaths(adj, s) : adj2 = FlipPath(adj, p)
    BY <1>3
  <2>2. p \in Seq(Node) /\ IsPath(adj, p)
    BY <1>1, <2>1, ForwardPathFacts DEF IsSearchPath
  <2>3. QED
    BY <2>1, <2>2, FlipKeepsOrientation
<1>4. QED
  BY <1>2, <1>3 DEF Flipped

\* The same of a backward search.
LEMMA FlippedBackward ==
  ASSUME NEW adj, NEW E, IsOrientation(adj, E), NEW s \in Node,
         NEW paths \in SUBSET BackwardPaths(adj, s), NEW adj2 \in Flipped(adj, paths)
  PROVE  IsOrientation(adj2, E)
<1>1. adj \in Digraph
  BY DEF IsOrientation
<1>2. CASE adj2 = adj
  BY <1>2
<1>3. CASE \E p \in BackwardPaths(adj, s) : adj2 = FlipPath(adj, p)
  <2>1. PICK p \in BackwardPaths(adj, s) : adj2 = FlipPath(adj, p)
    BY <1>3
  <2>2. p \in Seq(Node) /\ IsPath(adj, p)
    BY <1>1, <2>1, BackwardPathFacts DEF IsSearchPath
  <2>3. QED
    BY <2>1, <2>2, FlipKeepsOrientation
<1>4. QED
  BY <1>2, <1>3 DEF Flipped

\* bfs_forward flips one of the paths, or none.
LEMMA bfs_forwardKeepsOrientation ==
  ASSUME NEW adj, NEW E, IsOrientation(adj, E), NEW s \in Node,
         NEW adj2 \in bfs_forward(adj, s)
  PROVE  IsOrientation(adj2, E)
BY FlippedForward DEF bfs_forward, Shortest

\* bfs_backward flips one of the paths, or none.
LEMMA bfs_backwardKeepsOrientation ==
  ASSUME NEW adj, NEW E, IsOrientation(adj, E), NEW s \in Node,
         NEW adj2 \in bfs_backward(adj, s)
  PROVE  IsOrientation(adj2, E)
BY FlippedBackward DEF bfs_backward, Shortest

(****************************************************************************)
(* Certificates of optimality.                                              *)
(****************************************************************************)

\* There is a maximum out-degree.
LEMMA MaxOutDegreeExists ==
  ASSUME NEW adj \in Digraph
  PROVE  \E k \in 0..Cardinality(Node) : IsMaxOutDegree(adj, k)
<1>1. PICK c \in Nat : c = Cardinality(Node)
  BY NodeAssumption, FS_CardinalityType
<1>2. \A v \in Node : OutDegree(adj, v) \in Nat /\ OutDegree(adj, v) <= c
  <2> SUFFICES ASSUME NEW v \in Node PROVE OutDegree(adj, v) \in Nat /\ OutDegree(adj, v) <= c
    OBVIOUS
  <2>1. adj[v] \in SUBSET Node
    BY DEF Digraph
  <2>2. Cardinality(adj[v]) <= c
    BY <1>1, <2>1, NodeAssumption, FS_Subset
  <2>3. QED
    BY <2>2, DegreeType DEF OutDegree
<1> DEFINE Bounds == {n \in Nat : \A v \in Node : OutDegree(adj, v) <= n}
<1>3. PICK k \in Bounds : \A n \in Bounds : k <= n
  <2>1. Bounds \in SUBSET Nat /\ c \in Bounds
    BY <1>2
  <2> HIDE DEF Bounds
  <2>2. QED
    BY <2>1, LeastNatural
<1>4. k \in 0..Cardinality(Node)
  <2>1. c \in Bounds
    BY <1>2
  <2>2. k \in Nat /\ k <= c
    BY <1>3, <2>1
  <2>3. QED
    BY <1>1, <2>2
<1>5. \E v \in Node : OutDegree(adj, v) = k
  <2> SUFFICES ASSUME \A v \in Node : OutDegree(adj, v) # k PROVE FALSE
    OBVIOUS
  <2>1. \A v \in Node : OutDegree(adj, v) < k
    BY <1>2, <1>3
  <2>2. k # 0
    BY <1>2, <2>1, NodeAssumption
  <2>3. k - 1 \in Bounds
    BY <1>2, <1>3, <2>1, <2>2
  <2>4. QED
    BY <1>3, <2>3
<1>6. QED
  BY <1>3, <1>4, <1>5 DEF IsMaxOutDegree

\* Of the edges that lie within S, at most k have their tail at each node of S.
LEMMA SpannedBound ==
  ASSUME NEW E, IsFiniteSet(E), NEW tail \in TailChoices(E), NEW k \in Nat,
         \A v \in Node : Cardinality({e \in E : tail[e] = v}) <= k,
         NEW S \in SUBSET Node
  PROVE  /\ IsFiniteSet(Spanned(E, S)) /\ Cardinality(Spanned(E, S)) \in Nat
         /\ Cardinality(S) \in Nat
         /\ Cardinality(Spanned(E, S)) <= Cardinality(S) * k
<1> DEFINE Tails(x) == {e \in E : tail[e] = x}
<1>1. tail \in [E -> Node] /\ \A e \in E : tail[e] \in e
  BY DEF TailChoices
<1>2. \A x \in Node : \E g \in [Tails(x) -> 1..k] : \A a, b \in Tails(x) : g[a] = g[b] => a = b
  <2> SUFFICES ASSUME NEW x \in Node
               PROVE  \E g \in [Tails(x) -> 1..k] : \A a, b \in Tails(x) : g[a] = g[b] => a = b
    OBVIOUS
  <2>1. Cardinality(Tails(x)) <= k
    OBVIOUS
  <2>2. IsFiniteSet(Tails(x))
    BY FS_Subset
  <2> HIDE DEF Tails
  <2>3. QED
    BY <2>1, <2>2, Numbering
<1> DEFINE num == [x \in Node |-> CHOOSE g \in [Tails(x) -> 1..k] :
                                    \A a, b \in Tails(x) : g[a] = g[b] => a = b]
<1>3. \A x \in Node : /\ num[x] \in [Tails(x) -> 1..k]
                      /\ \A a, b \in Tails(x) : num[x][a] = num[x][b] => a = b
  <2> HIDE DEF Tails
  <2>1. QED
    BY <1>2
<1> HIDE DEF num
<1> DEFINE f == [e \in Spanned(E, S) |-> <<tail[e], num[tail[e]][e]>>]
<1>4. \A e \in Spanned(E, S) : /\ tail[e] \in S /\ tail[e] \in Node /\ e \in Tails(tail[e])
                               /\ num[tail[e]][e] \in 1..k
  <2> SUFFICES ASSUME NEW e \in Spanned(E, S)
               PROVE  /\ tail[e] \in S /\ tail[e] \in Node /\ e \in Tails(tail[e])
                      /\ num[tail[e]][e] \in 1..k
    OBVIOUS
  <2>1. e \in E /\ tail[e] \in S /\ tail[e] \in Node
    BY <1>1 DEF Spanned
  <2>2. e \in Tails(tail[e])
    BY <2>1
  <2> HIDE DEF Tails
  <2>3. num[tail[e]] \in [Tails(tail[e]) -> 1..k]
    BY <1>3, <2>1
  <2>4. QED
    BY <2>1, <2>2, <2>3
<1>5. f \in [Spanned(E, S) -> S \X (1..k)]
  BY <1>4
<1>6. ASSUME NEW d \in Spanned(E, S), NEW e \in Spanned(E, S), f[d] = f[e] PROVE d = e
  <2>1. tail[d] = tail[e] /\ num[tail[d]][d] = num[tail[e]][e]
    BY <1>6
  <2>2. d \in Tails(tail[d]) /\ e \in Tails(tail[d]) /\ tail[d] \in Node
    BY <1>4, <2>1
  <2> HIDE DEF Tails, f
  <2>3. QED
    BY <1>3, <2>1, <2>2
<1>7. IsFiniteSet(S) /\ IsFiniteSet(1..k) /\ Cardinality(1..k) = k
  <2>1. IsFiniteSet(1..k) /\ Cardinality(1..k) = k
    BY FS_Interval
  <2>2. QED
    BY <2>1, NodeAssumption, FS_Subset
<1>8. /\ IsFiniteSet(S \X (1..k))
      /\ Cardinality(S \X (1..k)) = Cardinality(S) * k
  BY <1>7, FS_Product
<1>9. f \in Injection(Spanned(E, S), S \X (1..k))
  <2> HIDE DEF f
  <2>1. QED
    BY <1>5, <1>6 DEF Injection, IsInjective
<1>10. IsFiniteSet(Spanned(E, S)) /\ Cardinality(Spanned(E, S)) <= Cardinality(S) * k
  <2> HIDE DEF f
  <2>1. QED
    BY <1>8, <1>9, FS_Injection
<1>11. QED
  BY <1>7, <1>10, FS_CardinalityType

\* A certified orientation is optimal: whatever tails another orientation chooses, the
\* edges of the certificate are too many for them.
LEMMA CertifiedIsOptimal ==
  ASSUME NEW adj \in Digraph, NEW E, IsFiniteSet(E), IsCertifiedOptimal(adj, E)
  PROVE  IsOptimal(adj, E)
<1> SUFFICES ASSUME NEW tail \in TailChoices(E), NEW k \in 0..Cardinality(Node),
                    \A v \in Node : Cardinality({e \in E : tail[e] = v}) <= k,
                    NEW u \in Node, ~(OutDegree(adj, u) <= k)
             PROVE  FALSE
  BY DEF IsOptimal
<1>1. PICK max \in 0..Cardinality(Node) : IsMaxOutDegree(adj, max)
  BY MaxOutDegreeExists
<1>2. k \in Nat /\ max \in Nat /\ OutDegree(adj, u) \in Nat
  BY NodeAssumption, FS_CardinalityType, DegreeType
<1>3. max - 1 >= k
  BY <1>1, <1>2 DEF IsMaxOutDegree
<1>4. NeedsOutDegree(E, max)
  BY <1>1 DEF IsCertifiedOptimal
<1>5. PICK S \in SUBSET Node : Cardinality(Spanned(E, S)) > (max - 1) * Cardinality(S)
  BY <1>2, <1>3, <1>4 DEF NeedsOutDegree
<1>6. PICK c \in Nat, n \in Nat : c = Cardinality(S) /\ n = Cardinality(Spanned(E, S)) /\ n <= c * k
  BY <1>2, SpannedBound
<1>7. PICK m \in Nat : m = max - 1
  BY <1>2, <1>3
<1>8. c * k <= m * c
  BY <1>2, <1>3, <1>7
<1>9. n > m * c /\ c * k \in Nat /\ m * c \in Nat
  BY <1>2, <1>5, <1>6, <1>7
<1>10. QED
  BY <1>6, <1>8, <1>9

(****************************************************************************)
(* The positions of a list can be put in order.                             *)
(****************************************************************************)
Increasing(s, n) == \A k, l \in 1..n : k < l => s[k] < s[l]

LEMMA Enumeration ==
  ASSUME NEW N \in Nat, NEW S \in SUBSET (1..N)
  PROVE  \E s \in [1..Cardinality(S) -> S] : Increasing(s, Cardinality(S))
<1> DEFINE Enumerable(n) == \A T \in SUBSET (1..n) :
             \E s \in [1..Cardinality(T) -> T] : Increasing(s, Cardinality(T))
           J == {n \in 0..N : Enumerable(n)}
<1>1. 0 \in J
  <2> SUFFICES ASSUME NEW T \in SUBSET (1..0)
               PROVE  \E s \in [1..Cardinality(T) -> T] : Increasing(s, Cardinality(T))
    OBVIOUS
  <2>1. T = {}
    OBVIOUS
  <2>2. Cardinality(T) = 0
    BY <2>1, FS_EmptySet
  <2>3. <<>> \in [1..0 -> T]
    BY <2>1
  <2>4. Increasing(<<>>, 0)
    BY DEF Increasing
  <2>5. QED
    BY <2>2, <2>3, <2>4
<1>2. ASSUME NEW n \in J, n < N
      PROVE  n + 1 \in J
  <2>1. n + 1 \in 0..N /\ n \in Nat
    BY <1>2
  <2>2. ASSUME NEW T \in SUBSET (1..n + 1)
        PROVE  \E s \in [1..Cardinality(T) -> T] : Increasing(s, Cardinality(T))
    <3> DEFINE U == T \ {n + 1}
    <3>1. U \in SUBSET (1..n)
      BY <2>1
    <3>2. PICK s \in [1..Cardinality(U) -> U] : Increasing(s, Cardinality(U))
      BY <3>1
    <3>3. CASE n + 1 \notin T
      <4>1. U = T
        BY <3>3
      <4>2. QED
        BY <3>2, <4>1
    <3>4. CASE n + 1 \in T
      <4> DEFINE c == Cardinality(U)
                 r == [k \in 1..c + 1 |-> IF k = c + 1 THEN n + 1 ELSE s[k]]
      <4>1. IsFiniteSet(U)
        <5>1. IsFiniteSet(1..n)
          BY <2>1, FS_Interval
        <5>2. QED
          BY <3>1, <5>1, FS_Subset
      <4>2. T = U \cup {n + 1} /\ n + 1 \notin U
        BY <3>4
      <4>3. c \in Nat /\ Cardinality(T) = c + 1
        BY <4>1, <4>2, FS_AddElement, FS_CardinalityType
      <4> HIDE DEF c, U
      <4>4. \A k \in 1..c : s[k] \in U /\ s[k] \in 1..n
        BY <3>1, <3>2 DEF c
      <4>5. r \in [1..c + 1 -> T]
        BY <4>2, <4>3, <4>4
      <4>6. Increasing(r, c + 1)
        <5> SUFFICES ASSUME NEW k \in 1..c + 1, NEW l \in 1..c + 1, k < l
                     PROVE  r[k] < r[l]
          BY DEF Increasing
        <5>1. k \in 1..c /\ r[k] = s[k]
          BY <4>3
        <5>2. CASE l = c + 1
          BY <2>1, <4>3, <4>4, <5>1, <5>2
        <5>3. CASE l # c + 1
          BY <3>2, <4>3, <5>1, <5>3 DEF Increasing, c
        <5>4. QED
          BY <5>2, <5>3
      <4>7. QED
        BY <4>3, <4>5, <4>6
    <3>5. QED
      BY <3>3, <3>4
  <2>3. QED
    BY <2>1, <2>2
<1>3. J \in SUBSET (0..N) /\ 0 <= N
  OBVIOUS
<1> HIDE DEF J
<1>4. N \in J
  BY <1>1, <1>2, <1>3, IntervalInduction
<1>5. QED
  BY <1>4 DEF J

LEMMA InOrderFacts ==
  ASSUME NEW N \in Nat, NEW positions \in SUBSET (1..N)
  PROVE  /\ Cardinality(positions) \in Nat /\ (positions # {} => Cardinality(positions) # 0)
         /\ InOrder(positions) \in [1..Cardinality(positions) -> positions]
         /\ Increasing(InOrder(positions), Cardinality(positions))
         /\ \A p \in positions : \E k \in 1..Cardinality(positions) : InOrder(positions)[k] = p
<1>1. IsFiniteSet(positions)
  <2>1. IsFiniteSet(1..N)
    BY FS_Interval
  <2>2. QED
    BY <2>1, FS_Subset
<1>2. Cardinality(positions) \in Nat /\ (positions # {} => Cardinality(positions) # 0)
  BY <1>1, FS_CardinalityType, FS_EmptySet
<1>3. \E s \in [1..Cardinality(positions) -> positions] : Increasing(s, Cardinality(positions))
  BY Enumeration
<1>4. PICK s \in [1..Cardinality(positions) -> positions] :
        s = InOrder(positions) /\ Increasing(s, Cardinality(positions))
  BY <1>3 DEF InOrder, Increasing
<1>5. PICK n \in Nat : n = Cardinality(positions)
  BY <1>2
<1>6. PICK image : image = {s[k] : k \in 1..n}
  OBVIOUS
<1>7. image \in SUBSET positions
  BY <1>4, <1>5, <1>6
<1>8. Cardinality(image) = n
  <2>1. s \in Surjection(1..n, image)
    BY <1>4, <1>5, <1>6 DEF Surjection
  <2>2. ASSUME NEW k \in 1..n, NEW l \in 1..n, s[k] = s[l] PROVE k = l
    <3>1. s[k] \in Nat /\ s[l] \in Nat
      <4>1. s[k] \in positions /\ s[l] \in positions
        BY <1>4, <1>5
      <4>2. \A p \in positions : p \in Nat
        OBVIOUS
      <4>3. QED
        BY <4>1, <4>2
    <3>2. ~(k < l) /\ ~(l < k)
      BY <1>4, <1>5, <2>2, <3>1 DEF Increasing
    <3>3. QED
      BY <1>5, <3>2
  <2>3. s \in Injection(1..n, image)
    BY <1>4, <1>5, <1>6, <2>2 DEF Injection, IsInjective
  <2>4. QED
    BY <1>5, <2>1, <2>3, FS_Interval, FS_Surjection
<1>9. image = positions
  BY <1>1, <1>5, <1>7, <1>8, FS_Subset
<1>10. QED
  BY <1>2, <1>4, <1>5, <1>6, <1>9
=============================================================================
