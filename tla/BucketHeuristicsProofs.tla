------------------------ MODULE BucketHeuristicsProofs ------------------------
(****************************************************************************)
(* Theorems about module BucketHeuristics, for every finite set of nodes,   *)
(* every set of configurations of the six algorithms and any number of      *)
(* parallel edges.                                                          *)
(****************************************************************************)
EXTENDS BucketHeuristics, OrientationsProofs, SequenceTheorems

(****************************************************************************)
(* Moves between buckets.                                                   *)
(****************************************************************************)

Arrays(deg, L, pos) ==
  /\ deg \in [Node -> Degrees]
  /\ L \in [Degrees -> Seq(Node)]
  /\ pos \in [Node -> Nat \ {0}]

\* Every entry of a bucket is a node of that out-degree, at the position recorded for
\* it: no bucket holds a node twice, or one that has gone elsewhere.
Entered(deg, L, pos) ==
  \A k \in Degrees : \A j \in 1..Len(L[k]) : deg[L[k][j]] = k /\ pos[L[k][j]] = j

\* Every node is in its bucket.
Found(deg, L, pos) ==
  \A v \in Node : pos[v] <= Len(L[deg[v]]) /\ L[deg[v]][pos[v]] = v

Structured(b0) ==
  /\ Arrays(b0.m_degree, b0.m_degree_buckets, b0.m_bucket_pos)
  /\ Entered(b0.m_degree, b0.m_degree_buckets, b0.m_bucket_pos)
  /\ Found(b0.m_degree, b0.m_degree_buckets, b0.m_bucket_pos)

\* top is the number of the highest bucket that is not empty.
IsHighest(L, top) ==
  top \in Degrees /\ L[top] # <<>> /\ \A k \in Degrees : k > top => L[k] = <<>>

HighestIsMaximum(b0) == IsHighest(b0.m_degree_buckets, b0.m_max_degree)

\* The out-degrees are the numbers below that of the nodes.
LEMMA DegreesType == Cardinality(Node) \in Nat \ {0} /\ Degrees \subseteq Nat /\ 0 \in Degrees
<1>1. Cardinality(Node) \in Nat /\ Cardinality(Node) # 0
  BY NodeAssumption, FS_CardinalityType, FS_EmptySet
<1>2. QED
  BY <1>1 DEF Degrees

\* What is left of a list when the last entry takes the place of one that goes.
LEMMA SwappedOutFacts ==
  ASSUME NEW list \in Seq(Node), NEW k \in 1..Len(list)
  PROVE  /\ SwappedOut(list, k) \in Seq(Node)
         /\ Len(SwappedOut(list, k)) = Len(list) - 1
         /\ \A j \in 1..Len(list) - 1 :
              SwappedOut(list, k)[j] = IF j = k THEN list[Len(list)] ELSE list[j]
<1> DEFINE n == Len(list)
           full == [list EXCEPT ![k] = list[Len(list)]]
<1>1. n \in Nat /\ n >= 1 /\ list[n] \in Node
  OBVIOUS
<1>2. full \in Seq(Node) /\ Len(full) = n
  BY <1>1
<1>3. \A j \in 1..n : full[j] = IF j = k THEN list[n] ELSE list[j]
  BY <1>1
<1>4. SwappedOut(list, k) = SubSeq(full, 1, n - 1)
  BY DEF SwappedOut
<1> HIDE DEF full
<1>5. 1 \in 1..n + 1 /\ n - 1 \in 0..n
  BY <1>1
<1>6. /\ SubSeq(full, 1, n - 1) \in Seq(Node)
      /\ Len(SubSeq(full, 1, n - 1)) = n - 1
      /\ \A j \in 1..n - 1 : SubSeq(full, 1, n - 1)[j] = full[j]
  BY <1>1, <1>2
<1>7. QED
  BY <1>1, <1>3, <1>4, <1>6

\* The arrays after node has left the bucket old, of which left is left, for new.
Renumbered(deg, deg2, node, new) ==
  \A v \in Node : deg2[v] = IF v = node THEN new ELSE deg[v]

Relisted(L, L2, node, old, left, new) ==
  \A k \in Degrees :
    L2[k] = IF k = old THEN left ELSE IF k = new THEN Append(L[k], node) ELSE L[k]

Replaced(pos, pos2, node, left, last) ==
  \A v \in Node : pos2[v] = IF v = node THEN last
                            ELSE IF pos[node] <= Len(left) /\ v = left[pos[node]]
                                 THEN pos[node] ELSE pos[v]

\* A node leaves its bucket for another: every entry stays where it is recorded to be.
LEMMA MoveKeepsStructure ==
  ASSUME NEW deg, NEW L, NEW pos, Arrays(deg, L, pos), Entered(deg, L, pos), Found(deg, L, pos),
         NEW node \in Node, NEW new \in Degrees, NEW old \in Degrees,
         new # old, old = deg[node],
         NEW place \in Nat, place = pos[node], NEW n \in Nat, n = Len(L[old]),
         NEW left, left = SwappedOut(L[old], place),
         NEW deg2, Renumbered(deg, deg2, node, new),
         NEW L2, Relisted(L, L2, node, old, left, new),
         NEW pos2, Replaced(pos, pos2, node, left, Len(L[new]) + 1)
  PROVE  Entered(deg2, L2, pos2) /\ Found(deg2, L2, pos2)
<1>a. \A k \in Degrees : /\ L[k] \in Seq(Node) /\ Len(L[k]) \in Nat
                         /\ \A j \in 1..Len(L[k]) : L[k][j] \in Node
  BY DEF Arrays
<1>b. \A v \in Node : deg[v] \in Degrees /\ pos[v] \in Nat /\ pos[v] >= 1
  BY DEF Arrays
<1>1. L[old] \in Seq(Node) /\ place \in 1..n /\ L[old][place] = node
  <2>1. place <= n /\ L[old][place] = node
    BY Zenon DEF Found
  <2>2. QED
    BY <2>1, <1>a, <1>b
<1>c. \A j \in 1..n : L[old][j] \in Node /\ deg[L[old][j]] = old /\ pos[L[old][j]] = j
  BY <1>a DEF Entered
<1>2. /\ left \in Seq(Node) /\ Len(left) = n - 1
      /\ \A j \in 1..n - 1 : left[j] = IF j = place THEN L[old][n] ELSE L[old][j]
  <2>1. place \in 1..Len(L[old])
    BY <1>1
  <2>2. /\ SwappedOut(L[old], place) \in Seq(Node)
        /\ Len(SwappedOut(L[old], place)) = Len(L[old]) - 1
        /\ \A j \in 1..Len(L[old]) - 1 :
             SwappedOut(L[old], place)[j] = IF j = place THEN L[old][Len(L[old])] ELSE L[old][j]
    BY <2>1, <1>1, SwappedOutFacts, Zenon
  <2>3. QED
    BY <2>2, Zenon
<1>3. /\ L2[old] = left
      /\ L2[new] = Append(L[new], node)
      /\ \A k \in Degrees \ {old, new} : L2[k] = L[k]
  BY DEF Relisted
<1>4. /\ Len(L[new]) \in Nat /\ Len(L2[new]) = Len(L[new]) + 1
      /\ \A j \in 1..Len(L[new]) : L2[new][j] = L[new][j]
      /\ L2[new][Len(L[new]) + 1] = node
  <2>1. L[new] \in Seq(Node) /\ L2[new] = Append(L[new], node)
    BY <1>3, <1>a
  <2>2. QED
    BY <2>1, <1>a, AppendProperties
<1>5. place <= n - 1 => /\ left[place] = L[old][n] /\ left[place] \in Node
                        /\ deg[left[place]] = old /\ pos[left[place]] = n
  <2>1. place <= n - 1 => place \in 1..n - 1 /\ n \in 1..n
    BY <1>1
  <2>2. place <= n - 1 => left[place] = L[old][n]
    BY <2>1, <1>2
  <2>3. QED
    BY <2>1, <2>2, <1>c
<1>d. \A v \in Node : deg2[v] = IF v = node THEN new ELSE deg[v]
  BY DEF Renumbered
<1>e. /\ pos2[node] = Len(L[new]) + 1
      /\ place <= n - 1 /\ left[place] # node => pos2[left[place]] = place
      /\ \A v \in Node : v # node /\ (place <= n - 1 => v # left[place]) => pos2[v] = pos[v]
  <2>1. Len(left) = n - 1
    BY <1>2
  <2>2. \A v \in Node : pos2[v] = IF v = node THEN Len(L[new]) + 1
                                  ELSE IF place <= n - 1 /\ v = left[place]
                                       THEN place ELSE pos[v]
    BY <2>1 DEF Replaced
  <2>3. QED
    BY <2>2, <1>5
<1>6. ASSUME NEW k \in Degrees, NEW j \in 1..Len(L2[k])
      PROVE  deg2[L2[k][j]] = k /\ pos2[L2[k][j]] = j
  <2>1. CASE k = old
    <3>1. j \in 1..n - 1 /\ L2[k][j] = left[j]
      BY <2>1, <1>2, <1>3
    <3>2. CASE j = place
      <4>1. L2[k][j] = left[place] /\ place <= n - 1
        BY <3>1, <3>2
      <4>2. left[place] # node
        BY <4>1, <1>5
      <4>3. deg2[left[place]] = old /\ pos2[left[place]] = place
        BY <4>1, <4>2, <1>5, <1>d, <1>e
      <4>4. QED
        BY <4>1, <4>3, <2>1, <3>2
    <3>3. CASE j # place
      <4>1. L2[k][j] = L[old][j] /\ j \in 1..n
        BY <1>2, <3>1, <3>3
      <4>2. L[old][j] \in Node /\ deg[L[old][j]] = old /\ pos[L[old][j]] = j
        BY <4>1, <1>c
      <4>3. L[old][j] # node
        BY <4>2, <3>3
      <4>4. j # n
        BY <3>1
      <4>5. place <= n - 1 => left[place] # L[old][j]
        BY <4>2, <4>4, <1>5
      <4>6. QED
        BY <4>1, <4>2, <4>3, <4>5, <1>d, <1>e, <2>1
    <3>4. QED
      BY <3>2, <3>3
  <2>2. CASE k = new /\ j = Len(L[new]) + 1
    BY <2>2, <1>4, <1>d, <1>e
  <2>3. CASE k # old /\ j \in 1..Len(L[k])
    <3>1. L2[k][j] = L[k][j]
      BY <2>3, <1>3, <1>4
    <3>2. L[k][j] \in Node /\ deg[L[k][j]] = k /\ pos[L[k][j]] = j
      BY <2>3, <1>a DEF Entered
    <3>3. L[k][j] # node /\ (place <= n - 1 => left[place] # L[k][j])
      BY <3>2, <2>3, <1>5
    <3>4. QED
      BY <3>1, <3>2, <3>3, <1>d, <1>e
  <2>4. QED
    <3>1. k = new => j \in 1..Len(L[new]) \/ j = Len(L[new]) + 1
      BY <1>4
    <3>2. k \notin {old, new} => j \in 1..Len(L[k])
      BY <1>3
    <3>3. QED
      BY <3>1, <3>2, <2>1, <2>2, <2>3
<1>7. ASSUME NEW v \in Node
      PROVE  pos2[v] <= Len(L2[deg2[v]]) /\ L2[deg2[v]][pos2[v]] = v
  <2>0. deg[v] \in Degrees /\ pos[v] \in 1..Len(L[deg[v]]) /\ L[deg[v]][pos[v]] = v
    BY <1>a, <1>b DEF Found
  <2>1. CASE v = node
    BY <2>1, <1>4, <1>d, <1>e
  <2>2. CASE v # node /\ deg[v] = old
    <3>1. pos[v] \in 1..n /\ L[old][pos[v]] = v /\ pos[v] # place
      BY <2>0, <2>2, <1>1
    <3>2. CASE pos[v] = n
      <4>1. place <= n - 1 /\ left[place] = v
        BY <3>1, <3>2, <1>1, <1>5
      <4>2. pos2[v] = place /\ deg2[v] = old
        BY <4>1, <2>2, <1>d, <1>e
      <4>3. QED
        BY <4>1, <4>2, <1>2, <1>3
    <3>3. CASE pos[v] # n
      <4>1. pos[v] \in 1..n - 1
        BY <3>1, <3>3
      <4>2. place <= n - 1 => v # left[place]
        BY <1>5, <3>3
      <4>3. pos2[v] = pos[v] /\ deg2[v] = old
        BY <4>2, <2>2, <1>d, <1>e
      <4>4. left[pos[v]] = v
        BY <4>1, <3>1, <1>2
      <4>5. QED
        BY <4>1, <4>3, <4>4, <1>2, <1>3
    <3>4. QED
      BY <3>2, <3>3
  <2>3. CASE deg[v] # old
    <3>1. v # node /\ (place <= n - 1 => v # left[place])
      BY <2>3, <1>5
    <3>2. pos2[v] = pos[v] /\ deg2[v] = deg[v]
      BY <3>1, <1>d, <1>e
    <3>3. pos[v] <= Len(L2[deg[v]]) /\ L2[deg[v]][pos[v]] = v
      <4>1. CASE deg[v] = new
        BY <4>1, <2>0, <1>4
      <4>2. CASE deg[v] # new
        BY <4>2, <2>0, <2>3, <1>3
      <4>3. QED
        BY <4>1, <4>2
    <3>4. QED
      BY <3>2, <3>3
  <2>4. QED
    BY <2>1, <2>2, <2>3
<1>8. QED
  BY <1>6, <1>7 DEF Entered, Found

\* The loop that follows m_max_degree downwards ends at the highest bucket in use.
LEMMA HighestFacts ==
  ASSUME NEW L, NEW bound \in Degrees, NEW used \in Degrees, used <= bound, L[used] # <<>>,
         \A k \in Degrees : k > bound => L[k] = <<>>
  PROVE  IsHighest(L, Highest(L, bound))
<1>1. Degrees \subseteq Nat /\ 0..bound \subseteq Degrees
  <2>1. PICK c \in Nat : c = Cardinality(Node)
    BY DegreesType
  <2>2. Degrees = 0..c - 1
    BY <2>1 DEF Degrees
  <2>3. QED
    BY <2>1, <2>2
<1> DEFINE T == {n \in 0..bound : L[bound - n] # <<>>}
<1>2. PICK n \in T : \A t \in T : n <= t
  <2>1. bound - used \in T /\ T \in SUBSET Nat
    BY <1>1
  <2> HIDE DEF T
  <2>2. QED
    BY <2>1, LeastNatural
<1>3. PICK k \in 0..bound : k = bound - n
  BY <1>1, <1>2
<1>4. L[k] # <<>> /\ \A j \in k + 1..bound : L[j] = <<>>
  <2>1. L[k] # <<>>
    BY <1>2, <1>3
  <2>2. ASSUME NEW j \in k + 1..bound PROVE L[j] = <<>>
    <3>1. bound - j \in 0..bound /\ bound - (bound - j) = j /\ ~(n <= bound - j)
      BY <1>1, <1>2, <1>3
    <3>2. bound - j \notin T
      BY <3>1, <1>2
    <3>3. QED
      BY <3>1, <3>2
  <2>3. QED
    BY <2>1, <2>2
<1>5. PICK top : top = Highest(L, bound)
  OBVIOUS
<1>6. top \in 0..bound /\ L[top] # <<>> /\ \A j \in top + 1..bound : L[j] = <<>>
  BY <1>4, <1>5 DEF Highest
<1>7. ASSUME NEW j \in Degrees, j > top PROVE L[j] = <<>>
  <2>1. CASE j > bound
    BY <2>1
  <2>2. CASE ~(j > bound)
    <3>1. j \in top + 1..bound
      BY <1>1, <1>6, <1>7, <2>2
    <3>2. QED
      BY <3>1, <1>6
  <2>3. QED
    BY <2>1, <2>2
<1>8. QED
  BY <1>1, <1>5, <1>6, <1>7 DEF IsHighest

\* move_node_to_new_bucket keeps the buckets in order, whatever it moves and whichever
\* way, and with it the out-degree of the node changes.
LEMMA MovedFacts ==
  ASSUME NEW b0, Structured(b0), HighestIsMaximum(b0), NEW node \in Node,
         NEW change \in {-1, 1}, b0.m_degree[node] + change \in Degrees
  PROVE  /\ Structured(Moved(b0, node, change)) /\ HighestIsMaximum(Moved(b0, node, change))
         /\ \A v \in Node : Moved(b0, node, change).m_degree[v] =
                              IF v = node THEN b0.m_degree[v] + change ELSE b0.m_degree[v]
<1>1. PICK deg, L, pos, max : /\ deg = b0.m_degree /\ L = b0.m_degree_buckets
                              /\ pos = b0.m_bucket_pos /\ max = b0.m_max_degree
  OBVIOUS
<1>2. Arrays(deg, L, pos) /\ Entered(deg, L, pos) /\ Found(deg, L, pos) /\ IsHighest(L, max)
  BY <1>1 DEF Structured, HighestIsMaximum
<1>3. PICK old \in Degrees, new \in Degrees : old = deg[node] /\ new = old + change
  BY <1>1, <1>2 DEF Arrays
<1>4. new # old /\ Degrees \subseteq Nat /\ max \in Degrees
  BY <1>2, <1>3, DegreesType DEF IsHighest
<1>5. PICK place \in Nat, n \in Nat : place = pos[node] /\ n = Len(L[old])
  BY <1>2 DEF Arrays
<1>6. PICK left : left = SwappedOut(L[old], place)
  OBVIOUS
<1>7. L \in [Degrees -> Seq(Node)] /\ deg \in [Node -> Degrees] /\ pos \in [Node -> Nat \ {0}]
  BY <1>2 DEF Arrays
<1>8. place \in 1..n /\ L[old] \in Seq(Node) /\ left \in Seq(Node) /\ Len(left) = n - 1
  <2>1. place >= 1 /\ place <= n
    BY <1>2, <1>3, <1>5, <1>7 DEF Found
  <2>2. place \in 1..Len(L[old]) /\ L[old] \in Seq(Node)
    BY <2>1, <1>5, <1>7
  <2>3. QED
    BY <2>2, <1>5, <1>6, SwappedOutFacts
<1>9. PICK deg2 : deg2 = [deg EXCEPT ![node] = new]
  OBVIOUS
<1>10. PICK L2 : L2 = [L EXCEPT ![old] = left, ![new] = Append(@, node)]
  OBVIOUS
<1>11. Relisted(L, L2, node, old, left, new)
  BY <1>4, <1>7, <1>10 DEF Relisted
<1>12. L2 \in [Degrees -> Seq(Node)]
  <2>1. Append(L[new], node) \in Seq(Node)
    BY <1>7, AppendProperties
  <2>2. [L EXCEPT ![old] = left] \in [Degrees -> Seq(Node)]
    BY <1>7, <1>8
  <2>3. [L EXCEPT ![old] = left][new] = L[new]
    BY <1>4, <1>7
  <2>4. L2 = [[L EXCEPT ![old] = left] EXCEPT ![new] = Append(L[new], node)]
    BY <2>3, <1>10
  <2>5. QED
    BY <2>1, <2>2, <2>4
<1>13. deg2 \in [Node -> Degrees] /\ Renumbered(deg, deg2, node, new)
  BY <1>7, <1>9 DEF Renumbered
<1>14. PICK last \in Nat \ {0} : last = Len(L2[new]) /\ last = Len(L[new]) + 1
  <2>1. L2[new] = Append(L[new], node) /\ L[new] \in Seq(Node)
    BY <1>4, <1>7, <1>11 DEF Relisted
  <2>2. Len(L[new]) \in Nat /\ Len(L2[new]) = Len(L[new]) + 1
    BY <2>1, AppendProperties, LenProperties
  <2>3. QED
    BY <2>2
<1>15. PICK positions :
         positions = IF place <= Len(left) THEN [pos EXCEPT ![left[place]] = place] ELSE pos
  OBVIOUS
<1>16. PICK pos2 : pos2 = [positions EXCEPT ![node] = last]
  OBVIOUS
<1>17. /\ pos2 \in [Node -> Nat \ {0}]
       /\ Replaced(pos, pos2, node, left, last)
  <2>1. place <= Len(left) => left[place] \in Node
    BY <1>8
  <2>2. positions \in [Node -> Nat \ {0}]
    BY <2>1, <1>7, <1>8, <1>15
  <2>3. \A v \in Node : positions[v] = IF place <= Len(left) /\ v = left[place]
                                       THEN place ELSE pos[v]
    BY <2>1, <1>7, <1>15
  <2>4. QED
    BY <2>2, <2>3, <1>5, <1>16 DEF Replaced
<1>18. Entered(deg2, L2, pos2) /\ Found(deg2, L2, pos2)
  <2>1. Replaced(pos, pos2, node, left, Len(L[new]) + 1)
    BY <1>14, <1>17
  <2>2. /\ new # old /\ old = deg[node] /\ place = pos[node] /\ n = Len(L[old])
        /\ Renumbered(deg, deg2, node, new)
    BY <1>3, <1>4, <1>5, <1>13
  <2>3. QED
    BY <1>2, <1>6, <1>11, <2>1, <2>2, MoveKeepsStructure, ZenonT(30)
<1>19. PICK bound \in Degrees : bound = IF new > max THEN new ELSE max
  BY <1>4
<1>20. IsHighest(L2, Highest(L2, bound))
  <2>1. new <= bound /\ max <= bound
    BY <1>4, <1>19
  <2>2. L2[new] # <<>>
    BY <1>12, <1>14
  <2>3. old <= max
    <3>1. L[old] # <<>>
      BY <1>5, <1>8
    <3>2. QED
      BY <3>1, <1>2, <1>4 DEF IsHighest
  <2>4. ASSUME NEW k \in Degrees, k > bound PROVE L2[k] = <<>>
    <3>1. k # new /\ k # old /\ k > max
      BY <2>1, <2>3, <2>4, <1>4
    <3>2. QED
      BY <3>1, <1>2, <1>11 DEF IsHighest, Relisted
  <2>5. QED
    BY <2>1, <2>2, <2>4, HighestFacts
<1>21. Moved(b0, node, change) = [m_degree |-> deg2, m_degree_buckets |-> L2,
                                  m_bucket_pos |-> pos2, m_max_degree |-> Highest(L2, bound)]
  BY <1>1, <1>3, <1>5, <1>6, <1>9, <1>10, <1>14, <1>15, <1>16, <1>19 DEF Moved
<1>22. PICK b2 : b2 = Moved(b0, node, change)
  OBVIOUS
<1>23. /\ b2.m_degree = deg2 /\ b2.m_degree_buckets = L2
       /\ b2.m_bucket_pos = pos2 /\ b2.m_max_degree = Highest(L2, bound)
  BY <1>21, <1>22
<1>24. Structured(b2) /\ HighestIsMaximum(b2)
  BY <1>12, <1>13, <1>17, <1>18, <1>20, <1>23 DEF Structured, HighestIsMaximum, Arrays
<1>25. \A v \in Node : b2.m_degree[v] = IF v = node THEN b0.m_degree[v] + change
                                                  ELSE b0.m_degree[v]
  BY <1>1, <1>3, <1>13, <1>23 DEF Renumbered
<1>26. QED
  BY <1>22, <1>24, <1>25

(****************************************************************************)
(* The lengths of the lists.                                                *)
(****************************************************************************)
List == [Node -> 0..MaxCopies]

\* The entries of a list, numbered for each node.
Slots(list) == UNION {{w} \X (1..list[w]) : w \in Node}

LEMMA SlotsMembers ==
  ASSUME NEW list \in List
  PROVE  /\ \A w, c : <<w, c>> \in Slots(list) <=> w \in Node /\ c \in 1..list[w]
         /\ Slots(list) \subseteq Node \X (1..MaxCopies)
<1>1. \A w, c : <<w, c>> \in Slots(list) <=> w \in Node /\ c \in 1..list[w]
  BY DEF Slots
<1>2. ASSUME NEW s \in Slots(list) PROVE s \in Node \X (1..MaxCopies)
  <2>1. PICK w \in Node : s \in {w} \X (1..list[w])
    BY <1>2 DEF Slots
  <2>2. PICK c \in 1..list[w] : s = <<w, c>>
    BY <2>1
  <2>3. list[w] \in 0..MaxCopies
    BY DEF List
  <2>4. c \in 1..MaxCopies
    BY <2>2, <2>3, MaxCopiesAssumption
  <2>5. QED
    BY <2>2, <2>4
<1>3. QED
  BY <1>1, <1>2

LEMMA LengthType ==
  ASSUME NEW list \in List
  PROVE  IsFiniteSet(Slots(list)) /\ Length(list) = Cardinality(Slots(list)) /\ Length(list) \in Nat
<1>1. IsFiniteSet(1..MaxCopies)
  BY MaxCopiesAssumption, FS_Interval
<1>2. IsFiniteSet(Node \X (1..MaxCopies))
  BY <1>1, NodeAssumption, FS_Product
<1>3. IsFiniteSet(Slots(list))
  BY <1>2, SlotsMembers, FS_Subset
<1>4. QED
  BY <1>3, FS_CardinalityType DEF Length, Slots

\* list2 holds w once more than list.
OneMore(list, list2, w) ==
  list2[w] = list[w] + 1 /\ \A x \in Node \ {w} : list2[x] = list[x]

LEMMA LengthOneMore ==
  ASSUME NEW list \in List, NEW list2 \in List, NEW w \in Node, OneMore(list, list2, w)
  PROVE  Length(list2) = Length(list) + 1
<1> PICK c \in Nat : c = list[w]
  BY DEF List
<1>1. \A x \in Node : list[x] \in Nat /\ list2[x] \in Nat
  BY DEF List
<1>2. list2[w] = c + 1
  BY DEF OneMore
<1>3. ASSUME NEW s PROVE s \in Slots(list2) <=> s \in Slots(list) \cup {<<w, c + 1>>}
  <2>1. CASE \E x, d : s = <<x, d>>
    <3>1. PICK x, d : s = <<x, d>>
      BY <2>1
    <3>2. CASE x = w
      <4>1. d \in 1..c + 1 <=> d \in 1..c \/ d = c + 1
        OBVIOUS
      <4>2. QED
        BY <4>1, <3>1, <3>2, <1>2, SlotsMembers
    <3>3. CASE x # w
      BY <3>1, <3>3, SlotsMembers DEF OneMore
    <3>4. QED
      BY <3>2, <3>3
  <2>2. CASE ~\E x, d : s = <<x, d>>
    BY <2>2, SlotsMembers
  <2>3. QED
    BY <2>1, <2>2
<1>4. Slots(list2) = Slots(list) \cup {<<w, c + 1>>}
  BY <1>3
<1>5. <<w, c + 1>> \notin Slots(list)
  <2>1. c + 1 \notin 1..c
    OBVIOUS
  <2>2. QED
    BY <2>1, SlotsMembers
<1>6. Cardinality(Slots(list) \cup {<<w, c + 1>>}) = Cardinality(Slots(list)) + 1
  BY <1>5, LengthType, FS_AddElement
<1>7. QED
  BY <1>4, <1>6, LengthType

\* A list that holds a node is not empty.
LEMMA LengthPositive ==
  ASSUME NEW list \in List, NEW w \in Node, list[w] > 0
  PROVE  Length(list) \in Nat /\ Length(list) >= 1
<1>1. list[w] \in Nat
  BY DEF List
<1>2. <<w, 1>> \in Slots(list)
  BY <1>1, SlotsMembers
<1>3. Slots(list) # {}
  BY <1>2
<1>4. Length(list) # 0
  BY <1>3, LengthType, FS_EmptySet
<1>5. QED
  BY <1>4, LengthType

\* The lists of a new graph are empty.
LEMMA LengthZero ==
  ASSUME NEW list \in List, \A w \in Node : list[w] = 0
  PROVE  Length(list) = 0
<1>1. \A x, d : <<x, d>> \notin Slots(list)
  <2>1. 1..0 = {}
    OBVIOUS
  <2>2. \A x \in Node : 1..list[x] = {}
    BY <2>1, Zenon
  <2>3. QED
    BY <2>2, SlotsMembers
<1>2. Slots(list) = {}
  BY <1>1, SlotsMembers
<1>3. QED
  BY <1>2, LengthType, FS_EmptySet

(****************************************************************************)
(* Turning the arcs of a path.                                              *)
(****************************************************************************)

\* The lists hold no node in its own list, and for every two nodes no more entries
\* than the graph has edges.
EntriesWithin ==
  /\ edges \in [Edge -> 0..MaxCopies]
  /\ m_adj \in [Node -> List]
  /\ \A v \in Node : m_adj[v][v] = 0
  /\ \A u, v \in Node : u # v => m_adj[u][v] + m_adj[v][u] <= edges[{u, v}]

\* What a search, a walk or a descent turns.
IsTurnable(p) ==
  /\ p \in Seq(Node) /\ Len(p) >= 2 /\ Simple(p)
  /\ \A k \in 1..Len(p) - 1 : m_adj[p[k]][p[k + 1]] > 0

LEMMA EntryType ==
  ASSUME m_adj \in [Node -> List], NEW u \in Node, NEW v \in Node
  PROVE  m_adj[u] \in List /\ m_adj[u][v] \in Nat /\ m_adj[u][v] <= MaxCopies
<1>1. m_adj[u] \in List
  OBVIOUS
<1>2. m_adj[u][v] \in 0..MaxCopies
  BY <1>1 DEF List
<1>3. QED
  BY <1>1, <1>2, MaxCopiesAssumption

LEMMA ArcsAreOnPath == ASSUME NEW p, NEW u, NEW v PROVE <<u, v>> \in Arcs(p) <=> OnPath(p, u, v)
BY DEF Arcs, OnPath

LEMMA OnPathFacts ==
  ASSUME EntriesWithin, NEW p, IsTurnable(p), NEW u \in Node, NEW v \in Node, OnPath(p, u, v)
  PROVE  m_adj[u][v] >= 1 /\ u # v /\ ~OnPath(p, v, u)
<1>1. PICK k \in 1..Len(p) - 1 : p[k] = u /\ p[k + 1] = v
  BY DEF OnPath
<1>2. Len(p) \in Nat /\ k \in 1..Len(p) /\ k + 1 \in 1..Len(p)
  BY DEF IsTurnable
<1>3. m_adj[u][v] >= 1
  <2>1. m_adj[u][v] > 0 /\ m_adj[u][v] \in Nat
    BY <1>1, EntryType DEF IsTurnable, EntriesWithin
  <2>2. QED
    BY <2>1
<1>4. \A h, j \in 1..Len(p) : p[h] = p[j] => h = j
  BY DEF IsTurnable, Simple
<1>5. u # v
  BY <1>1, <1>2, <1>4
<1>6. ASSUME NEW h \in 1..Len(p) - 1, p[h] = v, p[h + 1] = u PROVE FALSE
  <2>1. h \in 1..Len(p) /\ h + 1 \in 1..Len(p)
    BY <1>2
  <2>2. h = k + 1 /\ h + 1 = k
    BY <2>1, <1>1, <1>2, <1>4, <1>6
  <2>3. QED
    BY <2>2
<1>7. QED
  BY <1>3, <1>5, <1>6 DEF OnPath

\* An arc of the path is turned, no other arc changes.
LEMMA ReversedEntries ==
  ASSUME EntriesWithin, NEW p, IsTurnable(p), NEW u \in Node, NEW v \in Node
  PROVE  /\ OnPath(p, u, v) => Reversed(p)[u][v] = m_adj[u][v] - 1
         /\ OnPath(p, v, u) => Reversed(p)[u][v] = m_adj[u][v] + 1
         /\ ~OnPath(p, u, v) /\ ~OnPath(p, v, u) => Reversed(p)[u][v] = m_adj[u][v]
<1>1. Reversed(p)[u][v] = m_adj[u][v] - (IF OnPath(p, u, v) THEN 1 ELSE 0)
                                      + (IF OnPath(p, v, u) THEN 1 ELSE 0)
  BY ArcsAreOnPath DEF Reversed
<1>2. m_adj[u][v] \in Nat
  BY EntryType DEF EntriesWithin
<1>3. OnPath(p, u, v) => ~OnPath(p, v, u)
  BY OnPathFacts
<1>4. QED
  BY <1>1, <1>2, <1>3

\* Between two nodes there are as many entries as before.
LEMMA ReversedKeepsEntries ==
  ASSUME EntriesWithin, NEW p, IsTurnable(p)
  PROVE  /\ Reversed(p) \in [Node -> List]
         /\ \A u, v \in Node : Reversed(p)[u][v] + Reversed(p)[v][u] = m_adj[u][v] + m_adj[v][u]
         /\ \A v \in Node : Reversed(p)[v][v] = 0
<1>1. ASSUME NEW u \in Node, NEW v \in Node
      PROVE  /\ Reversed(p)[u][v] \in Nat
             /\ Reversed(p)[u][v] + Reversed(p)[v][u] = m_adj[u][v] + m_adj[v][u]
  <2>1. m_adj[u][v] \in Nat /\ m_adj[v][u] \in Nat
    BY EntryType DEF EntriesWithin
  <2>2. OnPath(p, u, v) => m_adj[u][v] >= 1 /\ ~OnPath(p, v, u)
    BY OnPathFacts
  <2>3. OnPath(p, v, u) => m_adj[v][u] >= 1 /\ ~OnPath(p, u, v)
    BY OnPathFacts
  <2>4. /\ OnPath(p, u, v) => Reversed(p)[u][v] = m_adj[u][v] - 1 /\ Reversed(p)[v][u] = m_adj[v][u] + 1
        /\ OnPath(p, v, u) => Reversed(p)[u][v] = m_adj[u][v] + 1 /\ Reversed(p)[v][u] = m_adj[v][u] - 1
        /\ ~OnPath(p, u, v) /\ ~OnPath(p, v, u) => /\ Reversed(p)[u][v] = m_adj[u][v]
                                                    /\ Reversed(p)[v][u] = m_adj[v][u]
    BY ReversedEntries
  <2>5. QED
    BY <2>1, <2>2, <2>3, <2>4
<1>2. ASSUME NEW v \in Node PROVE Reversed(p)[v][v] = 0
  <2>1. ~OnPath(p, v, v)
    BY OnPathFacts
  <2>2. QED
    BY <2>1, ReversedEntries DEF EntriesWithin
<1>3. ASSUME NEW u \in Node, NEW v \in Node PROVE Reversed(p)[u][v] \in 0..MaxCopies
  <2>1. CASE u = v
    BY <1>2, <2>1, MaxCopiesAssumption
  <2>2. CASE u # v
    <3>1. {u, v} \in Edge
      BY <2>2 DEF Edge
    <3>2. edges[{u, v}] \in 0..MaxCopies /\ m_adj[u][v] + m_adj[v][u] <= edges[{u, v}]
      BY <2>2, <3>1 DEF EntriesWithin
    <3>3. Reversed(p)[u][v] \in Nat /\ Reversed(p)[v][u] \in Nat
      BY <1>1
    <3>4. m_adj[u][v] + m_adj[v][u] \in Nat
      BY EntryType DEF EntriesWithin
    <3>5. Reversed(p)[u][v] + Reversed(p)[v][u] = m_adj[u][v] + m_adj[v][u]
      BY <1>1
    <3>6. QED
      BY <3>2, <3>3, <3>4, <3>5, MaxCopiesAssumption
  <2>3. QED
    BY <2>1, <2>2
<1>4. Reversed(p) \in [Node -> List]
  <2>1. PICK f : f = Reversed(p)
    OBVIOUS
  <2>2. f = [u \in Node |-> [v \in Node |-> f[u][v]]]
    BY <2>1 DEF Reversed
  <2>3. \A u, v \in Node : f[u][v] \in 0..MaxCopies
    BY <1>3, <2>1
  <2>4. \A u \in Node : [v \in Node |-> f[u][v]] \in List
    BY <2>3 DEF List
  <2>5. QED
    BY <2>1, <2>2, <2>4, Zenon
<1>5. QED
  BY <1>1, <1>2, <1>4

\* The first node of the path has one entry less, the last one more, and every other
\* list is as long as before.
LEMMA ReversedLengths ==
  ASSUME EntriesWithin, NEW p, IsTurnable(p), NEW v \in Node
  PROVE  /\ v = p[1] => Length(Reversed(p)[v]) = Length(m_adj[v]) - 1
         /\ v = p[Len(p)] => Length(Reversed(p)[v]) = Length(m_adj[v]) + 1
         /\ v # p[1] /\ v # p[Len(p)] => Length(Reversed(p)[v]) = Length(m_adj[v])
<1> PICK n \in Nat : n = Len(p)
  BY DEF IsTurnable
<1>1. n >= 2 /\ \A k \in 1..n : p[k] \in Node
  BY DEF IsTurnable
<1>2. \A h, j \in 1..n : p[h] = p[j] => h = j
  BY DEF IsTurnable, Simple
<1>3. PICK before \in List, after \in List : before = m_adj[v] /\ after = Reversed(p)[v]
  BY ReversedKeepsEntries DEF EntriesWithin
<1>4. \A w \in Node :
        /\ OnPath(p, v, w) => after[w] = before[w] - 1
        /\ OnPath(p, w, v) => after[w] = before[w] + 1
        /\ ~OnPath(p, v, w) /\ ~OnPath(p, w, v) => after[w] = before[w]
  BY <1>3, ReversedEntries
<1>5. \A w \in Node : before[w] \in Nat /\ after[w] \in Nat
  BY MaxCopiesAssumption DEF List
<1>6. Length(before) \in Nat /\ Length(after) \in Nat
  BY LengthType
<1>7. CASE v = p[1]
  <2>1. \A w \in Node : OnPath(p, v, w) <=> w = p[2]
    BY <1>1, <1>2, <1>7 DEF OnPath
  <2>2. \A w : ~OnPath(p, w, v)
    <3>1. \A k \in 1..n - 1 : p[k + 1] # p[1]
      BY <1>1, <1>2
    <3>2. QED
      BY <3>1, <1>7 DEF OnPath
  <2>3. p[2] \in Node /\ OneMore(after, before, p[2])
    BY <1>1, <1>4, <1>5, <2>1, <2>2 DEF OneMore
  <2>4. Length(before) = Length(after) + 1
    BY <2>3, LengthOneMore
  <2>5. v # p[n]
    BY <1>1, <1>2, <1>7
  <2>6. QED
    BY <1>3, <1>6, <1>7, <2>4, <2>5
<1>8. CASE v = p[n]
  <2>1. \A w \in Node : OnPath(p, w, v) <=> w = p[n - 1]
    <3>1. \A k \in 1..n - 1 : p[k + 1] = p[n] => k = n - 1
      BY <1>1, <1>2
    <3>2. n - 1 \in 1..n - 1 /\ (n - 1) + 1 = n
      BY <1>1
    <3>3. QED
      BY <3>1, <3>2, <1>8 DEF OnPath
  <2>2. \A w : ~OnPath(p, v, w)
    <3>1. \A k \in 1..n - 1 : p[k] # p[n]
      BY <1>1, <1>2
    <3>2. QED
      BY <3>1, <1>8 DEF OnPath
  <2>3. p[n - 1] \in Node /\ OneMore(before, after, p[n - 1])
    BY <1>1, <1>4, <1>5, <2>1, <2>2 DEF OneMore
  <2>4. Length(after) = Length(before) + 1
    BY <2>3, LengthOneMore
  <2>5. v # p[1]
    BY <1>1, <1>2, <1>8
  <2>6. QED
    BY <1>3, <1>6, <1>8, <2>4, <2>5
<1>9. CASE v # p[1] /\ v # p[n] /\ \E j \in 1..n : v = p[j]
  <2>1. PICK j \in 2..n - 1 : v = p[j]
    <3>1. PICK j \in 1..n : v = p[j]
      BY <1>9
    <3>2. j # 1 /\ j # n
      BY <3>1, <1>9
    <3>3. j \in 2..n - 1
      BY <3>2, <1>1
    <3>4. QED
      BY <3>1, <3>3
  <2>2. j - 1 \in 1..n - 1 /\ (j - 1) + 1 = j /\ j \in 1..n - 1 /\ j + 1 \in 1..n
    BY <1>1
  <2>3. \A w \in Node : OnPath(p, v, w) <=> w = p[j + 1]
    BY <1>1, <1>2, <2>1, <2>2 DEF OnPath
  <2>4. \A w \in Node : OnPath(p, w, v) <=> w = p[j - 1]
    <3>1. \A k \in 1..n - 1 : p[k + 1] = p[j] => k = j - 1
      BY <1>1, <1>2
    <3>2. QED
      BY <3>1, <2>1, <2>2 DEF OnPath
  <2>5. PICK x \in Node, y \in Node : x = p[j + 1] /\ y = p[j - 1] /\ x # y
    BY <1>1, <1>2, <2>2
  <2>6. after[x] = before[x] - 1 /\ after[y] = before[y] + 1
        /\ \A w \in Node \ {x, y} : after[w] = before[w]
    BY <1>4, <2>3, <2>4, <2>5
  <2>7. PICK middle \in List : OneMore(middle, before, x) /\ OneMore(middle, after, y)
    <3>1. PICK middle : middle = [before EXCEPT ![x] = after[x]]
      OBVIOUS
    <3>2. middle \in List
      BY <3>1 DEF List
    <3>3. middle[x] = after[x] /\ \A w \in Node \ {x} : middle[w] = before[w]
      BY <3>1 DEF List
    <3>4. before[x] = after[x] + 1
      BY <1>5, <2>6
    <3>5. QED
      BY <2>5, <2>6, <3>2, <3>3, <3>4 DEF OneMore
  <2>8. Length(before) = Length(middle) + 1 /\ Length(after) = Length(middle) + 1
    BY <2>7, LengthOneMore
  <2>9. QED
    BY <1>3, <1>9, <2>8
<1>10. CASE ~\E j \in 1..n : v = p[j]
  <2>1. \A w \in Node : ~OnPath(p, v, w) /\ ~OnPath(p, w, v)
    <3>1. \A k \in 1..n - 1 : k \in 1..n /\ k + 1 \in 1..n
      BY <1>1
    <3>2. QED
      BY <1>10, <3>1 DEF OnPath
  <2>2. \A w \in Node : after[w] = before[w]
    BY <1>4, <2>1
  <2>3. after = before
    BY <2>2 DEF List
  <2>4. v # p[1] /\ v # p[n]
    BY <1>1, <1>10
  <2>5. QED
    BY <1>3, <2>3, <2>4
<1>11. QED
  BY <1>7, <1>8, <1>9, <1>10

(****************************************************************************)
(* The updates and the turns, and the buckets that follow them.             *)
(****************************************************************************)

\* The buckets are in order, and hold the nodes by the lengths of their lists.
InBuckets ==
  /\ Structured(b) /\ HighestIsMaximum(b)
  /\ \A v \in Node : b.m_degree[v] = Length(m_adj[v])

LEMMA TwoMovedFacts ==
  ASSUME NEW b0, Structured(b0), HighestIsMaximum(b0), NEW u \in Node, NEW v \in Node, u # v,
         NEW c \in {-1, 1}, b0.m_degree[u] + c \in Degrees,
         NEW d \in {-1, 1}, b0.m_degree[v] + d \in Degrees,
         NEW b2, b2 = Moved(Moved(b0, u, c), v, d)
  PROVE  /\ Structured(b2) /\ HighestIsMaximum(b2)
         /\ b2.m_degree[u] = b0.m_degree[u] + c
         /\ b2.m_degree[v] = b0.m_degree[v] + d
         /\ \A x \in Node \ {u, v} : b2.m_degree[x] = b0.m_degree[x]
<1>1. PICK b1 : b1 = Moved(b0, u, c)
  OBVIOUS
<1>2. /\ Structured(b1) /\ HighestIsMaximum(b1)
      /\ \A x \in Node : b1.m_degree[x] = IF x = u THEN b0.m_degree[x] + c ELSE b0.m_degree[x]
  BY <1>1, MovedFacts
<1>3. b1.m_degree[v] + d \in Degrees
  BY <1>2
<1>4. /\ Structured(b2) /\ HighestIsMaximum(b2)
      /\ \A x \in Node : b2.m_degree[x] = IF x = v THEN b1.m_degree[x] + d ELSE b1.m_degree[x]
  BY <1>1, <1>2, <1>3, MovedFacts
<1>5. QED
  BY <1>2, <1>4

\* Out-degrees are out-degrees, of which there are as many as nodes.
LEMMA BucketTypes ==
  ASSUME InBuckets
  PROVE  /\ \A v \in Node : b.m_degree[v] \in Degrees /\ b.m_degree[v] <= b.m_max_degree
         /\ b.m_max_degree \in Degrees
         /\ \E v \in Node : b.m_degree[v] = b.m_max_degree
         /\ Degrees \subseteq Nat
<1>1. PICK deg, L, pos, max : /\ deg = b.m_degree /\ L = b.m_degree_buckets
                              /\ pos = b.m_bucket_pos /\ max = b.m_max_degree
  OBVIOUS
<1>2. Arrays(deg, L, pos) /\ Entered(deg, L, pos) /\ Found(deg, L, pos) /\ IsHighest(L, max)
  BY <1>1 DEF InBuckets, Structured, HighestIsMaximum
<1>3. max \in Degrees /\ Degrees \subseteq Nat /\ L \in [Degrees -> Seq(Node)]
  BY <1>2, DegreesType DEF IsHighest, Arrays
<1>4. ASSUME NEW v \in Node PROVE deg[v] \in Degrees /\ deg[v] <= max
  <2>1. deg[v] \in Degrees /\ pos[v] \in Nat \ {0}
    BY <1>2 DEF Arrays
  <2>2. pos[v] <= Len(L[deg[v]])
    BY <1>2 DEF Found
  <2>3. L[deg[v]] # <<>>
    BY <2>1, <2>2
  <2>4. ~(deg[v] > max)
    BY <1>2, <2>1, <2>3, Zenon DEF IsHighest
  <2>5. deg[v] \in Nat /\ max \in Nat
    BY <1>3, <2>1
  <2>6. QED
    BY <2>1, <2>4, <2>5
<1>5. \E v \in Node : deg[v] = max
  <2>1. L[max] \in Seq(Node) /\ L[max] # <<>>
    BY <1>2, <1>3 DEF IsHighest
  <2>2. 1 \in 1..Len(L[max]) /\ L[max][1] \in Node
    BY <2>1
  <2>3. deg[L[max][1]] = max
    BY <1>2, <1>3, <2>2 DEF Entered
  <2>4. QED
    BY <2>2, <2>3
<1>6. QED
  BY <1>1, <1>3, <1>4, <1>5

\* A step that turns the arcs of p. The code moves the two ends in either order.
Turns(p) ==
  /\ IsTurnable(p) /\ b.m_degree[p[Len(p)]] + 1 \in Degrees
  /\ m_adj' = Reversed(p) /\ edges' = edges
  /\ \/ b' = Moved(Moved(b, p[Len(p)], 1), p[1], -1)
     \/ b' = Moved(Moved(b, p[1], -1), p[Len(p)], 1)

LEMMA TurnEnds ==
  ASSUME NEW p, IsTurnable(p)
  PROVE  p[1] \in Node /\ p[Len(p)] \in Node /\ p[1] # p[Len(p)]
<1>1. Len(p) \in Nat /\ 1 \in 1..Len(p) /\ Len(p) \in 1..Len(p) /\ 1 # Len(p)
  BY DEF IsTurnable
<1>2. QED
  BY <1>1 DEF IsTurnable, Simple

LEMMA TurnKeeps ==
  ASSUME InBuckets, EntriesWithin, NEW p, Turns(p)
  PROVE  InBuckets' /\ EntriesWithin'
<1>1. PICK u \in Node, v \in Node : u = p[1] /\ v = p[Len(p)] /\ u # v
  BY TurnEnds DEF Turns
<1>2. b.m_degree[u] - 1 \in Degrees
  <2>1. p[2] \in Node /\ m_adj[u][p[2]] > 0
    <3>1. 1 \in 1..Len(p) - 1 /\ 2 \in 1..Len(p) /\ p \in Seq(Node)
      BY DEF Turns, IsTurnable
    <3>2. QED
      BY <3>1, <1>1 DEF Turns, IsTurnable
  <2>2. Length(m_adj[u]) \in Nat /\ Length(m_adj[u]) >= 1
    BY <2>1, LengthPositive DEF EntriesWithin
  <2>3. b.m_degree[u] = Length(m_adj[u]) /\ b.m_degree[u] \in Degrees
    BY BucketTypes DEF InBuckets
  <2>4. PICK c \in Nat : c = Cardinality(Node)
    BY DegreesType
  <2>5. QED
    BY <2>2, <2>3, <2>4 DEF Degrees
<1>3. b.m_degree[u] + (-1) \in Degrees /\ b.m_degree[v] + 1 \in Degrees
  <2>1. b.m_degree[u] \in Nat
    BY BucketTypes
  <2>2. QED
    BY <2>1, <1>1, <1>2 DEF Turns
<1>4. /\ Structured(b') /\ HighestIsMaximum(b')
      /\ b'.m_degree[u] = b.m_degree[u] - 1
      /\ b'.m_degree[v] = b.m_degree[v] + 1
      /\ \A x \in Node \ {u, v} : b'.m_degree[x] = b.m_degree[x]
  <2>0. PICK b2 : b2 = b'
    OBVIOUS
  <2>1. CASE b2 = Moved(Moved(b, v, 1), u, -1)
    <3>1. /\ Structured(b2) /\ HighestIsMaximum(b2)
          /\ b2.m_degree[u] = b.m_degree[u] + (-1)
          /\ b2.m_degree[v] = b.m_degree[v] + 1
          /\ \A x \in Node \ {v, u} : b2.m_degree[x] = b.m_degree[x]
      BY <1>1, <1>3, <2>1, TwoMovedFacts DEF InBuckets
    <3>2. QED
      BY <2>0, <3>1, BucketTypes
  <2>2. CASE b2 = Moved(Moved(b, u, -1), v, 1)
    <3>1. /\ Structured(b2) /\ HighestIsMaximum(b2)
          /\ b2.m_degree[u] = b.m_degree[u] + (-1)
          /\ b2.m_degree[v] = b.m_degree[v] + 1
          /\ \A x \in Node \ {u, v} : b2.m_degree[x] = b.m_degree[x]
      BY <1>1, <1>3, <2>2, TwoMovedFacts DEF InBuckets
    <3>2. QED
      BY <2>0, <3>1, BucketTypes
  <2>3. QED
    BY <1>1, <2>0, <2>1, <2>2 DEF Turns
<1>5. ASSUME NEW x \in Node PROVE b'.m_degree[x] = Length(m_adj'[x])
  <2>1. b.m_degree[x] = Length(m_adj[x])
    BY DEF InBuckets
  <2>2. /\ x = u => Length(m_adj'[x]) = Length(m_adj[x]) - 1
        /\ x = v => Length(m_adj'[x]) = Length(m_adj[x]) + 1
        /\ x # u /\ x # v => Length(m_adj'[x]) = Length(m_adj[x])
    BY <1>1, ReversedLengths DEF Turns
  <2>3. QED
    BY <1>4, <2>1, <2>2
<1>6. InBuckets'
  BY <1>4, <1>5 DEF InBuckets
<1>7. EntriesWithin'
  BY ReversedKeepsEntries DEF EntriesWithin, Turns
<1>8. QED
  BY <1>6, <1>7

(****************************************************************************)
(* An insertion.                                                            *)
(****************************************************************************)

\* What handleInsertion does to the graph, the lists and the buckets.
Inserts(source, target) ==
  /\ source # target /\ edges[{source, target}] < MaxCopies /\ ~overflows(source)
  /\ edges' = [edges EXCEPT ![{source, target}] = @ + 1]
  /\ m_adj' = [m_adj EXCEPT ![source] = With(@, target)]
  /\ b' = Moved(b, source, 1)

LEMMA InsertionEntries ==
  ASSUME EntriesWithin, NEW source \in Node, NEW target \in Node, Inserts(source, target)
  PROVE  /\ edges' \in [Edge -> 0..MaxCopies]
         /\ \A e \in Edge : edges'[e] = IF e = {source, target} THEN edges[e] + 1 ELSE edges[e]
         /\ m_adj' \in [Node -> List]
         /\ \A u, v \in Node : m_adj'[u][v] = IF u = source /\ v = target THEN m_adj[u][v] + 1
                                                                          ELSE m_adj[u][v]
<1> PICK e0 \in Edge : e0 = {source, target}
  BY DEF Inserts, Edge
<1>1. /\ edges \in [Edge -> 0..MaxCopies] /\ edges[e0] < MaxCopies
      /\ edges' = [edges EXCEPT ![e0] = edges[e0] + 1]
      /\ source # target
  BY DEF EntriesWithin, Inserts
<1>2. edges[e0] \in 0..MaxCopies /\ edges[e0] + 1 \in 0..MaxCopies
  <2>1. edges[e0] \in 0..MaxCopies
    BY <1>1
  <2>2. QED
    BY <1>1, <2>1, MaxCopiesAssumption
<1>3. /\ edges' \in [Edge -> 0..MaxCopies]
      /\ \A e \in Edge : edges'[e] = IF e = e0 THEN edges[e] + 1 ELSE edges[e]
  BY <1>1, <1>2
<1>4. /\ m_adj[source][target] \in Nat /\ m_adj[target][source] \in Nat
      /\ m_adj[source][target] + m_adj[target][source] <= edges[e0]
  BY <1>1, EntryType DEF EntriesWithin
<1>5. PICK list, longer : /\ list \in List /\ list = m_adj[source]
                          /\ longer = [list EXCEPT ![target] = list[target] + 1]
  BY DEF EntriesWithin
<1>6. list[target] + 1 \in 0..MaxCopies
  <2>1. list[target] = m_adj[source][target]
    BY <1>5
  <2>2. PICK x \in Nat, y \in Nat, c \in Nat :
          x = m_adj[source][target] /\ y = m_adj[target][source] /\ c = edges[e0]
    BY <1>2, <1>4
  <2>3. x + y <= c /\ c < MaxCopies
    BY <1>1, <1>4, <2>2
  <2>4. x + 1 \in 0..MaxCopies
    BY <2>3, MaxCopiesAssumption
  <2>5. QED
    BY <2>1, <2>2, <2>4
<1>7. longer \in List /\ \A v \in Node : longer[v] = IF v = target THEN list[v] + 1 ELSE list[v]
  BY <1>5, <1>6 DEF List
<1>8. m_adj \in [Node -> List] /\ m_adj' = [m_adj EXCEPT ![source] = longer]
  BY <1>5 DEF EntriesWithin, Inserts, With
<1>9. m_adj' \in [Node -> List] /\ \A u \in Node : m_adj'[u] = IF u = source THEN longer ELSE m_adj[u]
  BY <1>7, <1>8
<1>10. \A u, v \in Node : m_adj'[u][v] = IF u = source /\ v = target THEN m_adj[u][v] + 1
                                                                     ELSE m_adj[u][v]
  BY <1>5, <1>7, <1>9
<1>11. QED
  BY <1>3, <1>9, <1>10

LEMMA InsertionKeeps ==
  ASSUME InBuckets, EntriesWithin, NEW source \in Node, NEW target \in Node,
         Inserts(source, target)
  PROVE  InBuckets' /\ EntriesWithin'
<1>1. source # target /\ m_adj \in [Node -> List] /\ edges \in [Edge -> 0..MaxCopies]
  BY DEF Inserts, EntriesWithin
<1>2. /\ edges' \in [Edge -> 0..MaxCopies]
      /\ \A e \in Edge : edges'[e] = IF e = {source, target} THEN edges[e] + 1 ELSE edges[e]
      /\ m_adj' \in [Node -> List]
      /\ \A u, v \in Node : m_adj'[u][v] = IF u = source /\ v = target THEN m_adj[u][v] + 1
                                                                       ELSE m_adj[u][v]
  BY InsertionEntries
<1>3. PICK adj : adj = m_adj'
  OBVIOUS
<1>4. /\ adj \in [Node -> List]
      /\ \A u, v \in Node : adj[u][v] = IF u = source /\ v = target THEN m_adj[u][v] + 1
                                                                    ELSE m_adj[u][v]
  BY <1>2, <1>3
<1>5. Length(adj[source]) = Length(m_adj[source]) + 1
  <2>1. m_adj[source] \in List /\ adj[source] \in List
    BY <1>1, <1>4
  <2>2. OneMore(m_adj[source], adj[source], target)
    BY <1>4 DEF OneMore
  <2>3. QED
    BY <2>1, <2>2, LengthOneMore
<1>6. ASSUME NEW u \in Node, u # source PROVE adj[u] = m_adj[u]
  <2>1. PICK x \in List, y \in List : x = adj[u] /\ y = m_adj[u]
    BY <1>1, <1>4
  <2>2. \A v \in Node : x[v] = y[v]
    BY <1>4, <1>6, <2>1
  <2>3. QED
    BY <2>1, <2>2 DEF List
<1>7. InBuckets'
  <2>1. b.m_degree[source] + 1 \in Degrees
    BY DEF Inserts, overflows
  <2>2. PICK b2 : b2 = b'
    OBVIOUS
  <2>3. /\ Structured(b2) /\ HighestIsMaximum(b2)
        /\ \A v \in Node : b2.m_degree[v] = IF v = source THEN b.m_degree[v] + 1 ELSE b.m_degree[v]
    BY <2>1, <2>2, MovedFacts DEF InBuckets, Inserts
  <2>4. ASSUME NEW v \in Node PROVE b2.m_degree[v] = Length(adj[v])
    <3>1. b.m_degree[v] = Length(m_adj[v])
      BY DEF InBuckets
    <3>2. CASE v = source
      BY <1>5, <2>3, <3>1, <3>2
    <3>3. CASE v # source
      BY <1>6, <2>3, <3>1, <3>3
    <3>4. QED
      BY <3>2, <3>3
  <2>5. QED
    BY <1>3, <2>2, <2>3, <2>4 DEF InBuckets
<1>8. EntriesWithin'
  <2>1. ASSUME NEW v \in Node PROVE adj[v][v] = 0
    <3>1. m_adj[v][v] = 0
      BY DEF EntriesWithin
    <3>2. QED
      BY <1>1, <1>4, <3>1
  <2>2. ASSUME NEW u \in Node, NEW v \in Node, u # v
        PROVE  adj[u][v] + adj[v][u] <= edges'[{u, v}]
    <3>1. /\ m_adj[u][v] \in Nat /\ m_adj[v][u] \in Nat
          /\ m_adj[u][v] + m_adj[v][u] <= edges[{u, v}]
      BY <2>2, EntryType DEF EntriesWithin
    <3>2. PICK e \in Edge : e = {u, v}
      BY <2>2 DEF Edge
    <3>3. edges[e] \in Nat
      <4>1. edges[e] \in 0..MaxCopies
        BY <1>1
      <4>2. QED
        BY <4>1, MaxCopiesAssumption
    <3>4. e = {source, target} <=> (u = source /\ v = target) \/ (v = source /\ u = target)
      BY <2>2, <3>2
    <3>5. CASE e = {source, target}
      <4>1. edges'[e] = edges[e] + 1
        BY <1>2, <3>5
      <4>2. \/ adj[u][v] = m_adj[u][v] + 1 /\ adj[v][u] = m_adj[v][u]
            \/ adj[u][v] = m_adj[u][v] /\ adj[v][u] = m_adj[v][u] + 1
        BY <1>4, <2>2, <3>4, <3>5
      <4>3. QED
        BY <3>1, <3>2, <3>3, <4>1, <4>2
    <3>6. CASE e # {source, target}
      <4>1. edges'[e] = edges[e]
        BY <1>2, <3>6
      <4>2. adj[u][v] = m_adj[u][v] /\ adj[v][u] = m_adj[v][u]
        BY <1>4, <3>4, <3>6
      <4>3. QED
        BY <3>1, <3>2, <4>1, <4>2
    <3>7. QED
      BY <3>5, <3>6
  <2>3. QED
    BY <1>2, <1>3, <2>1, <2>2 DEF EntriesWithin
<1>9. QED
  BY <1>7, <1>8

(****************************************************************************)
(* A deletion.                                                              *)
(****************************************************************************)

\* What handleDeletion does to the graph, the lists and the buckets.
Deletes(source, target) ==
  /\ source # target /\ edges[{source, target}] > 0
  /\ edges' = [edges EXCEPT ![{source, target}] = @ - 1]
  /\ m_adj' = [m_adj EXCEPT ![source] = Without(@, target), ![target] = Without(@, source)]
  /\ b' = MovedWithout(MovedWithout(b, source, target), target, source)

\* An entry less, if there was one.
Fewer(n) == IF n = 0 THEN 0 ELSE n - 1

LEMMA WithoutFacts ==
  ASSUME NEW list \in List, NEW w \in Node
  PROVE  /\ Without(list, w) \in List
         /\ \A x \in Node : Without(list, w)[x] = IF x = w THEN Fewer(list[x]) ELSE list[x]
         /\ list[w] = 0 => Length(Without(list, w)) = Length(list)
         /\ list[w] > 0 => Length(Without(list, w)) = Length(list) - 1
         /\ list[w] \in Nat /\ Length(list) \in Nat
<1>1. \A x \in Node : list[x] \in 0..MaxCopies
  BY DEF List
<1>2. Fewer(list[w]) \in 0..MaxCopies
  BY <1>1, MaxCopiesAssumption DEF Fewer
<1>3. Without(list, w) = [list EXCEPT ![w] = Fewer(list[w])]
  BY DEF Without, Fewer, List
<1>4. PICK shorter : shorter = Without(list, w)
  OBVIOUS
<1>5. shorter \in List /\ \A x \in Node : shorter[x] = IF x = w THEN Fewer(list[x]) ELSE list[x]
  BY <1>2, <1>3, <1>4 DEF List
<1>6. ASSUME list[w] = 0 PROVE Length(shorter) = Length(list)
  <2>1. \A x \in Node : shorter[x] = list[x]
    BY <1>5, <1>6 DEF Fewer
  <2>2. shorter = list
    BY <1>5, <2>1 DEF List
  <2>3. QED
    BY <2>2
<1>7. ASSUME list[w] > 0 PROVE Length(shorter) = Length(list) - 1
  <2>1. shorter[w] = list[w] - 1 /\ list[w] \in Nat
    BY <1>1, <1>5, <1>7 DEF Fewer
  <2>2. OneMore(shorter, list, w)
    BY <1>5, <2>1 DEF OneMore
  <2>3. Length(list) = Length(shorter) + 1
    BY <1>5, <2>2, LengthOneMore
  <2>4. QED
    BY <1>5, <2>3, LengthType
<1>8. QED
  BY <1>1, <1>4, <1>5, <1>6, <1>7, LengthType

LEMMA MovedWithoutFacts ==
  ASSUME EntriesWithin, NEW b0, Structured(b0), HighestIsMaximum(b0),
         NEW node \in Node, NEW v \in Node, b0.m_degree[node] = Length(m_adj[node])
  PROVE  /\ Structured(MovedWithout(b0, node, v)) /\ HighestIsMaximum(MovedWithout(b0, node, v))
         /\ \A x \in Node : MovedWithout(b0, node, v).m_degree[x] =
                              IF x = node THEN Length(Without(m_adj[node], v)) ELSE b0.m_degree[x]
<1>1. m_adj[node] \in List
  BY DEF EntriesWithin
<1>2. CASE m_adj[node][v] > 0
  <2>1. b0.m_degree[node] \in Degrees
    BY DEF Structured, Arrays
  <2>2. Length(m_adj[node]) \in Nat /\ Length(m_adj[node]) >= 1
    BY <1>1, <1>2, LengthPositive
  <2>3. PICK c \in Nat : c = Cardinality(Node)
    BY DegreesType
  <2>4. b0.m_degree[node] + (-1) \in Degrees
    BY <2>1, <2>2, <2>3 DEF Degrees
  <2>5. PICK b2 : b2 = Moved(b0, node, -1)
    OBVIOUS
  <2>6. /\ Structured(b2) /\ HighestIsMaximum(b2)
        /\ \A x \in Node : b2.m_degree[x] = IF x = node THEN b0.m_degree[x] + (-1)
                                                       ELSE b0.m_degree[x]
    BY <2>4, <2>5, MovedFacts
  <2>7. Length(Without(m_adj[node], v)) = Length(m_adj[node]) - 1
    BY <1>1, <1>2, WithoutFacts
  <2>8. \A x \in Node : b2.m_degree[x] = IF x = node THEN Length(Without(m_adj[node], v))
                                                    ELSE b0.m_degree[x]
    BY <2>2, <2>6, <2>7
  <2>9. MovedWithout(b0, node, v) = b2
    BY <1>2, <2>5 DEF MovedWithout
  <2>10. QED
    BY <2>6, <2>8, <2>9
<1>3. CASE ~(m_adj[node][v] > 0)
  <2>1. m_adj[node][v] = 0
    BY <1>1, <1>3, WithoutFacts
  <2>2. Length(Without(m_adj[node], v)) = Length(m_adj[node])
    BY <1>1, <2>1, WithoutFacts
  <2>3. MovedWithout(b0, node, v) = b0
    BY <1>3 DEF MovedWithout
  <2>4. QED
    BY <2>2, <2>3
<1>4. QED
  BY <1>2, <1>3

DeletionEffect(source, target) ==
  /\ edges' \in [Edge -> 0..MaxCopies]
  /\ \A e \in Edge : edges'[e] = IF e = {source, target} THEN edges[e] - 1 ELSE edges[e]
  /\ m_adj' \in [Node -> List]
  /\ \A u \in Node : m_adj'[u] = IF u = source THEN Without(m_adj[u], target)
                                 ELSE IF u = target THEN Without(m_adj[u], source)
                                 ELSE m_adj[u]
  /\ \A u, v \in Node : m_adj'[u][v] = IF {u, v} = {source, target} THEN Fewer(m_adj[u][v])
                                                                   ELSE m_adj[u][v]

LEMMA DeletionEntries ==
  ASSUME EntriesWithin, NEW source \in Node, NEW target \in Node, Deletes(source, target)
  PROVE  DeletionEffect(source, target)
<1> PICK e0 \in Edge : e0 = {source, target}
  BY DEF Deletes, Edge
<1>1. /\ edges \in [Edge -> 0..MaxCopies] /\ edges[e0] > 0
      /\ edges' = [edges EXCEPT ![e0] = edges[e0] - 1]
      /\ source # target
  BY DEF EntriesWithin, Deletes
<1>2. edges[e0] - 1 \in 0..MaxCopies
  <2>1. edges[e0] \in 0..MaxCopies
    BY <1>1
  <2>2. QED
    BY <1>1, <2>1, MaxCopiesAssumption
<1>3. /\ edges' \in [Edge -> 0..MaxCopies]
      /\ \A e \in Edge : edges'[e] = IF e = e0 THEN edges[e] - 1 ELSE edges[e]
  BY <1>1, <1>2
<1>4. PICK x \in List, y \in List : x = Without(m_adj[source], target)
                                   /\ y = Without(m_adj[target], source)
  BY WithoutFacts DEF EntriesWithin
<1>5. m_adj \in [Node -> List] /\ m_adj' = [m_adj EXCEPT ![source] = x, ![target] = y]
  BY <1>1, <1>4 DEF EntriesWithin, Deletes
<1>6. m_adj' \in [Node -> List]
  <2>1. [m_adj EXCEPT ![source] = x] \in [Node -> List]
    BY <1>5
  <2>2. QED
    BY <1>5, <2>1
<1>7. \A u \in Node : m_adj'[u] = IF u = source THEN x ELSE IF u = target THEN y ELSE m_adj[u]
  BY <1>1, <1>5
<1>8. /\ \A v \in Node : x[v] = IF v = target THEN Fewer(m_adj[source][v]) ELSE m_adj[source][v]
      /\ \A v \in Node : y[v] = IF v = source THEN Fewer(m_adj[target][v]) ELSE m_adj[target][v]
  <2>1. m_adj[source] \in List /\ m_adj[target] \in List
    BY <1>5
  <2>2. QED
    BY <1>4, <2>1, WithoutFacts
<1>9. ASSUME NEW u \in Node, NEW v \in Node
      PROVE  m_adj'[u][v] = IF {u, v} = e0 THEN Fewer(m_adj[u][v]) ELSE m_adj[u][v]
  <2>1. {u, v} = e0 <=> (u = source /\ v = target) \/ (v = source /\ u = target)
    BY <1>1
  <2>2. QED
    BY <1>1, <1>7, <1>8, <2>1
<1>10. QED
  BY <1>3, <1>4, <1>6, <1>7, <1>9 DEF DeletionEffect

LEMMA DeletionKeeps ==
  ASSUME InBuckets, EntriesWithin, NEW source \in Node, NEW target \in Node,
         Deletes(source, target)
  PROVE  InBuckets' /\ EntriesWithin'
<1>1. source # target /\ m_adj \in [Node -> List] /\ edges \in [Edge -> 0..MaxCopies]
      /\ edges[{source, target}] > 0
  BY DEF Deletes, EntriesWithin
<1>2. /\ edges' \in [Edge -> 0..MaxCopies]
      /\ \A e \in Edge : edges'[e] = IF e = {source, target} THEN edges[e] - 1 ELSE edges[e]
      /\ m_adj' \in [Node -> List]
      /\ \A u \in Node : m_adj'[u] = IF u = source THEN Without(m_adj[u], target)
                                     ELSE IF u = target THEN Without(m_adj[u], source)
                                     ELSE m_adj[u]
      /\ \A u, v \in Node : m_adj'[u][v] = IF {u, v} = {source, target} THEN Fewer(m_adj[u][v])
                                                                       ELSE m_adj[u][v]
  <2>1. DeletionEffect(source, target)
    BY DeletionEntries
  <2>2. QED
    BY <2>1 DEF DeletionEffect
<1>3. InBuckets'
  <2>1. PICK b1, b2 : /\ b1 = MovedWithout(b, source, target)
                      /\ b2 = MovedWithout(b1, target, source)
    OBVIOUS
  <2>2. \A v \in Node : b.m_degree[v] = Length(m_adj[v])
    BY DEF InBuckets
  <2>3. /\ Structured(b1) /\ HighestIsMaximum(b1)
        /\ \A v \in Node : b1.m_degree[v] = IF v = source THEN Length(Without(m_adj[source], target))
                                                          ELSE b.m_degree[v]
    BY <2>1, <2>2, MovedWithoutFacts DEF InBuckets
  <2>4. b1.m_degree[target] = Length(m_adj[target])
    BY <1>1, <2>2, <2>3
  <2>5. /\ Structured(b2) /\ HighestIsMaximum(b2)
        /\ \A v \in Node : b2.m_degree[v] = IF v = target THEN Length(Without(m_adj[target], source))
                                                          ELSE b1.m_degree[v]
    BY <2>1, <2>3, <2>4, MovedWithoutFacts
  <2>6. \A v \in Node : b2.m_degree[v] = Length(m_adj'[v])
    BY <1>1, <1>2, <2>2, <2>3, <2>5
  <2>7. b' = b2
    BY <2>1 DEF Deletes
  <2>8. QED
    BY <2>5, <2>6, <2>7 DEF InBuckets
<1>4. EntriesWithin'
  <2>0. \A s, t \in Node : m_adj'[s][t] = IF {s, t} = {source, target} THEN Fewer(m_adj[s][t])
                                                                    ELSE m_adj[s][t]
    BY <1>2, Zenon
  <2>1. ASSUME NEW v \in Node PROVE m_adj'[v][v] = 0
    <3>1. m_adj[v][v] = 0
      BY DEF EntriesWithin
    <3>2. QED
      BY <1>2, <3>1 DEF Fewer
  <2>2. ASSUME NEW u \in Node, NEW v \in Node, u # v
        PROVE  m_adj'[u][v] + m_adj'[v][u] <= edges'[{u, v}]
    <3>1. PICK x \in Nat, y \in Nat : x = m_adj[u][v] /\ y = m_adj[v][u]
      BY EntryType DEF EntriesWithin
    <3>2. PICK e \in Edge : e = {u, v} /\ e = {v, u}
      BY <2>2 DEF Edge
    <3>3. PICK c \in Nat : c = edges[e]
      <4>1. edges[e] \in 0..MaxCopies
        BY <1>1
      <4>2. QED
        BY <4>1, MaxCopiesAssumption
    <3>4. x + y <= c
      BY <2>2, <3>1, <3>2, <3>3 DEF EntriesWithin
    <3>5. CASE e = {source, target}
      <4>1. edges'[e] = c - 1 /\ c > 0
        BY <1>1, <1>2, <3>3, <3>5
      <4>2. m_adj'[u][v] = Fewer(x) /\ m_adj'[v][u] = Fewer(y)
        <5>1. {u, v} = {source, target} /\ {v, u} = {source, target}
          BY <3>2, <3>5
        <5>2. m_adj'[u][v] = Fewer(m_adj[u][v])
          BY <2>0, <5>1, Zenon
        <5>3. m_adj'[v][u] = Fewer(m_adj[v][u])
          BY <2>0, <5>1, Zenon
        <5>4. QED
          BY <3>1, <5>2, <5>3, Zenon
      <4>3. Fewer(x) + Fewer(y) <= c - 1
        BY <3>4, <4>1 DEF Fewer
      <4>4. QED
        BY <3>2, <4>1, <4>2, <4>3
    <3>6. CASE e # {source, target}
      <4>1. edges'[e] = c
        BY <1>2, <3>3, <3>6
      <4>2. m_adj'[u][v] = x /\ m_adj'[v][u] = y
        BY <2>0, <3>1, <3>2, <3>6
      <4>3. QED
        BY <3>2, <3>4, <4>1, <4>2
    <3>7. QED
      BY <3>5, <3>6
  <2>3. QED
    BY <1>2, <2>1, <2>2 DEF EntriesWithin
<1>5. QED
  BY <1>3, <1>4

(****************************************************************************)
(* The steps of the handlers.                                               *)
(****************************************************************************)

\* A walk so far: over arcs and nodes that are not low, from a node of maximum
\* out-degree, to no node twice.
IsWalk(p) ==
  /\ p \in Seq(Node) /\ p # <<>> /\ Simple(p)
  /\ \A k \in 1..Len(p) - 1 : m_adj[p[k]][p[k + 1]] > 0
  /\ \A k \in 1..Len(p) : p[k] \notin Low
  /\ b.m_degree[p[1]] = b.m_max_degree

\* What the next step of a handler relies on.
Prepared ==
  /\ pc = "bfs" /\ path # <<>> =>
       path[1] \in Node /\ b.m_degree[path[1]] = b.m_max_degree /\ i = 1
  /\ pc = "kflips" => Is("KFLIPSCS")
  /\ pc = "rwalk" => IsWalk(path)
  /\ pc = "findsequence" => path \in Seq(Node) /\ path # <<>>

IInv == InBuckets /\ EntriesWithin /\ Prepared

\* The last node of p is at least two below the first.
IsLevelling(p) == b.m_degree[p[Len(p)]] < b.m_degree[p[1]] - 1

\* What a step that is part of a handler does to the graph, the lists and the buckets.
HandlerEffect ==
  \/ UNCHANGED <<edges, m_adj, b>>
  \/ \E p : Turns(p) /\ (Is("KFLIPSCS") \/ IsLevelling(p))

\* The nodes of the highest bucket have maximum out-degree and are not low.
LEMMA TopFacts ==
  ASSUME InBuckets, NEW s \in Top(b)
  PROVE  s \in Node /\ b.m_degree[s] = b.m_max_degree
<1>1. PICK deg, L, pos, max : /\ deg = b.m_degree /\ L = b.m_degree_buckets
                              /\ pos = b.m_bucket_pos /\ max = b.m_max_degree
  OBVIOUS
<1>2. Arrays(deg, L, pos) /\ Entered(deg, L, pos) /\ max \in Degrees
  BY <1>1 DEF InBuckets, Structured, HighestIsMaximum, IsHighest
<1>3. PICK k \in 1..Len(L[max]) : s = L[max][k]
  BY <1>1 DEF Top
<1>4. L[max] \in Seq(Node)
  BY <1>2 DEF Arrays
<1>5. s \in Node /\ deg[s] = max
  BY <1>2, <1>3, <1>4 DEF Entered
<1>6. QED
  BY <1>1, <1>5

LEMMA LowFacts ==
  ASSUME InBuckets, NEW v \in Low
  PROVE  v \in Node /\ b.m_degree[v] + 1 \in Degrees /\ b.m_degree[v] < b.m_max_degree - 1
<1>1. v \in Node /\ b.m_degree[v] < b.m_max_degree - 1
  BY DEF Low
<1>2. b.m_degree[v] \in Degrees /\ b.m_max_degree \in Degrees
  BY <1>1, BucketTypes
<1>3. PICK c \in Nat : c = Cardinality(Node)
  BY DegreesType
<1>4. QED
  BY <1>1, <1>2, <1>3 DEF Degrees

\* A node of maximum out-degree is not low.
LEMMA MaximumNotLow ==
  ASSUME InBuckets, NEW s \in Node, b.m_degree[s] = b.m_max_degree
  PROVE  s \notin Low
<1>1. b.m_max_degree \in Nat
  BY BucketTypes
<1>2. QED
  BY <1>1 DEF Low

\* What a search from a node of maximum out-degree finds can be turned and levels.
LEMMA SearchFacts ==
  ASSUME InBuckets, EntriesWithin, NEW s \in Node, b.m_degree[s] = b.m_max_degree,
         NEW p \in PathsToLow(s)
  PROVE  IsTurnable(p) /\ p[Len(p)] \in Low /\ IsLevelling(p)
<1>1. PICK m \in Arrangements(Node \ (Low \cup {s})), v \in Low :
        p = Joined(s, m, v) /\ IsPath(Neighbours, p)
  BY DEF PathsToLow
<1>2. s \notin Low /\ v \in Node
  BY MaximumNotLow DEF Low
<1>3. m \in Seq(Node \ (Low \cup {s})) /\ \A h, j \in 1..Len(m) : m[h] = m[j] => h = j
  BY ArrangementSeq
<1>4. m \in Seq(Node) /\ Len(m) \in Nat /\ \A h \in 1..Len(m) : m[h] \notin Low /\ m[h] # s
  BY <1>3
<1>5. PICK c \in Nat : c = Len(m)
  BY <1>4
<1>6. /\ p \in Seq(Node) /\ Len(p) = c + 2 /\ p[1] = s /\ p[c + 2] = v
      /\ \A h \in 2..c + 1 : p[h] = m[h - 1]
  <2>1. IsJoined(Joined(s, m, v), s, m, v)
    BY <1>2, <1>4, JoinedFacts
  <2>2. IsJoined(p, s, m, v)
    BY <1>1, <2>1, Zenon
  <2>3. QED
    BY <1>5, <2>2 DEF IsJoined
<1>7. ASSUME NEW h \in 1..c + 2, NEW j \in 1..c + 2, h < j PROVE p[h] # p[j]
  <2>1. CASE j = c + 2
    <3>1. h = 1 \/ (h \in 2..c + 1 /\ h - 1 \in 1..c)
      BY <1>7, <2>1
    <3>2. p[h] \notin Low
      BY <3>1, <1>2, <1>4, <1>5, <1>6
    <3>3. QED
      BY <3>2, <2>1, <1>6
  <2>2. CASE j # c + 2
    <3>1. j \in 2..c + 1 /\ j - 1 \in 1..c /\ p[j] = m[j - 1]
      BY <1>6, <1>7, <2>2
    <3>2. CASE h = 1
      BY <3>1, <3>2, <1>4, <1>5, <1>6
    <3>3. CASE h # 1
      <4>1. h \in 2..c + 1 /\ h - 1 \in 1..c /\ h - 1 # j - 1
        BY <1>7, <2>2, <3>3
      <4>2. p[h] = m[h - 1]
        BY <4>1, <1>6
      <4>3. m[h - 1] # m[j - 1]
        BY <4>1, <3>1, <1>3, <1>5
      <4>4. QED
        BY <3>1, <4>2, <4>3
    <3>4. QED
      BY <3>2, <3>3
  <2>3. QED
    BY <2>1, <2>2
<1>8. Simple(p)
  <2>1. ASSUME NEW h \in 1..c + 2, NEW j \in 1..c + 2, p[h] = p[j], h # j PROVE FALSE
    <3>1. h < j \/ j < h
      BY <2>1
    <3>2. QED
      BY <3>1, <2>1, <1>7
  <2>2. QED
    BY <2>1, <1>6 DEF Simple
<1>9. ASSUME NEW k \in 1..Len(p) - 1 PROVE m_adj[p[k]][p[k + 1]] > 0
  <2>1. p[k] \in Node /\ p[k + 1] \in Neighbours[p[k]]
    BY <1>1, <1>6 DEF IsPath
  <2>2. QED
    BY <2>1 DEF Neighbours
<1>10. IsTurnable(p)
  BY <1>6, <1>8, <1>9 DEF IsTurnable
<1>11. p[Len(p)] = v
  BY <1>6
<1>12. QED
  BY <1>6, <1>10, <1>11, LowFacts DEF IsLevelling

\* To turn a path to a low node is to level.
LEMMA LowTurns ==
  ASSUME InBuckets, NEW p, IsTurnable(p), p[Len(p)] \in Low, IsLevelling(p), edges' = edges,
         Turn(p) \/ TurnWalk(p)
  PROVE  HandlerEffect
<1>1. b.m_degree[p[Len(p)]] + 1 \in Degrees
  BY LowFacts
<1>2. m_adj' = Reversed(p)
  BY DEF Turn, TurnWalk
<1>3. \/ b' = Moved(Moved(b, p[Len(p)], 1), p[1], -1)
      \/ b' = Moved(Moved(b, p[1], -1), p[Len(p)], 1)
  BY DEF Turn, TurnWalk
<1>4. QED
  BY <1>1, <1>2, <1>3 DEF Turns, HandlerEffect

LEMMA bfs_allStep == IInv /\ bfs_all => HandlerEffect /\ Prepared'
<1> SUFFICES ASSUME IInv, bfs_all PROVE HandlerEffect /\ Prepared'
  OBVIOUS
<1> PICK paths : paths = Shortest(UNION {PathsToLow(s) : s \in Top(b)})
  OBVIOUS
<1>1. /\ pc \in {"bfs_all", "while_bfs_all"}
      /\ \/ Return /\ UNCHANGED <<m_adj, b>>
         \/ (\E p \in paths : Turn(p)) /\ (Return \/ UNCHANGED <<pc, i, path>>)
      /\ UNCHANGED <<config, edges>>
  BY DEF bfs_all
<1>2. HandlerEffect
  <2>1. CASE UNCHANGED <<m_adj, b>>
    BY <1>1, <2>1 DEF HandlerEffect
  <2>2. CASE \E p \in paths : Turn(p)
    <3>1. PICK p \in paths : Turn(p)
      BY <2>2
    <3>2. PICK s \in Top(b) : p \in PathsToLow(s)
      BY <3>1 DEF Shortest
    <3>3. IsTurnable(p) /\ p[Len(p)] \in Low /\ IsLevelling(p)
      BY <3>2, TopFacts, SearchFacts DEF IInv
    <3>4. QED
      BY <1>1, <3>1, <3>3, LowTurns DEF IInv
  <2>3. QED
    BY <1>1, <2>1, <2>2
<1>3. pc' \in {"idle", "bfs_all", "while_bfs_all"}
  BY <1>1 DEF Return
<1>4. QED
  BY <1>2, <1>3 DEF Prepared

LEMMA bfsStep == IInv /\ bfs => HandlerEffect /\ Prepared'
<1> SUFFICES ASSUME IInv, bfs PROVE HandlerEffect /\ Prepared'
  OBVIOUS
<1>1. /\ pc = "bfs"
      /\ Return \/ (i # 1 /\ UNCHANGED <<pc, path>>)
      /\ UNCHANGED <<config, edges>>
  BY DEF bfs
<1>2. HandlerEffect
  <2>1. PICK s \in IF path = <<>> THEN Top(b) ELSE {path[1]} :
          \/ UNCHANGED <<m_adj, b>>
          \/ \E p \in Shortest(PathsToLow(s)) : Turn(p)
    BY DEF bfs
  <2>2. s \in Node /\ b.m_degree[s] = b.m_max_degree
    BY <1>1, <2>1, TopFacts DEF IInv, Prepared
  <2>3. CASE UNCHANGED <<m_adj, b>>
    BY <1>1, <2>3 DEF HandlerEffect
  <2>4. CASE \E p \in Shortest(PathsToLow(s)) : Turn(p)
    <3>1. PICK p \in PathsToLow(s) : Turn(p)
      BY <2>4 DEF Shortest
    <3>2. IsTurnable(p) /\ p[Len(p)] \in Low /\ IsLevelling(p)
      BY <2>2, SearchFacts DEF IInv
    <3>3. QED
      BY <1>1, <3>1, <3>2, LowTurns DEF IInv
  <2>5. QED
    BY <2>1, <2>3, <2>4
<1>3. Prepared'
  <2>1. CASE Return
    BY <2>1 DEF Return, Prepared
  <2>2. CASE i # 1 /\ UNCHANGED <<pc, path>>
    <3>1. path' = <<>> /\ pc' = "bfs"
      BY <1>1, <2>2 DEF IInv, Prepared
    <3>2. QED
      BY <3>1 DEF Prepared
  <2>3. QED
    BY <1>1, <2>1, <2>2
<1>4. QED
  BY <1>2, <1>3

\* One arc is a path.
LEMMA ArcIsPath ==
  ASSUME EntriesWithin, NEW u \in Node, NEW v \in Node, m_adj[u][v] > 0
  PROVE  /\ IsTurnable(<<u, v>>) /\ u # v
         /\ <<u, v>>[1] = u /\ <<u, v>>[Len(<<u, v>>)] = v
<1>1. PICK p : p = <<u, v>>
  OBVIOUS
<1>2. p \in Seq(Node) /\ Len(p) = 2 /\ p[1] = u /\ p[2] = v
  BY <1>1
<1>3. u # v
  BY DEF EntriesWithin
<1>4. Simple(p)
  BY <1>2, <1>3 DEF Simple
<1>5. IsTurnable(p)
  BY <1>2, <1>4 DEF IsTurnable
<1>6. QED
  BY <1>1, <1>2, <1>3, <1>5

LEMMA ArcTurns ==
  ASSUME InBuckets, EntriesWithin, NEW u \in Node, NEW v \in Node, m_adj[u][v] > 0,
         b.m_degree[v] + 1 \in Degrees, edges' = edges, TurnArc(u, v),
         Is("KFLIPSCS") \/ b.m_degree[v] < b.m_degree[u] - 1
  PROVE  HandlerEffect
<1>1. PICK p : p = <<u, v>>
  OBVIOUS
<1>2. IsTurnable(p) /\ u # v /\ p[1] = u /\ p[Len(p)] = v
  BY <1>1, ArcIsPath
<1>3. m_adj' = Reversed(p) /\ b' = Moved(Moved(b, u, -1), v, 1)
  BY <1>1 DEF TurnArc
<1>4. Turns(p)
  BY <1>2, <1>3 DEF Turns
<1>5. Is("KFLIPSCS") \/ IsLevelling(p)
  BY <1>2 DEF IsLevelling
<1>6. QED
  BY <1>4, <1>5 DEF HandlerEffect

LEMMA kflipsStep == IInv /\ kflips => HandlerEffect /\ Prepared'
<1> SUFFICES ASSUME IInv, kflips PROVE HandlerEffect /\ Prepared'
  OBVIOUS
<1>1. /\ pc = "kflips"
      /\ Return \/ UNCHANGED <<pc, path>>
      /\ UNCHANGED <<config, edges>>
  BY DEF kflips
<1>2. Is("KFLIPSCS")
  BY <1>1 DEF IInv, Prepared
<1>3. PICK source \in Top(b) : \E target \in Neighbours[source] :
        ~overflows(target) /\ TurnArc(source, target)
  BY DEF kflips
<1>4. PICK target \in Neighbours[source] : ~overflows(target) /\ TurnArc(source, target)
  BY <1>3
<1>5. HandlerEffect
  <2>1. source \in Node /\ target \in Node /\ m_adj[source][target] > 0
    BY TopFacts DEF IInv, Neighbours
  <2>2. QED
    BY <1>1, <1>2, <1>4, <2>1, ArcTurns DEF IInv, overflows
<1>6. Prepared'
  <2>1. CASE Return
    BY <2>1 DEF Return, Prepared
  <2>2. CASE UNCHANGED <<pc, path>>
    BY <1>1, <1>2, <2>2 DEF Prepared, Is
  <2>3. QED
    BY <1>1, <2>1, <2>2
<1>7. QED
  BY <1>5, <1>6

LEMMA kflips_undefinedStep == IInv /\ kflips_undefined => HandlerEffect /\ Prepared'
BY DEF kflips_undefined, undefined, HandlerEffect, Prepared

\* A walk that goes on is a walk.
LEMMA WalkGrows ==
  ASSUME InBuckets, EntriesWithin, IsWalk(path), NEW next \in Neighbours[path[Len(path)]],
         next \notin Visited
  PROVE  LET p == Append(path, next)
         IN  /\ IsTurnable(p) /\ p[1] = path[1] /\ p[Len(p)] = next
             /\ next \notin Low => IsWalk(p)
<1>1. PICK n \in Nat : n = Len(path) /\ n >= 1
  BY DEF IsWalk
<1>2. path \in Seq(Node) /\ path[n] \in Node /\ \A k \in 1..n : path[k] \in Node
  BY <1>1 DEF IsWalk
<1>3. next \in Node /\ m_adj[path[n]][next] > 0
  BY <1>1, <1>2 DEF Neighbours
<1>4. PICK p : p = Append(path, next)
  OBVIOUS
<1>5. p \in Seq(Node) /\ Len(p) = n + 1 /\ p[n + 1] = next /\ \A k \in 1..n : p[k] = path[k]
  BY <1>1, <1>2, <1>3, <1>4, AppendProperties
<1>6. \A k \in 1..n : p[k] # next
  BY <1>1, <1>5 DEF Visited
<1>7. Simple(p)
  <2>1. \A h, j \in 1..n : p[h] = p[j] => h = j
    BY <1>1, <1>5 DEF IsWalk, Simple
  <2>2. ASSUME NEW h \in 1..n + 1, NEW j \in 1..n + 1, p[h] = p[j] PROVE h = j
    <3>1. (h \in 1..n \/ h = n + 1) /\ (j \in 1..n \/ j = n + 1)
      OBVIOUS
    <3>2. QED
      BY <1>5, <1>6, <2>1, <2>2, <3>1
  <2>3. QED
    BY <1>5, <2>2 DEF Simple
<1>8. ASSUME NEW k \in 1..n PROVE m_adj[p[k]][p[k + 1]] > 0
  <2>1. CASE k = n
    BY <1>1, <1>3, <1>5, <2>1
  <2>2. CASE k # n
    <3>1. k \in 1..n - 1 /\ k + 1 \in 1..n
      BY <2>2
    <3>2. QED
      BY <1>1, <1>5, <3>1 DEF IsWalk
  <2>3. QED
    BY <2>1, <2>2
<1>9. IsTurnable(p) /\ p[1] = path[1] /\ p[Len(p)] = next
  BY <1>1, <1>5, <1>7, <1>8 DEF IsTurnable
<1>10. ASSUME next \notin Low PROVE IsWalk(p)
  <2>1. \A k \in 1..n : p[k] \notin Low
    BY <1>1, <1>5 DEF IsWalk
  <2>2. \A k \in 1..n + 1 : p[k] \notin Low
    BY <1>5, <1>10, <2>1
  <2>3. p # <<>>
    BY <1>5
  <2>4. QED
    BY <1>5, <1>7, <1>8, <1>9, <2>2, <2>3 DEF IsWalk
<1>11. QED
  BY <1>4, <1>9, <1>10

LEMMA rwalkStep == IInv /\ rwalk => HandlerEffect /\ Prepared'
<1> SUFFICES ASSUME IInv, rwalk PROVE HandlerEffect /\ Prepared'
  OBVIOUS
<1>1. pc = "rwalk" /\ UNCHANGED <<config, edges>> /\ IsWalk(path)
  BY DEF rwalk, IInv, Prepared
<1>2. PICK next \in Neighbours[path[Len(path)]] :
        walkOn(next) \/ walkSucceeds(next) \/ walkFails(next)
  BY DEF rwalk
<1>3. CASE walkOn(next)
  <2>1. IsWalk(Append(path, next)) /\ UNCHANGED <<m_adj, b>> /\ path' = Append(path, next)
    BY <1>1, <1>2, <1>3, WalkGrows DEF walkOn, IInv
  <2>2. IsWalk(path)'
    BY <2>1 DEF IsWalk, Low
  <2>3. pc' = "rwalk"
    BY <1>1, <1>3 DEF walkOn
  <2>4. QED
    BY <1>1, <2>1, <2>2, <2>3 DEF HandlerEffect, Prepared
<1>4. CASE walkSucceeds(next)
  <2>1. next \in Low /\ TurnWalk(Append(path, next)) /\ pc' = "idle"
    BY <1>4 DEF walkSucceeds, Return
  <2>2. next \notin Visited
    BY <1>1, <2>1 DEF IsWalk, Visited
  <2>3. PICK p : p = Append(path, next)
    OBVIOUS
  <2>4. IsTurnable(p) /\ p[1] = path[1] /\ p[Len(p)] = next
    BY <1>1, <1>2, <2>2, <2>3, WalkGrows DEF IInv
  <2>5. IsLevelling(p)
    BY <1>1, <2>1, <2>4, LowFacts DEF IsLevelling, IsWalk, IInv
  <2>6. HandlerEffect
    BY <1>1, <2>1, <2>3, <2>4, <2>5, LowTurns DEF IInv
  <2>7. QED
    BY <2>1, <2>6 DEF Prepared
<1>5. CASE walkFails(next)
  <2>1. UNCHANGED <<m_adj, b>>
    BY <1>5 DEF walkFails
  <2>2. pc' = "idle" \/ (pc' = "rwalk" /\ path' = <<path[1]>>)
    BY <1>1, <1>5 DEF walkFails, Return, Enter
  <2>3. IsWalk(<<path[1]>>)
    <3>1. 1 \in 1..Len(path) /\ path[1] \in Node
      BY <1>1 DEF IsWalk
    <3>2. PICK s \in Node : s = path[1]
      BY <3>1
    <3>3. s \notin Low /\ b.m_degree[s] = b.m_max_degree
      BY <1>1, <3>1, <3>2 DEF IsWalk
    <3>4. PICK p : p = <<s>>
      OBVIOUS
    <3>5. p \in Seq(Node) /\ Len(p) = 1 /\ p[1] = s /\ p # <<>>
      BY <3>4
    <3>6. IsWalk(p)
      BY <3>3, <3>5 DEF IsWalk, Simple
    <3>7. QED
      BY <3>2, <3>4, <3>6
  <2>4. pc' = "rwalk" => IsWalk(path)'
    <3>1. PICK p : p = <<path[1]>>
      OBVIOUS
    <3>2. IsWalk(p) /\ (pc' = "rwalk" => path' = p)
      BY <2>2, <2>3, <3>1
    <3>3. QED
      BY <2>1, <3>2 DEF IsWalk, Low
  <2>5. QED
    BY <1>1, <2>1, <2>2, <2>4 DEF HandlerEffect, Prepared
<1>6. QED
  BY <1>2, <1>3, <1>4, <1>5

LEMMA descendStep == IInv /\ descend => HandlerEffect /\ Prepared'
<1> SUFFICES ASSUME IInv, descend PROVE HandlerEffect /\ Prepared'
  OBVIOUS
<1>1. pc = "findsequence" /\ UNCHANGED <<config, edges, pc, i>> /\ path \in Seq(Node) /\ path # <<>>
  BY DEF descend, IInv, Prepared
<1>2. PICK u \in Node : u = path[Len(path)]
  BY <1>1
<1>3. PICK v \in Lowest(u) : TurnArc(u, v) /\ path' = <<path[1], v>>
  BY <1>2 DEF descend
<1>4. v \in Node /\ m_adj[u][v] > 0 /\ b.m_degree[v] < b.m_degree[u] - 1
  BY DEF Lowest, Neighbours
<1>5. b.m_degree[v] + 1 \in Degrees
  <2>1. b.m_degree[v] \in Degrees /\ b.m_degree[u] \in Degrees
    BY <1>4, BucketTypes DEF IInv
  <2>2. PICK c \in Nat : c = Cardinality(Node)
    BY DegreesType
  <2>3. QED
    BY <1>4, <2>1, <2>2 DEF Degrees
<1>6. HandlerEffect
  BY <1>1, <1>3, <1>4, <1>5, ArcTurns DEF IInv
<1>7. path' \in Seq(Node) /\ path' # <<>>
  <2>1. path[1] \in Node
    BY <1>1
  <2>2. QED
    BY <1>3, <1>4, <2>1
<1>8. QED
  BY <1>1, <1>6, <1>7 DEF Prepared

LEMMA descendedStep == IInv /\ descended => HandlerEffect /\ Prepared'
<1> SUFFICES ASSUME IInv, descended PROVE HandlerEffect /\ Prepared'
  OBVIOUS
<1>1. /\ pc = "findsequence" /\ UNCHANGED <<edges, m_adj, b>> /\ path \in Seq(Node) /\ path # <<>>
      /\ pc' = "idle" \/ (pc' = "findsequence" /\ path' = <<path[1]>>)
  BY DEF descended, IInv, Prepared, Return, Enter
<1>2. <<path[1]>> \in Seq(Node) /\ <<path[1]>> # <<>>
  <2>1. path[1] \in Node
    BY <1>1
  <2>2. QED
    BY <2>1
<1>3. QED
  BY <1>1, <1>2 DEF HandlerEffect, Prepared

LEMMA HandlerStep == IInv /\ handlerStep => HandlerEffect /\ Prepared'
BY bfs_allStep, bfsStep, kflipsStep, kflips_undefinedStep, rwalkStep, descendStep, descendedStep
   DEF handlerStep

\* What is searched for after an insertion starts at a node of maximum out-degree.
LEMMA InsertionStep ==
  ASSUME IInv, NEW source \in Node, NEW target \in Node, handleInsertion(source, target)
  PROVE  Inserts(source, target) /\ Prepared'
<1>1. Inserts(source, target)
  BY DEF handleInsertion, Inserts
<1>2. config' = config
  BY DEF handleInsertion
<1>3. InBuckets'
  BY <1>1, InsertionKeeps DEF IInv
<1>4. \/ pc' \in {"idle", "bfs_all"}
      \/ searches(source) /\ Is("BFSCS") /\ pc' = "bfs" /\ path' = <<source>> /\ i' = 1
      \/ pc' = "bfs" /\ path' = <<>>
      \/ Is("KFLIPSCS") /\ pc' = "kflips"
      \/ searches(source) /\ Is("RWALKCS") /\ pc' = "rwalk" /\ path' = <<source>>
      \/ pc' = "findsequence" /\ path' = <<source>>
  BY DEF handleInsertion, insertion_naive_opt, insertion_BFSCS, insertion_impro_opt,
         insertion_KFlipsCS, insertion_RWalkCS, insertion_MaxDecending, Enter, Return
<1>5. searches(source) /\ (Is("BFSCS") \/ Is("RWALKCS")) =>
        b'.m_degree[source] = b'.m_max_degree
  BY DEF searches, Is
<1>6. PICK p : p = <<source>>
  OBVIOUS
<1>7. p \in Seq(Node) /\ Len(p) = 1 /\ p[1] = source /\ p # <<>>
  BY <1>6
<1>8. ASSUME path' = p, b'.m_degree[source] = b'.m_max_degree PROVE IsWalk(path)'
  <2>1. source \notin Low'
    <3>1. b'.m_max_degree \in Nat
      BY <1>3, DegreesType DEF InBuckets, HighestIsMaximum, IsHighest
    <3>2. QED
      BY <1>8, <3>1 DEF Low
  <2>2. \A k \in 1..Len(p) : k = 1 /\ p[k] \notin Low'
    BY <1>7, <2>1
  <2>3. 1..Len(p) - 1 = {}
    BY <1>7
  <2>4. Simple(p)
    BY <2>2 DEF Simple
  <2>5. b'.m_degree[p[1]] = b'.m_max_degree
    BY <1>7, <1>8
  <2>6. QED
    BY <1>7, <1>8, <2>2, <2>3, <2>4, <2>5, Zenon DEF IsWalk
<1>9. Prepared'
  <2>1. pc' = "bfs" /\ path' # <<>> => /\ path'[1] \in Node /\ i' = 1
                                       /\ b'.m_degree[path'[1]] = b'.m_max_degree
    BY <1>4, <1>5
  <2>2. pc' = "kflips" => Is("KFLIPSCS")'
    BY <1>2, <1>4 DEF Is
  <2>3. pc' = "rwalk" => IsWalk(path)'
    BY <1>4, <1>5, <1>6, <1>8
  <2>4. pc' = "findsequence" => path' \in Seq(Node) /\ path' # <<>>
    BY <1>4, <1>6, <1>7
  <2>5. QED
    BY <2>1, <2>2, <2>3, <2>4 DEF Prepared
<1>10. QED
  BY <1>1, <1>9

LEMMA DeletionStep ==
  ASSUME IInv, NEW source \in Node, NEW target \in Node, handleDeletion(source, target)
  PROVE  Deletes(source, target) /\ Prepared'
<1>1. Deletes(source, target)
  BY DEF handleDeletion, Deletes
<1>2. \/ pc' \in {"idle", "while_bfs_all"}
      \/ pc' = "kflips" /\ Is("KFLIPSCS") /\ config' = config
  BY DEF handleDeletion, deletion, Enter, Return
<1>3. Prepared'
  BY <1>2 DEF Prepared, Is
<1>4. QED
  BY <1>1, <1>3

(****************************************************************************)
(* The theorems.                                                            *)
(****************************************************************************)

\* What a step of the program does to the graph, the lists and the buckets.
StepEffect ==
  \/ \E source, target \in Node : Inserts(source, target) \/ Deletes(source, target)
  \/ HandlerEffect

LEMMA NextEffect == IInv /\ [Next]_vars => StepEffect /\ Prepared'
<1> SUFFICES ASSUME IInv, [Next]_vars PROVE StepEffect /\ Prepared'
  OBVIOUS
<1>1. CASE \E source, target \in Node : handleInsertion(source, target)
  BY <1>1, InsertionStep DEF StepEffect
<1>2. CASE \E source, target \in Node : handleDeletion(source, target)
  BY <1>2, DeletionStep DEF StepEffect
<1>3. CASE insertion_undefined
  BY <1>3 DEF insertion_undefined, undefined, StepEffect, HandlerEffect, Prepared
<1>4. CASE handlerStep
  BY <1>4, HandlerStep DEF StepEffect
<1>5. CASE UNCHANGED vars
  <2>1. UNCHANGED <<edges, m_adj, b>>
    BY <1>5 DEF vars
  <2>2. Prepared'
    BY <1>5 DEF vars, IInv, Prepared, IsWalk, Low, Is
  <2>3. QED
    BY <2>1, <2>2 DEF StepEffect, HandlerEffect
<1>6. QED
  BY <1>1, <1>2, <1>3, <1>4, <1>5 DEF Next

LEMMA EffectKeeps == InBuckets /\ EntriesWithin /\ StepEffect => InBuckets' /\ EntriesWithin'
<1> SUFFICES ASSUME InBuckets, EntriesWithin, StepEffect PROVE InBuckets' /\ EntriesWithin'
  OBVIOUS
<1>1. CASE \E source, target \in Node : Inserts(source, target)
  BY <1>1, InsertionKeeps
<1>2. CASE \E source, target \in Node : Deletes(source, target)
  BY <1>2, DeletionKeeps
<1>3. CASE \E p : Turns(p)
  BY <1>3, TurnKeeps
<1>4. CASE UNCHANGED <<edges, m_adj, b>>
  BY <1>4 DEF InBuckets, EntriesWithin
<1>5. QED
  BY <1>1, <1>2, <1>3, <1>4 DEF StepEffect, HandlerEffect

\* The constructor puts every node into the bucket 0.
LEMMA FilledFacts ==
  ASSUME NEW order \in Arrangements(Node), Len(order) = Cardinality(Node)
  PROVE  /\ Structured(Filled(order)) /\ HighestIsMaximum(Filled(order))
         /\ \A v \in Node : Filled(order).m_degree[v] = 0
<1>1. PICK n \in Nat \ {0} : n = Cardinality(Node)
  BY DegreesType
<1>2. order \in Seq(Node) /\ Len(order) = n /\ \A h, j \in 1..n : order[h] = order[j] => h = j
  BY <1>1, ArrangementSeq
<1>3. \A v \in Node : \E h \in 1..n : order[h] = v
  <2>1. order \in [1..n -> Node]
    BY <1>2
  <2>2. order \in Injection(1..n, Node)
    BY <1>2, <2>1 DEF Injection, IsInjective
  <2>3. Cardinality(1..n) = n
    BY FS_Interval
  <2>4. order \in Surjection(1..n, Node)
    BY <1>1, <2>2, <2>3, NodeAssumption, FS_Injection
  <2>5. QED
    BY <2>4 DEF Surjection
<1>4. PICK deg, L, pos :
        /\ deg = [v \in Node |-> 0]
        /\ L = [k \in Degrees |-> IF k = 0 THEN order ELSE <<>>]
        /\ pos = [v \in Node |-> CHOOSE h \in 1..Len(order) : order[h] = v]
  OBVIOUS
<1>5. 0 \in Degrees /\ Degrees \subseteq Nat
  BY DegreesType
<1>6. \A v \in Node : pos[v] \in 1..n /\ order[pos[v]] = v
  BY <1>2, <1>3, <1>4
<1>7. Arrays(deg, L, pos)
  <2>1. deg \in [Node -> Degrees]
    BY <1>4, <1>5
  <2>2. L \in [Degrees -> Seq(Node)]
    BY <1>2, <1>4
  <2>3. pos \in [Node -> Nat \ {0}]
    <3>1. \A v \in Node : pos[v] \in Nat \ {0}
      BY <1>6
    <3>2. pos = [v \in Node |-> pos[v]]
      BY <1>4
    <3>3. QED
      BY <3>1, <3>2, Zenon
  <2>4. QED
    BY <2>1, <2>2, <2>3 DEF Arrays
<1>8. L[0] = order /\ \A k \in Degrees : k # 0 => L[k] = <<>>
  BY <1>4, <1>5
<1>9. Found(deg, L, pos)
  BY <1>2, <1>4, <1>6, <1>8 DEF Found
<1>10. ASSUME NEW k \in Degrees, NEW j \in 1..Len(L[k])
       PROVE  deg[L[k][j]] = k /\ pos[L[k][j]] = j
  <2>1. k = 0 /\ j \in 1..n /\ L[k][j] = order[j]
    BY <1>2, <1>8
  <2>2. order[j] \in Node
    BY <1>2, <2>1
  <2>3. pos[order[j]] \in 1..n /\ order[pos[order[j]]] = order[j]
    BY <1>6, <2>2
  <2>4. pos[order[j]] = j
    BY <1>2, <2>1, <2>3
  <2>5. QED
    BY <1>4, <2>1, <2>2, <2>4
<1>11. IsHighest(L, 0)
  <2>1. order # <<>>
    BY <1>2
  <2>2. ASSUME NEW k \in Degrees, k > 0 PROVE L[k] = <<>>
    <3>1. k # 0
      BY <2>2
    <3>2. QED
      BY <1>8, <3>1
  <2>3. QED
    BY <1>5, <1>8, <2>1, <2>2, Zenon DEF IsHighest
<1>12. Filled(order) = [m_degree |-> deg, m_degree_buckets |-> L, m_bucket_pos |-> pos,
                        m_max_degree |-> 0]
  BY <1>4 DEF Filled
<1>13. PICK b0 : b0 = Filled(order)
  OBVIOUS
<1>14. /\ b0.m_degree = deg /\ b0.m_degree_buckets = L
       /\ b0.m_bucket_pos = pos /\ b0.m_max_degree = 0
  BY <1>12, <1>13
<1>15. Structured(b0) /\ HighestIsMaximum(b0)
  BY <1>7, <1>9, <1>10, <1>11, <1>14 DEF Structured, HighestIsMaximum, Entered
<1>16. \A v \in Node : b0.m_degree[v] = 0
  BY <1>4, <1>14
<1>17. QED
  BY <1>13, <1>15, <1>16

LEMMA InitInvariant == Init => IInv
<1> SUFFICES ASSUME Init PROVE IInv
  OBVIOUS
<1>1. PICK order \in Arrangements(Node) : Len(order) = Cardinality(Node) /\ b = Filled(order)
  BY DEF Init
<1>2. Structured(b) /\ HighestIsMaximum(b) /\ \A v \in Node : b.m_degree[v] = 0
  BY <1>1, FilledFacts
<1>3. m_adj \in [Node -> List] /\ \A u, v \in Node : m_adj[u][v] = 0
  BY MaxCopiesAssumption DEF Init, List
<1>4. edges \in [Edge -> 0..MaxCopies] /\ \A e \in Edge : edges[e] = 0
  BY MaxCopiesAssumption DEF Init
<1>5. InBuckets
  <2>1. \A v \in Node : Length(m_adj[v]) = 0
    BY <1>3, LengthZero
  <2>2. QED
    BY <1>2, <2>1 DEF InBuckets
<1>6. EntriesWithin
  <2>1. ASSUME NEW u \in Node, NEW v \in Node, u # v
        PROVE  m_adj[u][v] + m_adj[v][u] <= edges[{u, v}]
    <3>1. {u, v} \in Edge
      BY <2>1 DEF Edge
    <3>2. m_adj[u][v] = 0 /\ m_adj[v][u] = 0 /\ edges[{u, v}] = 0
      BY <1>3, <1>4, <3>1
    <3>3. QED
      BY <3>2
  <2>2. QED
    BY <1>3, <1>4, <2>1 DEF EntriesWithin
<1>7. Prepared
  BY DEF Init, Prepared
<1>8. QED
  BY <1>5, <1>6, <1>7 DEF IInv

LEMMA NextInvariant == IInv /\ [Next]_vars => IInv'
BY NextEffect, EffectKeeps DEF IInv

LEMMA AlwaysInvariant == Spec => []IInv
BY InitInvariant, NextInvariant, PTL DEF Spec

\* checkdegrees would succeed after every step of every algorithm, and no bucket ever
\* holds a node twice or one that has gone elsewhere.
THEOREM BucketsAlwaysConsistent == Spec => []BucketsConsistent
<1>1. IInv => BucketsConsistent
  <2> SUFFICES ASSUME InBuckets PROVE BucketsConsistent
    BY DEF IInv
  <2>1. \A v \in Node : Lengths(m_adj)[v] = b.m_degree[v]
    BY DEF InBuckets, Lengths
  <2>2. /\ \A v \in Node : Lengths(m_adj)[v] <= b.m_max_degree
        /\ \E v \in Node : Lengths(m_adj)[v] = b.m_max_degree
    BY <2>1, BucketTypes
  <2>3. PICK deg, L, pos : deg = b.m_degree /\ L = b.m_degree_buckets /\ pos = b.m_bucket_pos
    OBVIOUS
  <2>4. Arrays(deg, L, pos) /\ Entered(deg, L, pos) /\ Found(deg, L, pos)
    BY <2>3 DEF InBuckets, Structured
  <2>5. \A v \in Node : pos[v] <= Len(L[deg[v]]) /\ L[deg[v]][pos[v]] = v
    BY <2>4 DEF Found
  <2>6. Consistent(b, Lengths(m_adj))
    BY <2>1, <2>2, <2>3, <2>5 DEF Consistent
  <2>7. ASSUME NEW k \in Degrees, NEW j \in 1..Len(L[k]) PROVE Lengths(m_adj)[L[k][j]] = k
    <3>1. L[k] \in Seq(Node) /\ L[k][j] \in Node
      BY <2>4 DEF Arrays
    <3>2. deg[L[k][j]] = k
      BY <2>4 DEF Entered
    <3>3. QED
      BY <2>1, <2>3, <3>1, <3>2
  <2>8. QED
    BY <2>3, <2>6, <2>7 DEF BucketsConsistent
<1>2. QED
  BY <1>1, AlwaysInvariant, PTL

\* The entries for an edge in both lists.
LEMMA EntriesPair ==
  ASSUME NEW e \in Edge
  PROVE  \E u, v \in Node : u # v /\ e = {u, v} /\ \A adj : Entries(adj, e) = adj[u][v] + adj[v][u]
<1>1. PICK u : u = CHOOSE x \in e : TRUE
  OBVIOUS
<1>2. PICK v : v = CHOOSE x \in e : x # u
  OBVIOUS
<1>3. PICK x \in Node, y \in Node : x # y /\ e = {x, y}
  BY DEF Edge
<1>4. u \in e
  BY <1>1, <1>3
<1>5. v \in e /\ v # u
  BY <1>2, <1>3, <1>4
<1>6. u \in Node /\ v \in Node /\ e = {u, v}
  BY <1>3, <1>4, <1>5
<1>7. \A adj : Entries(adj, e) = adj[u][v] + adj[v][u]
  BY <1>1, <1>2 DEF Entries
<1>8. QED
  BY <1>5, <1>6, <1>7

LEMMA FewerOfBoth ==
  ASSUME NEW x \in Nat, NEW y \in Nat, NEW n, NEW m, n = x + y, m = Fewer(x) + Fewer(y)
  PROVE  m - n \in {-1, -2} \/ n = 0
BY DEF Fewer

\* What a step does to the entries for the edge e.
EntryEffect(e) ==
  LET more == Entries(m_adj', e) - Entries(m_adj, e)
  IN  /\ edges'[e] >= edges[e] => more = edges'[e] - edges[e]
      /\ edges'[e] < edges[e] => more \in {-1, -2} \/ Entries(m_adj, e) = 0
      /\ Entries(m_adj', e) <= edges'[e]

LEMMA NextEntries ==
  ASSUME IInv, [Next]_vars, NEW e \in Edge
  PROVE  EntryEffect(e)
<1> SUFFICES LET more == Entries(m_adj', e) - Entries(m_adj, e)
             IN  /\ edges'[e] >= edges[e] => more = edges'[e] - edges[e]
                 /\ edges'[e] < edges[e] => more \in {-1, -2} \/ Entries(m_adj, e) = 0
                 /\ Entries(m_adj', e) <= edges'[e]
  BY DEF EntryEffect
<1>1. PICK u \in Node, v \in Node :
        u # v /\ e = {u, v} /\ \A adj : Entries(adj, e) = adj[u][v] + adj[v][u]
  BY EntriesPair
<1>2. StepEffect /\ EntriesWithin'
  BY NextEffect, EffectKeeps DEF IInv
<1>3. PICK x \in Nat, y \in Nat : x = m_adj[u][v] /\ y = m_adj[v][u]
  BY EntryType DEF IInv, EntriesWithin
<1>4. PICK c \in Nat : c = edges[e]
  <2>1. edges[e] \in 0..MaxCopies
    BY DEF IInv, EntriesWithin
  <2>2. QED
    BY <2>1, MaxCopiesAssumption
<1>5. Entries(m_adj, e) = x + y /\ Entries(m_adj', e) = m_adj'[u][v] + m_adj'[v][u]
  BY <1>1, <1>3
<1>6. Entries(m_adj', e) <= edges'[e]
  BY <1>1, <1>2, <1>5 DEF EntriesWithin
<1>7. CASE edges'[e] = c /\ Entries(m_adj', e) = x + y
  BY <1>4, <1>5, <1>6, <1>7
<1>8. CASE \E source, target \in Node : Inserts(source, target)
  <2>1. PICK source \in Node, target \in Node : Inserts(source, target)
    BY <1>8
  <2>2. source # target
    BY <2>1 DEF Inserts
  <2>3. /\ \A f \in Edge : edges'[f] = IF f = {source, target} THEN edges[f] + 1 ELSE edges[f]
        /\ \A s, t \in Node : m_adj'[s][t] = IF s = source /\ t = target THEN m_adj[s][t] + 1
                                                                        ELSE m_adj[s][t]
    BY <2>1, InsertionEntries DEF IInv
  <2>4. e = {source, target} <=> (u = source /\ v = target) \/ (v = source /\ u = target)
    BY <1>1
  <2>5. CASE e = {source, target}
    <3>1. edges'[e] = c + 1
      BY <1>4, <2>3, <2>5
    <3>2. \/ m_adj'[u][v] = x + 1 /\ m_adj'[v][u] = y
          \/ m_adj'[u][v] = x /\ m_adj'[v][u] = y + 1
      BY <1>1, <1>3, <2>2, <2>3, <2>4, <2>5
    <3>3. Entries(m_adj', e) = x + y + 1
      BY <1>5, <3>2
    <3>4. QED
      BY <1>4, <1>5, <1>6, <3>1, <3>3
  <2>6. CASE e # {source, target}
    <3>1. edges'[e] = c
      BY <1>4, <2>3, <2>6
    <3>2. m_adj'[u][v] = x /\ m_adj'[v][u] = y
      BY <1>3, <2>3, <2>4, <2>6
    <3>3. QED
      BY <1>5, <1>7, <3>1, <3>2
  <2>7. QED
    BY <2>5, <2>6
<1>9. CASE \E source, target \in Node : Deletes(source, target)
  <2>1. PICK source \in Node, target \in Node : Deletes(source, target)
    BY <1>9
  <2>2. DeletionEffect(source, target)
    BY <2>1, DeletionEntries DEF IInv
  <2>3. CASE e = {source, target}
    <3>1. edges'[e] = c - 1
      BY <1>4, <2>2, <2>3 DEF DeletionEffect
    <3>2. {u, v} = {source, target} /\ {v, u} = {source, target}
      BY <1>1, <2>3
    <3>3. m_adj'[u][v] = Fewer(x) /\ m_adj'[v][u] = Fewer(y)
      BY <1>3, <2>2, <3>2 DEF DeletionEffect
    <3>5. ~(edges'[e] >= edges[e])
      BY <1>4, <3>1
    <3>6. Entries(m_adj', e) - Entries(m_adj, e) \in {-1, -2} \/ Entries(m_adj, e) = 0
      <4>1. Entries(m_adj', e) = Fewer(x) + Fewer(y)
        BY <1>5, <3>3, Zenon
      <4>2. Entries(m_adj, e) = x + y
        BY <1>5
      <4>3. QED
        BY <4>1, <4>2, FewerOfBoth
    <3>7. QED
      BY <1>6, <3>5, <3>6
  <2>4. CASE e # {source, target}
    <3>1. edges'[e] = c
      BY <1>4, <2>2, <2>4 DEF DeletionEffect
    <3>2. {u, v} # {source, target} /\ {v, u} # {source, target}
      BY <1>1, <2>4
    <3>3. m_adj'[u][v] = x /\ m_adj'[v][u] = y
      BY <1>3, <2>2, <3>2 DEF DeletionEffect
    <3>4. QED
      BY <1>5, <1>7, <3>1, <3>3
  <2>5. QED
    BY <2>3, <2>4
<1>10. CASE \E p : Turns(p)
  <2>1. PICK p : Turns(p)
    BY <1>10
  <2>2. m_adj'[u][v] + m_adj'[v][u] = x + y
    BY <1>3, <2>1, ReversedKeepsEntries DEF IInv, Turns
  <2>3. edges'[e] = c
    BY <1>4, <2>1 DEF Turns
  <2>4. QED
    BY <1>5, <1>7, <2>2, <2>3
<1>11. CASE UNCHANGED <<edges, m_adj, b>>
  BY <1>3, <1>4, <1>5, <1>7, <1>11
<1>12. QED
  BY <1>2, <1>8, <1>9, <1>10, <1>11 DEF StepEffect, HandlerEffect

\* No search, walk or descent loses an entry or makes one; an insertion adds one; a
\* deletion takes one or, of copies in opposite directions, two; and the lists never
\* hold more entries for an edge than the graph has copies of it.
THEOREM EntriesAlwaysFollowGraph == Spec => EntriesFollowGraph
<1>1. IInv /\ [Next]_vars =>
        [\A e \in Edge :
           LET more == Entries(m_adj', e) - Entries(m_adj, e)
           IN  /\ edges'[e] >= edges[e] => more = edges'[e] - edges[e]
               /\ edges'[e] < edges[e] => more \in {-1, -2} \/ Entries(m_adj, e) = 0
               /\ Entries(m_adj', e) <= edges'[e]]_vars
  BY NextEntries DEF EntryEffect
<1>2. QED
  BY <1>1, AlwaysInvariant, PTL DEF Spec, EntriesFollowGraph

LEMMA MaximumTaken == InBuckets => \E v \in Node : b.m_degree[v] = b.m_max_degree
BY BucketTypes

LEMMA MaximumTakenNext == (InBuckets => \E v \in Node : b.m_degree[v] = b.m_max_degree)'
BY MaximumTaken, PTL

\* Whatever the algorithms other than KFlipsCS turn, one node gives an out-degree to
\* another that is not higher afterwards, and the maximum does not rise.
THEOREM TurnsAlwaysLevel == Spec => TurnsLevel
<1>1. IInv /\ [Next]_vars =>
        [edges' = edges /\ m_adj' # m_adj /\ ~Is("KFLIPSCS") =>
           LET before == Lengths(m_adj)
               now == Lengths(m_adj')
           IN  /\ b'.m_max_degree <= b.m_max_degree
               /\ \E giver, taker \in Node :
                    /\ now[giver] = before[giver] - 1 /\ now[taker] = before[taker] + 1
                    /\ now[taker] <= now[giver]
                    /\ \A v \in Node \ {giver, taker} : now[v] = before[v]]_vars
  <2> SUFFICES ASSUME IInv, [Next]_vars, edges' = edges, m_adj' # m_adj, ~Is("KFLIPSCS")
               PROVE  LET before == Lengths(m_adj)
                          now == Lengths(m_adj')
                      IN  /\ b'.m_max_degree <= b.m_max_degree
                          /\ \E giver, taker \in Node :
                               /\ now[giver] = before[giver] - 1 /\ now[taker] = before[taker] + 1
                               /\ now[taker] <= now[giver]
                               /\ \A v \in Node \ {giver, taker} : now[v] = before[v]
    OBVIOUS
  <2> DEFINE before == Lengths(m_adj)
             now == Lengths(m_adj')
  <2>1. StepEffect /\ InBuckets'
    BY NextEffect, EffectKeeps DEF IInv
  <2>2. ~\E source, target \in Node : Inserts(source, target) \/ Deletes(source, target)
    <3> SUFFICES ASSUME NEW source \in Node, NEW target \in Node,
                        Inserts(source, target) \/ Deletes(source, target)
                 PROVE  FALSE
      OBVIOUS
    <3>1. PICK e \in Edge : e = {source, target}
      BY DEF Inserts, Deletes, Edge
    <3>2. edges[e] \in 0..MaxCopies
      BY DEF IInv, EntriesWithin
    <3>3. edges'[e] # edges[e]
      BY <3>1, <3>2, InsertionEntries, DeletionEntries, MaxCopiesAssumption DEF IInv, DeletionEffect
    <3>4. QED
      BY <3>3
  <2>3. PICK p : Turns(p) /\ IsLevelling(p)
    BY <2>1, <2>2 DEF StepEffect, HandlerEffect
  <2>4. PICK giver \in Node, taker \in Node : giver = p[1] /\ taker = p[Len(p)] /\ giver # taker
    BY <2>3, TurnEnds DEF Turns
  <2>5. \A v \in Node : before[v] = Length(m_adj[v]) /\ now[v] = Length(m_adj'[v])
    BY DEF Lengths
  <2>6. \A v \in Node : before[v] = b.m_degree[v] /\ now[v] = b'.m_degree[v]
    BY <2>1, <2>5 DEF IInv, InBuckets
  <2>7. \A v \in Node : before[v] \in Nat /\ before[v] <= b.m_max_degree
    BY <2>6, BucketTypes DEF IInv
  <2>8. now[giver] = before[giver] - 1 /\ now[taker] = before[taker] + 1
    BY <2>3, <2>4, <2>5, ReversedLengths DEF IInv, Turns
  <2>9. \A v \in Node \ {giver, taker} : now[v] = before[v]
    BY <2>3, <2>4, <2>5, ReversedLengths DEF IInv, Turns
  <2>10. before[taker] < before[giver] - 1
    BY <2>3, <2>4, <2>6 DEF IsLevelling
  <2>11. now[taker] <= now[giver]
    BY <2>7, <2>8, <2>10
  <2>12. b.m_max_degree \in Nat
    BY BucketTypes DEF IInv
  <2>13. \A v \in Node : now[v] <= b.m_max_degree
    BY <2>7, <2>8, <2>9, <2>10, <2>12
  <2>14. \E v \in Node : now[v] = b'.m_max_degree
    <3>1. \E v \in Node : b'.m_degree[v] = b'.m_max_degree
      BY <2>1, MaximumTakenNext
    <3>2. QED
      BY <2>6, <3>1
  <2>15. QED
    BY <2>8, <2>9, <2>11, <2>13, <2>14
<1>2. QED
  BY <1>1, AlwaysInvariant, PTL DEF Spec, TurnsLevel

(****************************************************************************)
(* Simple graphs: the lists are an orientation.                             *)
(****************************************************************************)

\* With one copy of an edge at most, every edge is in one of the lists of its ends.
EveryEdgeEntered == \A e \in Edge : Entries(m_adj, e) = edges[e]

LEMMA EntriesType ==
  ASSUME EntriesWithin, NEW e \in Edge
  PROVE  Entries(m_adj, e) \in Nat /\ edges[e] \in 0..MaxCopies
BY EntriesPair, EntryType DEF EntriesWithin

LEMMA EntriesTypeNext ==
  (EntriesWithin => \A e \in Edge : Entries(m_adj, e) \in Nat /\ edges[e] \in 0..MaxCopies)'
<1>1. EntriesWithin => \A e \in Edge : Entries(m_adj, e) \in Nat /\ edges[e] \in 0..MaxCopies
  BY EntriesType
<1>2. QED
  BY <1>1, PTL

LEMMA InitEntered == Init => EveryEdgeEntered
BY EntriesPair DEF Init, EveryEdgeEntered

LEMMA NextEntered ==
  ASSUME MaxCopies = 1, IInv, IInv', EveryEdgeEntered, [Next]_vars
  PROVE  EveryEdgeEntered'
<1> SUFFICES ASSUME NEW e \in Edge PROVE Entries(m_adj', e) = edges'[e]
  BY DEF EveryEdgeEntered
<1>1. edges[e] \in 0..1 /\ Entries(m_adj, e) = edges[e]
  BY EntriesType DEF IInv, EveryEdgeEntered
<1>2. edges'[e] \in 0..1 /\ Entries(m_adj', e) \in Nat
  BY EntriesTypeNext DEF IInv
<1>3. EntryEffect(e)
  BY NextEntries
<1>4. CASE edges'[e] >= edges[e]
  BY <1>1, <1>2, <1>3, <1>4 DEF EntryEffect
<1>5. CASE edges'[e] < edges[e]
  BY <1>1, <1>2, <1>3, <1>5 DEF EntryEffect
<1>6. QED
  BY <1>1, <1>2, <1>4, <1>5

\* The graph as a set of edges.
Present == {e \in DOMAIN edges : edges[e] > 0}

LEMMA EnteredOriented ==
  ASSUME MaxCopies = 1, EntriesWithin, EveryEdgeEntered
  PROVE  /\ IsOrientation(Neighbours, Present)
         /\ \A e \in Edge : edges[e] \in 0..1
<1>1. Neighbours \in Digraph
  BY DEF Neighbours, Digraph
<1>2. /\ edges \in [Edge -> 0..1]
      /\ \A v \in Node : m_adj[v][v] = 0
  BY DEF EntriesWithin
<1>3. ASSUME NEW u \in Node, NEW v \in Node, u # v
      PROVE  /\ m_adj[u][v] \in Nat /\ m_adj[v][u] \in Nat
             /\ {u, v} \in Edge /\ m_adj[u][v] + m_adj[v][u] = edges[{u, v}]
  <2>1. {u, v} \in Edge
    BY <1>3 DEF Edge
  <2>2. PICK x \in Node, y \in Node :
          /\ x # y /\ {u, v} = {x, y}
          /\ \A adj : Entries(adj, {u, v}) = adj[x][y] + adj[y][x]
    BY <2>1, EntriesPair
  <2>3. (u = x /\ v = y) \/ (u = y /\ v = x)
    BY <2>2
  <2>4. m_adj[u][v] \in Nat /\ m_adj[v][u] \in Nat
    BY EntryType DEF EntriesWithin
  <2>5. m_adj[x][y] + m_adj[y][x] = edges[{u, v}]
    BY <2>1, <2>2 DEF EveryEdgeEntered
  <2>6. QED
    BY <2>1, <2>3, <2>4, <2>5
<1>4. ASSUME NEW u \in Node, NEW v \in Node, v \in Neighbours[u]
      PROVE  {u, v} \in Present /\ u \notin Neighbours[v]
  <2>1. m_adj[u][v] > 0 /\ u # v
    BY <1>2, <1>4 DEF Neighbours
  <2>2. edges[{u, v}] \in 0..1
    BY <1>2, <1>3, <2>1
  <2>3. m_adj[v][u] = 0 /\ edges[{u, v}] > 0
    BY <1>3, <2>1, <2>2
  <2>4. QED
    BY <1>2, <1>3, <2>1, <2>3 DEF Neighbours, Present
<1>5. ASSUME NEW u \in Node, NEW v \in Node, {u, v} \in Present
      PROVE  v \in Neighbours[u] \/ u \in Neighbours[v]
  <2>1. edges[{u, v}] > 0 /\ {u, v} \in Edge
    BY <1>2, <1>5 DEF Present
  <2>2. u # v
    BY <2>1 DEF Edge
  <2>3. m_adj[u][v] > 0 \/ m_adj[v][u] > 0
    BY <1>3, <2>1, <2>2
  <2>4. QED
    BY <2>3 DEF Neighbours
<1>6. QED
  BY <1>1, <1>2, <1>4, <1>5 DEF IsOrientation

LEMMA EnteredOrientedNext ==
  (MaxCopies = 1 /\ EntriesWithin /\ EveryEdgeEntered
     => IsOrientation(Neighbours, Present) /\ \A e \in Edge : edges[e] \in 0..1)'
<1>1. MaxCopies = 1 /\ EntriesWithin /\ EveryEdgeEntered
        => IsOrientation(Neighbours, Present) /\ \A e \in Edge : edges[e] \in 0..1
  BY EnteredOriented
<1>2. QED
  BY <1>1, PTL

\* While the graph is simple every step of every algorithm is one of module
\* EdgeOrientation: the lists are an orientation of the graph from the first step of an
\* update to its last.
THEOREM SimpleGraphsOriented ==
  ASSUME MaxCopies = 1
  PROVE  Spec => Implements
<1>1. Init => Abstract!Init
  BY DEF Init, Abstract!Init, NoArcs, Abstract!NoArcs, Neighbours
<1>2. /\ IInv /\ IInv' /\ EveryEdgeEntered /\ EveryEdgeEntered' /\ [Next]_vars
        => [Abstract!Next]_(Abstract!vars)
  <2> SUFFICES ASSUME IInv, IInv', EveryEdgeEntered, EveryEdgeEntered', [Next]_vars
               PROVE  Abstract!Next
    OBVIOUS
  <2>1. Abstract!Reorient
    <3>1. IsOrientation(Neighbours', Present')
      BY EnteredOrientedNext DEF IInv
    <3>2. QED
      BY <3>1 DEF Present, IsOrientation, Digraph,
                  Abstract!Reorient, Abstract!IsOrientation, Abstract!Digraph
  <2>2. edges \in [Edge -> 0..1] /\ edges' \in [Edge -> 0..1]
    BY DEF IInv, EntriesWithin
  <2>3. StepEffect
    BY NextEffect
  <2>4. CASE \E source, target \in Node : Inserts(source, target)
    <3>1. PICK source \in Node, target \in Node : Inserts(source, target)
      BY <2>4
    <3>2. PICK e \in Edge : e = {source, target}
      BY <3>1 DEF Inserts, Edge
    <3>3. source # target /\ edges[e] = 0 /\ edges' = [edges EXCEPT ![e] = 1]
      <4>1. source # target /\ edges[e] < 1 /\ edges' = [edges EXCEPT ![e] = edges[e] + 1]
        BY <3>1, <3>2 DEF Inserts
      <4>2. edges[e] = 0
        BY <2>2, <4>1
      <4>3. QED
        BY <4>1, <4>2
    <3>4. e \notin Present /\ Present' = Present \cup {e}
      BY <2>2, <3>3 DEF Present
    <3>5. Abstract!handleInsertion(source, target)
      BY <2>1, <3>2, <3>3, <3>4 DEF Abstract!handleInsertion, Present
    <3>6. QED
      BY <3>5 DEF Abstract!Next
  <2>5. CASE \E source, target \in Node : Deletes(source, target)
    <3>1. PICK source \in Node, target \in Node : Deletes(source, target)
      BY <2>5
    <3>2. PICK e \in Edge : e = {source, target}
      BY <3>1 DEF Deletes, Edge
    <3>3. edges[e] = 1 /\ edges' = [edges EXCEPT ![e] = 0]
      <4>1. edges[e] > 0 /\ edges' = [edges EXCEPT ![e] = edges[e] - 1]
        BY <3>1, <3>2 DEF Deletes
      <4>2. edges[e] = 1
        BY <2>2, <4>1
      <4>3. QED
        BY <4>1, <4>2
    <3>4. e \in Present /\ Present' = Present \ {e}
      BY <2>2, <3>3 DEF Present
    <3>5. Abstract!handleDeletion(source, target)
      BY <2>1, <3>2, <3>4 DEF Abstract!handleDeletion, Present
    <3>6. QED
      BY <3>5 DEF Abstract!Next
  <2>6. CASE HandlerEffect
    <3>1. Present' = Present
      BY <2>6 DEF HandlerEffect, Turns, Present
    <3>2. Abstract!turn
      BY <2>1, <3>1 DEF Abstract!turn, Present
    <3>3. QED
      BY <3>2 DEF Abstract!Next
  <2>7. QED
    BY <2>3, <2>4, <2>5, <2>6 DEF StepEffect
<1>3. IInv /\ IInv' /\ EveryEdgeEntered /\ [Next]_vars => EveryEdgeEntered'
  BY NextEntered
<1>4. QED
  BY <1>1, <1>2, <1>3, InitEntered, AlwaysInvariant, PTL
     DEF Spec, Implements, Abstract!Spec, vars, Abstract!vars

(****************************************************************************)
(* naive_opt is exact.  That a maximum out-degree cannot be lowered is      *)
(* shown by a set of nodes within which there are too many entries; what    *)
(* has been shown so stays so when entries are added or turned.             *)
(****************************************************************************)

\* The entries for the edges within S, each copy counted.
Within(adj, S) ==
  {ek \in Edge \X (1..MaxCopies) : ek[1] \subseteq S /\ ek[2] <= Entries(adj, ek[1])}

\* There are too many entries within some set for all nodes to have less than k.
Certified(adj, k) ==
  k = 0 \/ \E S \in SUBSET Node : Cardinality(Within(adj, S)) > (k - 1) * Cardinality(S)

LEMMA WithinFinite ==
  ASSUME NEW adj, NEW S
  PROVE  IsFiniteSet(Within(adj, S)) /\ Cardinality(Within(adj, S)) \in Nat
<1>1. IsFiniteSet(Edge)
  <2>1. IsFiniteSet(SUBSET Node)
    BY NodeAssumption, FS_SUBSET
  <2>2. QED
    BY <2>1, FS_Subset DEF Edge
<1>2. IsFiniteSet(1..MaxCopies)
  BY MaxCopiesAssumption, FS_Interval
<1>3. IsFiniteSet(Edge \X (1..MaxCopies))
  BY <1>1, <1>2, FS_Product
<1>4. Within(adj, S) \subseteq Edge \X (1..MaxCopies)
  BY DEF Within
<1>5. QED
  BY <1>3, <1>4, FS_Subset, FS_CardinalityType

\* From adj to adj2 no edge loses an entry.
KeepsEntries(adj, adj2) ==
  \A e \in Edge : /\ Entries(adj, e) \in Nat /\ Entries(adj2, e) \in Nat
                  /\ Entries(adj, e) <= Entries(adj2, e)

LEMMA CertifiedStays ==
  ASSUME NEW adj, NEW adj2, KeepsEntries(adj, adj2),
         NEW k \in Nat, NEW l \in Nat, l <= k, Certified(adj, k)
  PROVE  Certified(adj2, l)
<1> SUFFICES ASSUME l # 0
             PROVE  \E S \in SUBSET Node : Cardinality(Within(adj2, S)) > (l - 1) * Cardinality(S)
  BY DEF Certified
<1>1. PICK S \in SUBSET Node : Cardinality(Within(adj, S)) > (k - 1) * Cardinality(S)
  BY DEF Certified
<1>2. ASSUME NEW ek \in Within(adj, S) PROVE ek \in Within(adj2, S)
  <2>1. /\ ek \in Edge \X (1..MaxCopies) /\ ek[1] \in Edge /\ ek[2] \in Nat
        /\ ek[1] \subseteq S /\ ek[2] <= Entries(adj, ek[1])
    BY <1>2 DEF Within
  <2>2. PICK m \in Nat, n \in Nat : m = Entries(adj, ek[1]) /\ n = Entries(adj2, ek[1]) /\ m <= n
    BY <2>1 DEF KeepsEntries
  <2>3. ek[2] <= n
    BY <2>1, <2>2
  <2>4. QED
    BY <2>1, <2>2, <2>3 DEF Within
<1>3. Cardinality(Within(adj, S)) <= Cardinality(Within(adj2, S))
  BY <1>2, WithinFinite, FS_Subset
<1>4. PICK m \in Nat, n \in Nat, c \in Nat :
        /\ m = Cardinality(Within(adj, S)) /\ n = Cardinality(Within(adj2, S))
        /\ c = Cardinality(S)
  BY WithinFinite, NodeAssumption, FS_Subset, FS_CardinalityType
<1>5. PICK d \in Nat, h \in Nat : k = l + d /\ h = l - 1
  <2>1. k - l \in Nat /\ l - 1 \in Nat /\ k = l + (k - l)
    OBVIOUS
  <2>2. QED
    BY <2>1
<1>6. (k - 1) * c = h * c + d * c /\ h * c \in Nat /\ d * c \in Nat
  <2>1. k - 1 = h + d
    BY <1>5
  <2>2. (h + d) * c = h * c + d * c /\ h * c \in Nat /\ d * c \in Nat
    OBVIOUS
  <2>3. QED
    BY <2>1, <2>2
<1>7. n > h * c
  BY <1>1, <1>3, <1>4, <1>6
<1>8. QED
  BY <1>4, <1>5, <1>7

\* What the search from s has seen when it finds no low node.
LEMMA FailedSearch ==
  ASSUME InBuckets, NEW s \in Node, b.m_degree[s] = b.m_max_degree, PathsToLow(s) = {}
  PROVE  \E R \in SUBSET Node :
           /\ s \in R /\ IsClosed(Neighbours, R)
           /\ \A x \in R : b.m_degree[x] >= b.m_max_degree - 1
<1> DEFINE mid == Node \ (Low \cup {s})
<1>1. Neighbours \in Digraph
  BY DEF Neighbours, Digraph
<1>2. NoPath(Neighbours, s, mid, Low)
  BY DEF PathsToLow, NoPath
<1>3. mid \in SUBSET Node /\ Low \in SUBSET Node /\ s \notin Low
  BY MaximumNotLow DEF Low
<1>4. \A x \in mid \cup {s} : x \in Node \ Low
  BY <1>3
<1>5. \A y \in Node : y \notin mid /\ y \notin Low => y = s
  OBVIOUS
<1> HIDE DEF mid
<1>6. PICK R \in SUBSET Node : IsExhausted(Neighbours, s, mid, Low, R)
  BY <1>1, <1>2, <1>3, SearchExhausted
<1>7. IsClosed(Neighbours, R)
  <2> SUFFICES ASSUME NEW x \in R, NEW y \in Neighbours[x] PROVE y \in R
    BY DEF IsClosed
  <2>1. y \in Node
    BY <1>1 DEF Digraph
  <2>2. QED
    BY <1>5, <1>6, <2>1 DEF IsExhausted
<1>8. ASSUME NEW x \in R PROVE b.m_degree[x] >= b.m_max_degree - 1
  <2>1. x \in Node \ Low
    BY <1>4, <1>6, <1>8 DEF IsExhausted
  <2>2. b.m_degree[x] \in Nat /\ b.m_max_degree \in Nat
    BY <2>1, BucketTypes
  <2>3. QED
    BY <2>1, <2>2 DEF Low
<1>9. QED
  BY <1>6, <1>7, <1>8 DEF IsExhausted

\* The number that the c-th entry of w in the list of x has among those of their edge.
Place(x, w, c) == IF x = (CHOOSE z \in {x, w} : TRUE) THEN c ELSE m_adj[w][x] + c

LEMMA PlaceFacts ==
  ASSUME EntriesWithin, NEW x \in Node, NEW w \in Node, NEW c \in 1..m_adj[x][w]
  PROVE  /\ x # w /\ {x, w} \in Edge
         /\ Place(x, w, c) \in 1..MaxCopies /\ Place(x, w, c) <= Entries(m_adj, {x, w})
<1>1. PICK n \in Nat, m \in Nat : n = m_adj[x][w] /\ m = m_adj[w][x]
  BY EntryType DEF EntriesWithin
<1>2. c \in 1..n
  BY <1>1
<1>3. x # w
  <2>1. m_adj[x][x] = 0
    BY DEF EntriesWithin
  <2>2. QED
    BY <1>1, <1>2, <2>1
<1>4. PICK e \in Edge : e = {x, w}
  BY <1>3 DEF Edge
<1>5. Entries(m_adj, e) = n + m
  <2>1. PICK u \in Node, v \in Node : e = {u, v} /\ Entries(m_adj, e) = m_adj[u][v] + m_adj[v][u]
    BY EntriesPair
  <2>2. (u = x /\ v = w) \/ (u = w /\ v = x)
    BY <1>3, <1>4, <2>1
  <2>3. QED
    BY <1>1, <2>1, <2>2
<1>6. n + m <= MaxCopies
  <2>1. n + m <= edges[e]
    BY <1>1, <1>3, <1>4 DEF EntriesWithin
  <2>2. edges[e] \in 0..MaxCopies
    BY DEF EntriesWithin
  <2>3. QED
    BY <2>1, <2>2, MaxCopiesAssumption
<1>7. Place(x, w, c) \in {c, m + c}
  BY <1>1 DEF Place
<1>8. Place(x, w, c) \in 1..MaxCopies /\ Place(x, w, c) <= n + m
  BY <1>2, <1>6, <1>7, MaxCopiesAssumption
<1>9. QED
  BY <1>3, <1>4, <1>5, <1>8

LEMMA PlaceInjective ==
  ASSUME EntriesWithin, NEW x \in Node, NEW w \in Node, NEW c \in 1..m_adj[x][w],
         NEW y \in Node, NEW z \in Node, NEW d \in 1..m_adj[y][z],
         {x, w} = {y, z}, Place(x, w, c) = Place(y, z, d)
  PROVE  x = y /\ w = z /\ c = d
<1>1. PICK n \in Nat, m \in Nat : n = m_adj[x][w] /\ m = m_adj[w][x]
  BY EntryType DEF EntriesWithin
<1>2. c \in 1..n /\ x # w
  BY <1>1, PlaceFacts
<1>3. PICK f : f = CHOOSE q \in {x, w} : TRUE
  OBVIOUS
<1>4. f = x \/ f = w
  BY <1>3
<1>5. f = CHOOSE q \in {y, z} : TRUE
  BY <1>3
<1>6. /\ Place(x, w, c) = IF x = f THEN c ELSE m_adj[w][x] + c
      /\ Place(y, z, d) = IF y = f THEN d ELSE m_adj[z][y] + d
  BY <1>3, <1>5 DEF Place
<1>7. CASE x = y
  <2>1. w = z
    BY <1>2, <1>7
  <2>2. d \in 1..n
    BY <1>1, <1>7, <2>1
  <2>3. c = d
    <3>1. c = d \/ m + c = m + d
      BY <1>1, <1>6, <1>7, <2>1
    <3>2. QED
      BY <1>2, <2>2, <3>1
  <2>4. QED
    BY <1>7, <2>1, <2>3
<1>8. CASE x # y
  <2>1. y = w /\ z = x
    BY <1>8
  <2>2. d \in 1..m
    BY <1>1, <2>1
  <2>3. c = n + d \/ m + c = d
    <3>1. CASE f = x
      <4>1. Place(x, w, c) = c /\ Place(y, z, d) = n + d
        BY <1>1, <1>2, <1>6, <2>1, <3>1
      <4>2. QED
        BY <4>1
    <3>2. CASE f = w
      <4>1. Place(x, w, c) = m + c /\ Place(y, z, d) = d
        BY <1>1, <1>2, <1>6, <2>1, <3>2
      <4>2. QED
        BY <4>1
    <3>3. QED
      BY <1>4, <3>1, <3>2
  <2>4. QED
    BY <1>2, <2>2, <2>3
<1>9. QED
  BY <1>7, <1>8

\* A closed set of nodes that all have the maximum or one less, and one that has it.
LEMMA ClosedCertifies ==
  ASSUME InBuckets, EntriesWithin, NEW u \in Node, b.m_degree[u] = b.m_max_degree,
         NEW C \in SUBSET Node, u \in C, IsClosed(Neighbours, C),
         \A x \in C : b.m_degree[x] >= b.m_max_degree - 1
  PROVE  Certified(m_adj, b.m_max_degree)
<1>1. PICK k \in Nat : k = b.m_max_degree
  BY BucketTypes
<1> SUFFICES ASSUME k # 0 PROVE Cardinality(Within(m_adj, C)) > (k - 1) * Cardinality(C)
  BY <1>1 DEF Certified
<1>2. PICK l \in Nat : l = k - 1
  OBVIOUS
<1> DEFINE slots == [x \in Node |-> Slots(m_adj[x])]
<1>3. ASSUME NEW x \in Node
      PROVE  /\ IsFiniteSet(slots[x]) /\ Cardinality(slots[x]) = b.m_degree[x]
             /\ b.m_degree[x] \in Nat
             /\ \A q \in slots[x] : q = <<q[1], q[2]>> /\ q[1] \in Node /\ q[2] \in 1..m_adj[x][q[1]]
  <2>1. m_adj[x] \in List
    BY DEF EntriesWithin
  <2>2. IsFiniteSet(slots[x]) /\ Cardinality(slots[x]) = b.m_degree[x] /\ b.m_degree[x] \in Nat
    BY <2>1, LengthType DEF InBuckets
  <2>3. ASSUME NEW q \in slots[x]
        PROVE  q = <<q[1], q[2]>> /\ q[1] \in Node /\ q[2] \in 1..m_adj[x][q[1]]
    <3>1. q \in Node \X (1..MaxCopies)
      BY <2>1, SlotsMembers
    <3>2. q = <<q[1], q[2]>>
      BY <3>1
    <3>3. QED
      BY <2>1, <3>2, SlotsMembers
  <2>4. QED
    BY <2>2, <2>3
<1> HIDE DEF slots
<1> DEFINE need == [x \in Node |-> IF x = u THEN k ELSE l]
<1>4. need[u] = k /\ \A x \in Node \ {u} : need[x] = l
  OBVIOUS
<1> HIDE DEF need
<1>5. \A x \in C : \E h \in [1..need[x] -> slots[x]] : \A p, q \in 1..need[x] : h[p] = h[q] => p = q
  <2> SUFFICES ASSUME NEW x \in C
               PROVE  \E h \in [1..need[x] -> slots[x]] : \A p, q \in 1..need[x] : h[p] = h[q] => p = q
    OBVIOUS
  <2>1. PICK n \in Nat : n = Cardinality(slots[x]) /\ n = b.m_degree[x]
    BY <1>3
  <2>2. n >= l /\ (x = u => n = k)
    BY <1>1, <1>2, <2>1
  <2>3. need[x] \in Nat /\ n >= need[x]
    BY <1>2, <1>4, <2>2
  <2>4. IsFiniteSet(slots[x])
    BY <1>3
  <2>5. QED
    BY <2>1, <2>3, <2>4, Choosing
<1> DEFINE out == [x \in C |-> CHOOSE h \in [1..need[x] -> slots[x]] :
                                 \A p, q \in 1..need[x] : h[p] = h[q] => p = q]
<1>6. \A x \in C : /\ out[x] \in [1..need[x] -> slots[x]]
                   /\ \A p, q \in 1..need[x] : out[x][p] = out[x][q] => p = q
  BY <1>5
<1> HIDE DEF out
<1> DEFINE T == C \X (1..l)
           extra == <<u, k>>
           Dom == T \cup {extra}
           entry(d) == out[d[1]][d[2]]
           f == [d \in Dom |-> <<{d[1], entry(d)[1]}, Place(d[1], entry(d)[1], entry(d)[2])>>]
<1>7. \A d \in Dom : d[1] \in C /\ d[2] \in 1..need[d[1]] /\ d = <<d[1], d[2]>>
  <2> SUFFICES ASSUME NEW d \in Dom PROVE d[1] \in C /\ d[2] \in 1..need[d[1]] /\ d = <<d[1], d[2]>>
    OBVIOUS
  <2>1. CASE d = extra
    BY <1>4, <2>1
  <2>2. CASE d \in T
    <3>1. d[1] \in C /\ d[2] \in 1..l /\ d = <<d[1], d[2]>>
      BY <2>2
    <3>2. need[d[1]] = l \/ need[d[1]] = k
      BY <1>4, <3>1
    <3>3. d[2] \in 1..need[d[1]]
      BY <1>2, <3>1, <3>2
    <3>4. QED
      BY <3>1, <3>3
  <2>3. QED
    BY <2>1, <2>2
<1> HIDE DEF Dom
<1>8. ASSUME NEW d \in Dom
      PROVE  /\ d[1] \in Node /\ entry(d) \in slots[d[1]]
             /\ entry(d) = <<entry(d)[1], entry(d)[2]>>
             /\ entry(d)[1] \in C /\ entry(d)[2] \in 1..m_adj[d[1]][entry(d)[1]]
  <2>1. d[1] \in Node /\ entry(d) \in slots[d[1]]
    <3>1. d[1] \in C /\ d[2] \in 1..need[d[1]]
      BY <1>7
    <3>2. out[d[1]] \in [1..need[d[1]] -> slots[d[1]]]
      BY <1>6, <3>1
    <3>3. QED
      BY <3>1, <3>2
  <2>2. /\ entry(d) = <<entry(d)[1], entry(d)[2]>>
        /\ entry(d)[1] \in Node /\ entry(d)[2] \in 1..m_adj[d[1]][entry(d)[1]]
    BY <1>3, <2>1
  <2>3. entry(d)[1] \in Neighbours[d[1]]
    <3>1. m_adj[d[1]][entry(d)[1]] \in Nat
      BY <2>1, <2>2, EntryType DEF EntriesWithin
    <3>2. m_adj[d[1]][entry(d)[1]] > 0
      BY <2>2, <3>1
    <3>3. QED
      BY <2>1, <2>2, <3>2 DEF Neighbours
  <2>4. entry(d)[1] \in C
    BY <1>7, <2>3 DEF IsClosed
  <2>5. QED
    BY <2>1, <2>2, <2>4
<1> HIDE DEF entry
<1>9. ASSUME NEW d \in Dom PROVE f[d] \in Within(m_adj, C)
  <2>1. /\ {d[1], entry(d)[1]} \in Edge
        /\ Place(d[1], entry(d)[1], entry(d)[2]) \in 1..MaxCopies
        /\ Place(d[1], entry(d)[1], entry(d)[2]) <= Entries(m_adj, {d[1], entry(d)[1]})
    BY <1>8, PlaceFacts
  <2>2. {d[1], entry(d)[1]} \subseteq C
    BY <1>7, <1>8
  <2>3. f[d] = <<{d[1], entry(d)[1]}, Place(d[1], entry(d)[1], entry(d)[2])>>
    OBVIOUS
  <2> HIDE DEF f
  <2>4. QED
    BY <2>1, <2>2, <2>3 DEF Within
<1>10. ASSUME NEW d \in Dom, NEW e \in Dom, f[d] = f[e] PROVE d = e
  <2>1. /\ {d[1], entry(d)[1]} = {e[1], entry(e)[1]}
        /\ Place(d[1], entry(d)[1], entry(d)[2]) = Place(e[1], entry(e)[1], entry(e)[2])
    BY <1>10
  <2>2. d[1] = e[1] /\ entry(d)[1] = entry(e)[1] /\ entry(d)[2] = entry(e)[2]
    <3>1. PICK x \in Node, w \in Node : x = d[1] /\ w = entry(d)[1]
      BY <1>8
    <3>2. PICK c \in 1..m_adj[x][w] : c = entry(d)[2]
      BY <1>8, <3>1
    <3>3. PICK y \in Node, z \in Node : y = e[1] /\ z = entry(e)[1]
      BY <1>8
    <3>4. PICK g \in 1..m_adj[y][z] : g = entry(e)[2]
      BY <1>8, <3>3
    <3>5. {x, w} = {y, z} /\ Place(x, w, c) = Place(y, z, g)
      BY <2>1, <3>1, <3>2, <3>3, <3>4
    <3>6. x = y /\ w = z /\ c = g
      BY <3>5, PlaceInjective
    <3>7. QED
      BY <3>1, <3>2, <3>3, <3>4, <3>6
  <2>3. entry(d) = entry(e)
    BY <1>8, <2>2
  <2>4. d[2] = e[2]
    BY <1>6, <1>7, <2>2, <2>3 DEF entry
  <2>5. QED
    BY <1>7, <2>2, <2>4
<1>11. IsFiniteSet(T) /\ Cardinality(T) = Cardinality(C) * l
  <2>1. IsFiniteSet(1..l) /\ Cardinality(1..l) = l
    BY <1>2, FS_Interval
  <2>2. IsFiniteSet(C)
    BY NodeAssumption, FS_Subset
  <2>3. QED
    BY <2>1, <2>2, FS_Product
<1>12. extra \notin T
  BY <1>2
<1>13. Cardinality(Dom) = Cardinality(T) + 1
  BY <1>11, <1>12, FS_AddElement DEF Dom
<1>14. f \in Injection(Dom, Within(m_adj, C))
  <2>1. f \in [Dom -> Within(m_adj, C)]
    BY <1>9
  <2> HIDE DEF f
  <2>2. QED
    BY <2>1, <1>10 DEF Injection, IsInjective
<1>15. Cardinality(Dom) <= Cardinality(Within(m_adj, C))
  <2> HIDE DEF f
  <2>1. QED
    BY <1>14, WithinFinite, FS_Injection
<1>16. PICK c \in Nat, n \in Nat : c = Cardinality(C) /\ n = Cardinality(Within(m_adj, C))
  BY WithinFinite, NodeAssumption, FS_Subset, FS_CardinalityType
<1>17. c * l + 1 <= n
  BY <1>11, <1>13, <1>15, <1>16
<1>18. (k - 1) * c = c * l /\ c * l \in Nat
  BY <1>2, <1>16
<1>19. QED
  BY <1>16, <1>17, <1>18

LEMMA BucketTypesNext ==
  (InBuckets => /\ \A v \in Node : b.m_degree[v] \in Nat /\ b.m_degree[v] <= b.m_max_degree
                /\ b.m_max_degree \in Nat
                /\ \E v \in Node : b.m_degree[v] = b.m_max_degree)'
<1>1. InBuckets => /\ \A v \in Node : b.m_degree[v] \in Nat /\ b.m_degree[v] <= b.m_max_degree
                   /\ b.m_max_degree \in Nat
                   /\ \E v \in Node : b.m_degree[v] = b.m_max_degree
  BY BucketTypes
<1>2. QED
  BY <1>1, PTL

LEMMA KeptEntries ==
  ASSUME IInv, IInv', [Next]_vars, \A e \in Edge : edges'[e] >= edges[e]
  PROVE  KeepsEntries(m_adj, m_adj')
<1> SUFFICES ASSUME NEW e \in Edge
             PROVE  /\ Entries(m_adj, e) \in Nat /\ Entries(m_adj', e) \in Nat
                    /\ Entries(m_adj, e) <= Entries(m_adj', e)
  BY DEF KeepsEntries
<1>1. Entries(m_adj, e) \in Nat /\ edges[e] \in 0..MaxCopies
  BY EntriesType DEF IInv
<1>2. Entries(m_adj', e) \in Nat /\ edges'[e] \in 0..MaxCopies
  BY EntriesTypeNext DEF IInv
<1>3. Entries(m_adj', e) - Entries(m_adj, e) = edges'[e] - edges[e]
  BY NextEntries DEF EntryEffect
<1>4. edges[e] \in Nat /\ edges'[e] \in Nat
  BY <1>1, <1>2, MaxCopiesAssumption
<1>5. QED
  BY <1>1, <1>2, <1>3, <1>4

\* After an insertion one node may be above what has been certified.
OneAbove ==
  \E s \in Node : /\ b.m_degree[s] = b.m_max_degree /\ b.m_max_degree > 0
                  /\ \A v \in Node \ {s} : b.m_degree[v] < b.m_max_degree
                  /\ Certified(m_adj, b.m_max_degree - 1)

\* What naive_opt knows between its steps.
NaiveInv ==
  Is("NAIVEOPT") =>
    /\ pc \in {"idle", "bfs_all", "while_bfs_all", "undefined"}
    /\ pc = "idle" => Certified(m_adj, b.m_max_degree)
    /\ pc = "bfs_all" => Certified(m_adj, b.m_max_degree) \/ OneAbove

LEMMA NaiveInsertion ==
  ASSUME IInv, IInv', NEW source \in Node, NEW target \in Node, handleInsertion(source, target),
         Certified(m_adj, b.m_max_degree)
  PROVE  Certified(m_adj', b'.m_max_degree) \/ OneAbove'
<1>1. source # target /\ ~overflows(source) /\ b' = Moved(b, source, 1)
      /\ edges' = [edges EXCEPT ![{source, target}] = @ + 1]
  BY DEF handleInsertion
<1>2. PICK max \in Nat, new \in Nat : max = b.m_max_degree /\ new = b'.m_max_degree
  BY BucketTypes, BucketTypesNext DEF IInv
<1>3. KeepsEntries(m_adj, m_adj')
  <2>1. PICK e0 \in Edge : e0 = {source, target}
    BY <1>1 DEF Edge
  <2>2. edges \in [Edge -> 0..MaxCopies] /\ edges' = [edges EXCEPT ![e0] = edges[e0] + 1]
    BY <1>1, <2>1 DEF IInv, EntriesWithin
  <2>3. \A e \in Edge : edges[e] \in Nat
    BY <2>2, MaxCopiesAssumption
  <2>4. \A e \in Edge : edges'[e] >= edges[e]
    BY <2>2, <2>3
  <2>5. [Next]_vars
    BY DEF Next
  <2>6. QED
    BY <2>4, <2>5, KeptEntries
<1>4. \A v \in Node : b.m_degree[v] \in Nat /\ b.m_degree[v] <= max
  BY <1>2, BucketTypes DEF IInv
<1>5. \A v \in Node : b'.m_degree[v] = IF v = source THEN b.m_degree[v] + 1 ELSE b.m_degree[v]
  <2>1. b.m_degree[source] + 1 \in Degrees
    BY <1>1 DEF overflows
  <2>2. QED
    BY <1>1, <2>1, MovedFacts DEF IInv, InBuckets
<1>6. CASE new <= max
  <2>1. Certified(m_adj', new)
    BY <1>2, <1>3, <1>6, CertifiedStays
  <2>2. QED
    BY <1>2, <2>1
<1>7. CASE new > max
  <2>1. PICK u \in Node : b'.m_degree[u] = new
    BY <1>2, BucketTypesNext DEF IInv
  <2>2. u = source /\ new = b.m_degree[source] + 1
    BY <1>4, <1>5, <1>7, <2>1
  <2>3. new - 1 = max
    BY <1>4, <1>7, <2>2
  <2>4. \A v \in Node \ {source} : b'.m_degree[v] < new
    BY <1>4, <1>5, <1>7
  <2>5. Certified(m_adj', new - 1)
    BY <1>2, <1>3, <2>3, CertifiedStays
  <2>6. new > 0
    BY <1>7
  <2>7. QED
    BY <1>2, <2>1, <2>2, <2>4, <2>5, <2>6 DEF OneAbove
<1>8. QED
  BY <1>6, <1>7

\* A search that has found no path shows that the maximum cannot be lowered.
LEMMA NaiveFails ==
  ASSUME IInv, Shortest(UNION {PathsToLow(s) : s \in Top(b)}) = {}
  PROVE  Certified(m_adj, b.m_max_degree)
<1>1. PICK s \in Top(b) : TRUE
  <2>1. PICK L, max : L = b.m_degree_buckets /\ max = b.m_max_degree
    OBVIOUS
  <2>2. IsHighest(L, max) /\ L \in [Degrees -> Seq(Node)]
    BY <2>1 DEF IInv, InBuckets, HighestIsMaximum, Structured, Arrays
  <2>3. L[max] \in Seq(Node) /\ L[max] # <<>>
    BY <2>2 DEF IsHighest
  <2>4. 1 \in 1..Len(L[max])
    BY <2>3
  <2>5. QED
    BY <2>1, <2>4 DEF Top
<1>2. s \in Node /\ b.m_degree[s] = b.m_max_degree
  BY TopFacts DEF IInv
<1>3. PathsToLow(s) = {}
  <2>1. PICK paths : paths = UNION {PathsToLow(t) : t \in Top(b)}
    OBVIOUS
  <2>2. ASSUME NEW p \in paths PROVE Len(p) \in Nat
    <3>1. PICK t \in Top(b) : p \in PathsToLow(t)
      BY <2>1, <2>2
    <3>2. IsTurnable(p)
      BY <3>1, TopFacts, SearchFacts DEF IInv
    <3>3. QED
      BY <3>2 DEF IsTurnable
  <2>3. paths = {}
    BY <2>1, <2>2, ShortestExists
  <2>4. QED
    BY <2>1, <2>3
<1>4. QED
  BY <1>2, <1>3, FailedSearch, ClosedCertifies DEF IInv

\* One search after an insertion is enough.
LEMMA NaiveSucceeds ==
  ASSUME IInv, IInv', [Next]_vars, NEW s \in Top(b), NEW p \in PathsToLow(s), Turn(p), edges' = edges,
         Certified(m_adj, b.m_max_degree) \/ OneAbove
  PROVE  Certified(m_adj', b'.m_max_degree)
<1>1. PICK max \in Nat, new \in Nat : max = b.m_max_degree /\ new = b'.m_max_degree
  BY BucketTypes, BucketTypesNext DEF IInv
<1>2. s \in Node /\ b.m_degree[s] = max
  BY <1>1, TopFacts DEF IInv
<1>3. IsTurnable(p) /\ IsLevelling(p) /\ p[1] = s
  <2>1. IsTurnable(p) /\ IsLevelling(p)
    BY <1>1, <1>2, SearchFacts DEF IInv
  <2>2. p[1] = s
    <3>1. PICK m \in Arrangements(Node \ (Low \cup {s})), v \in Low : p = Joined(s, m, v)
      BY DEF PathsToLow
    <3>2. m \in Seq(Node \ (Low \cup {s}))
      BY <3>1, ArrangementSeq
    <3>3. m \in Seq(Node)
      BY <3>2
    <3>4. v \in Node
      BY DEF Low
    <3>5. QED
      BY <1>2, <3>1, <3>3, <3>4, JoinedFacts DEF IsJoined
  <2>3. QED
    BY <2>1, <2>2
<1>4. PICK v \in Node : v = p[Len(p)] /\ v # s
  BY <1>3, TurnEnds
<1>5. \A x \in Node : b.m_degree[x] \in Nat /\ b.m_degree[x] <= max
  BY <1>1, BucketTypes DEF IInv
<1>6. b.m_degree[v] < max - 1
  BY <1>2, <1>3, <1>4 DEF IsLevelling
<1>7. /\ b'.m_degree[s] = max - 1 /\ b'.m_degree[v] = b.m_degree[v] + 1
      /\ \A x \in Node \ {s, v} : b'.m_degree[x] = b.m_degree[x]
  <2>1. m_adj' = Reversed(p)
    BY DEF Turn
  <2>2. \A x \in Node : b.m_degree[x] = Length(m_adj[x]) /\ b'.m_degree[x] = Length(m_adj'[x])
    BY DEF IInv, InBuckets
  <2>3. EntriesWithin
    BY DEF IInv
  <2>4. QED
    BY <1>2, <1>3, <1>4, <2>1, <2>2, <2>3, ReversedLengths
<1>8. KeepsEntries(m_adj, m_adj')
  <2>1. \A e \in Edge : edges[e] \in Nat
    BY MaxCopiesAssumption DEF IInv, EntriesWithin
  <2>2. QED
    BY <2>1, KeptEntries
<1>9. PICK u \in Node : b'.m_degree[u] = new
  BY <1>1, BucketTypesNext DEF IInv
<1>10. new <= max
  BY <1>5, <1>6, <1>7, <1>9
<1>11. CASE Certified(m_adj, max)
  <2>1. Certified(m_adj', new)
    BY <1>8, <1>10, <1>11, CertifiedStays
  <2>2. QED
    BY <1>1, <2>1
<1>12. CASE OneAbove
  <2>1. PICK t \in Node : /\ b.m_degree[t] = max /\ max > 0
                          /\ \A x \in Node \ {t} : b.m_degree[x] < max
                          /\ Certified(m_adj, max - 1)
    BY <1>1, <1>12 DEF OneAbove
  <2>2. t = s
    BY <1>2, <2>1
  <2>3. max - 1 \in Nat /\ new <= max - 1
    BY <1>5, <1>6, <1>7, <1>9, <2>1, <2>2
  <2>4. Certified(m_adj', new)
    BY <1>8, <2>1, <2>3, CertifiedStays
  <2>5. QED
    BY <1>1, <2>4
<1>13. QED
  BY <1>1, <1>11, <1>12

LEMMA NaiveSearch ==
  ASSUME IInv, IInv', [Next]_vars, NaiveInv, bfs_all, Is("NAIVEOPT")
  PROVE  NaiveInv'
<1> PICK paths : paths = Shortest(UNION {PathsToLow(s) : s \in Top(b)})
  OBVIOUS
<1>1. /\ pc \in {"bfs_all", "while_bfs_all"}
      /\ \/ paths = {} /\ Return /\ UNCHANGED <<m_adj, b>>
         \/ /\ \E p \in paths : Turn(p)
            /\ IF pc = "bfs_all" THEN Return ELSE UNCHANGED <<pc, i, path>>
      /\ UNCHANGED <<config, edges>>
  BY DEF bfs_all
<1>2. CASE paths = {} /\ Return /\ UNCHANGED <<m_adj, b>>
  BY <1>2, NaiveFails DEF Return, NaiveInv
<1>3. CASE pc = "while_bfs_all" /\ UNCHANGED <<pc, i, path>>
  BY <1>3 DEF NaiveInv
<1>4. CASE pc = "bfs_all" /\ Return /\ \E p \in paths : Turn(p)
  <2>1. PICK p \in paths : Turn(p)
    BY <1>4
  <2>2. PICK s \in Top(b) : p \in PathsToLow(s)
    BY <2>1 DEF Shortest
  <2>3. Certified(m_adj, b.m_max_degree) \/ OneAbove
    BY <1>4 DEF NaiveInv
  <2>4. Certified(m_adj', b'.m_max_degree)
    BY <1>1, <2>1, <2>2, <2>3, NaiveSucceeds
  <2>5. pc' = "idle"
    BY <1>4 DEF Return
  <2>6. QED
    BY <2>4, <2>5 DEF NaiveInv
<1>5. QED
  BY <1>1, <1>2, <1>3, <1>4

LEMMA NaiveNext == IInv /\ IInv' /\ NaiveInv /\ [Next]_vars => NaiveInv'
<1> SUFFICES ASSUME IInv, IInv', NaiveInv, [Next]_vars, Is("NAIVEOPT")' PROVE NaiveInv'
  BY DEF NaiveInv
<1>1. config' = config
  BY DEF Next, vars, handleInsertion, handleDeletion, insertion_undefined, handlerStep,
         bfs_all, bfs, kflips, kflips_undefined, rwalk, descend, descended
<1>2. Is("NAIVEOPT") /\ pc \in {"idle", "bfs_all", "while_bfs_all", "undefined"}
  BY <1>1 DEF Is, NaiveInv
<1>3. ASSUME NEW source \in Node, NEW target \in Node, handleInsertion(source, target)
      PROVE  NaiveInv'
  <2>1. pc = "idle" /\ Certified(m_adj, b.m_max_degree)
    BY <1>2, <1>3 DEF handleInsertion, NaiveInv
  <2>2. pc' = "bfs_all"
    BY <1>2, <1>3 DEF handleInsertion, insertion_naive_opt, insertion_BFSCS, insertion_impro_opt,
                      insertion_KFlipsCS, insertion_RWalkCS, insertion_MaxDecending, Enter, Is
  <2>3. Certified(m_adj', b'.m_max_degree) \/ OneAbove'
    BY <1>3, <2>1, NaiveInsertion
  <2>4. QED
    BY <2>2, <2>3 DEF NaiveInv
<1>4. ASSUME NEW source \in Node, NEW target \in Node, handleDeletion(source, target)
      PROVE  NaiveInv'
  <2>1. pc' = "while_bfs_all"
    BY <1>2, <1>4 DEF handleDeletion, deletion, Enter, Is
  <2>2. QED
    BY <2>1 DEF NaiveInv
<1>5. CASE insertion_undefined
  BY <1>5 DEF insertion_undefined, undefined, NaiveInv
<1>6. CASE handlerStep
  <2>1. bfs_all
    BY <1>2, <1>6 DEF handlerStep, bfs, kflips, kflips_undefined, rwalk, descend, descended
  <2>2. QED
    BY <1>2, <2>1, NaiveSearch
<1>7. CASE UNCHANGED vars
  BY <1>2, <1>7 DEF vars, NaiveInv, OneAbove
<1>8. QED
  BY <1>3, <1>4, <1>5, <1>6, <1>7 DEF Next

LEMMA NaiveInit == Init => NaiveInv
<1> SUFFICES ASSUME Init PROVE Certified(m_adj, b.m_max_degree)
  BY DEF Init, NaiveInv
<1>1. b.m_max_degree = 0
  BY DEF Init, Filled
<1>2. QED
  BY <1>1 DEF Certified

\* naive_opt is exact, with parallel edges and whatever path each search finds: between
\* two updates some set of nodes has too many entries within it for a smaller maximum.
THEOREM NaiveAlwaysOptimal == Spec => []NaiveOptOptimal
<1>1. NaiveInv => NaiveOptOptimal
  <2> SUFFICES ASSUME Certified(m_adj, b.m_max_degree), b.m_max_degree > 0
               PROVE  \E S \in SUBSET Node :
                        LET within == {ek \in Edge \X (1..MaxCopies) :
                                         ek[1] \subseteq S /\ ek[2] <= Entries(m_adj, ek[1])}
                        IN  Cardinality(within) > (b.m_max_degree - 1) * Cardinality(S)
    BY DEF NaiveInv, NaiveOptOptimal
  <2>1. b.m_max_degree # 0
    OBVIOUS
  <2>2. QED
    BY <2>1 DEF Certified, Within
<1>2. Spec => []NaiveInv
  BY NaiveInit, NaiveNext, AlwaysInvariant, PTL DEF Spec
<1>3. QED
  BY <1>1, <1>2, PTL
=============================================================================
