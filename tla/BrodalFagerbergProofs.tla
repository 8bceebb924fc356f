------------------------ MODULE BrodalFagerbergProofs ------------------------
(****************************************************************************)
(* Theorems about module BrodalFagerberg, for every finite set of nodes,    *)
(* any number of parallel edges, any growth factor above 1 and sequences of *)
(* any length.                                                              *)
(****************************************************************************)
EXTENDS BrodalFagerberg, OrientationsProofs

(****************************************************************************)
(* How often a node is in a list.                                           *)
(****************************************************************************)
Positions(list, v) == {i \in 1..Len(list) : list[i] = v}

LEMMA CopiesType ==
  ASSUME NEW list \in Seq(Node), NEW v
  PROVE  IsFiniteSet(Positions(list, v)) /\ Copies(list, v) = Cardinality(Positions(list, v))
         /\ Copies(list, v) \in Nat
<1>1. Len(list) \in Nat
  OBVIOUS
<1>2. IsFiniteSet(1..Len(list))
  BY <1>1, FS_Interval
<1>3. IsFiniteSet(Positions(list, v))
  BY <1>2, FS_Subset DEF Positions
<1>4. QED
  BY <1>3, FS_CardinalityType DEF Copies, Positions

LEMMA CopiesZero ==
  ASSUME NEW list \in Seq(Node), NEW v
  PROVE  Copies(list, v) = 0 <=> \A i \in 1..Len(list) : list[i] # v
<1>1. Copies(list, v) = 0 <=> Positions(list, v) = {}
  BY CopiesType, FS_EmptySet
<1>2. QED
  BY <1>1 DEF Positions

LEMMA CopiesOfEmpty ==
  ASSUME NEW v
  PROVE  Copies(<<>>, v) = 0
<1> <<>> \in Seq(Node)
  OBVIOUS
<1>1. PICK list \in Seq(Node) : list = <<>>
  BY Zenon
<1>2. \A i \in 1..Len(list) : list[i] # v
  BY <1>1
<1>3. QED
  BY <1>1, <1>2, CopiesZero

\* Entries behind the others.
LEMMA CopiesBehind ==
  ASSUME NEW list \in Seq(Node), NEW w \in Node, NEW n \in Nat, NEW v
  PROVE  LET longer == list \o [i \in 1..n |-> w]
         IN  /\ longer \in Seq(Node) /\ Len(longer) = Len(list) + n
             /\ Copies(longer, v) = Copies(list, v) + (IF v = w THEN n ELSE 0)
<1> DEFINE more == [i \in 1..n |-> w]
           longer == list \o more
           last == Len(list)
<1>1. more \in Seq(Node) /\ Len(more) = n /\ last \in Nat
  OBVIOUS
<1>2. longer \in Seq(Node) /\ Len(longer) = last + n
  BY <1>1
<1>3. \A i \in 1..last : longer[i] = list[i]
  BY <1>1
<1>4. \A i \in last + 1..last + n : longer[i] = w
  <2> SUFFICES ASSUME NEW i \in last + 1..last + n PROVE longer[i] = w
    OBVIOUS
  <2>1. i - last \in 1..n /\ i \in 1..last + n /\ i > last
    BY <1>1
  <2>2. longer[i] = more[i - last]
    BY <1>1, <2>1
  <2>3. QED
    BY <2>1, <2>2
<1> DEFINE behind == IF v = w THEN last + 1..last + n ELSE {}
<1>5. Positions(longer, v) = Positions(list, v) \cup behind
  <2>1. 1..Len(longer) = (1..last) \cup (last + 1..last + n)
    BY <1>1, <1>2
  <2> HIDE DEF longer
  <2>2. QED
    BY <1>3, <1>4, <2>1 DEF Positions
<1>6. IsFiniteSet(behind) /\ Cardinality(behind) = (IF v = w THEN n ELSE 0)
  BY <1>1, FS_Interval, FS_EmptySet
<1>7. Positions(list, v) \cap behind = {}
  BY <1>1 DEF Positions
<1> HIDE DEF longer, behind
<1>8. Cardinality(Positions(longer, v)) = Cardinality(Positions(list, v)) + Cardinality(behind)
  <2>1. Cardinality(Positions(list, v)) \in Nat /\ Cardinality(behind) \in Nat
        /\ IsFiniteSet(Positions(list, v)) /\ IsFiniteSet(behind)
    BY <1>6, CopiesType, FS_CardinalityType
  <2>2. Cardinality(Positions(list, v) \cap behind) = 0
    BY <1>7, FS_EmptySet
  <2>3. Cardinality(Positions(longer, v)) =
          Cardinality(Positions(list, v)) + Cardinality(behind)
            - Cardinality(Positions(list, v) \cap behind)
    BY <1>5, <2>1, FS_Union
  <2>4. QED
    BY <2>1, <2>2, <2>3
<1>9. Copies(longer, v) = Copies(list, v) + (IF v = w THEN n ELSE 0)
  BY <1>2, <1>6, <1>8, CopiesType
<1>10. QED
  BY <1>2, <1>9 DEF longer

LEMMA CopiesAppended ==
  ASSUME NEW list \in Seq(Node), NEW w \in Node, NEW v
  PROVE  /\ Append(list, w) \in Seq(Node) /\ Len(Append(list, w)) = Len(list) + 1
         /\ Copies(Append(list, w), v) = Copies(list, v) + (IF v = w THEN 1 ELSE 0)
<1>1. PICK n \in Nat : n = 1
  OBVIOUS
<1>2. Append(list, w) = list \o [i \in 1..n |-> w]
  BY <1>1
<1>3. Append(list, w) \in Seq(Node) /\ Len(Append(list, w)) = Len(list) + 1
  OBVIOUS
<1>4. Copies(Append(list, w), v) = Copies(list, v) + (IF v = w THEN n ELSE 0)
  BY <1>2, CopiesBehind
<1>5. QED
  BY <1>1, <1>3, <1>4

\* What removing one entry leaves.
LEMMA CopiesErased ==
  ASSUME NEW list \in Seq(Node), NEW v
  PROVE  /\ Erased(list, v) \in Seq(Node) /\ Len(Erased(list, v)) <= Len(list)
         /\ \A x : Copies(Erased(list, v), x) =
                     IF x = v /\ Copies(list, v) > 0 THEN Copies(list, v) - 1
                                                     ELSE Copies(list, x)
<1>1. CASE \A i \in 1..Len(list) : list[i] # v
  <2>1. Erased(list, v) = list /\ Copies(list, v) = 0 /\ Len(list) \in Nat
    BY <1>1, CopiesZero DEF Erased
  <2>2. QED
    BY <2>1
<1>2. CASE ~(\A i \in 1..Len(list) : list[i] # v)
  <2> DEFINE n == Len(list)
             occurs == {j \in 1..n : list[j] = v}
  <2>1. n \in Nat
    OBVIOUS
  <2>2. occurs \in SUBSET Nat /\ occurs # {}
    BY <1>2, <2>1
  <2>3. PICK least \in occurs : \A j \in occurs : least <= j
    <3> HIDE DEF occurs
    <3>1. QED
      BY <2>2, LeastNatural
  <2>4. \E j \in 1..n : list[j] = v /\ \A l \in 1..j - 1 : list[l] # v
    <3>1. \A l \in 1..least - 1 : list[l] # v
      BY <2>1, <2>3
    <3>2. QED
      BY <2>3, <3>1
  <2>5. PICK first : first = CHOOSE j \in 1..n : list[j] = v /\ \A l \in 1..j - 1 : list[l] # v
    OBVIOUS
  <2>6. first \in 1..n /\ list[first] = v
    BY <2>4, <2>5
  <2>7. PICK moved : moved = [list EXCEPT ![first] = list[n]]
    OBVIOUS
  <2>8. Erased(list, v) = SubSeq(moved, 1, n - 1)
    BY <1>2, <2>5, <2>7 DEF Erased
  <2>9. moved \in Seq(Node) /\ Len(moved) = n
    BY <2>1, <2>6, <2>7
  <2>10. PICK erased : erased = Erased(list, v)
    OBVIOUS
  <2>11. /\ erased \in Seq(Node) /\ Len(erased) = n - 1
         /\ \A j \in 1..n - 1 : erased[j] = moved[j]
    BY <2>1, <2>6, <2>8, <2>9, <2>10
  <2>12. \A j \in 1..n - 1 : erased[j] = IF j = first THEN list[n] ELSE list[j]
    BY <2>1, <2>6, <2>7, <2>11
  <2>13. ASSUME NEW x
         PROVE  Copies(erased, x) = IF x = v /\ Copies(list, v) > 0 THEN Copies(list, v) - 1
                                                                    ELSE Copies(list, x)
    <3> DEFINE P == Positions(list, x)
               Q == Positions(erased, x)
    <3>1. Q = {j \in 1..n - 1 : (IF j = first THEN list[n] ELSE list[j]) = x}
      BY <2>11, <2>12 DEF Positions
    <3>2. P = {j \in 1..n : list[j] = x}
      BY DEF Positions
    <3>3. /\ IsFiniteSet(P) /\ Copies(list, x) = Cardinality(P) /\ Cardinality(P) \in Nat
          /\ Copies(erased, x) = Cardinality(Q)
      BY <2>11, CopiesType, FS_CardinalityType
    <3>4. Copies(list, v) > 0 /\ Copies(list, v) \in Nat
      BY <2>6, CopiesType, CopiesZero
    <3>5. CASE x = v
      <4>1. PICK gone : gone = IF list[n] = v THEN n ELSE first
        OBVIOUS
      <4>2. gone \in P
        BY <2>1, <2>6, <3>2, <3>5, <4>1
      <4>3. Q = P \ {gone}
        BY <2>1, <2>6, <3>1, <3>2, <3>5, <4>1
      <4> HIDE DEF P, Q
      <4>4. Cardinality(Q) = Cardinality(P) - 1
        BY <3>3, <4>2, <4>3, FS_RemoveElement
      <4>5. QED
        BY <3>3, <3>4, <3>5, <4>4
    <3>6. CASE x # v /\ list[n] # x
      <4>1. Q = P
        BY <2>1, <2>6, <3>1, <3>2, <3>6
      <4>2. QED
        BY <3>3, <3>6, <4>1
    <3>7. CASE x # v /\ list[n] = x
      <4>1. n \in P /\ first \notin P \ {n} /\ first # n
        BY <2>1, <2>6, <3>2, <3>7
      <4>2. Q = (P \ {n}) \cup {first}
        BY <2>1, <2>6, <3>1, <3>2, <3>7, <4>1
      <4> HIDE DEF P, Q
      <4>3. IsFiniteSet(P \ {n}) /\ Cardinality(P \ {n}) = Cardinality(P) - 1
        BY <3>3, <4>1, FS_RemoveElement
      <4>4. Cardinality(Q) = Cardinality(P \ {n}) + 1
        BY <4>1, <4>2, <4>3, FS_AddElement
      <4>5. QED
        BY <3>3, <3>7, <4>3, <4>4
    <3>8. QED
      BY <3>5, <3>6, <3>7
  <2>14. QED
    BY <2>1, <2>10, <2>11, <2>13
<1>3. QED
  BY <1>1, <1>2

\* The arcs turned so far, counted one arc further.
LEMMA CopiesOfPrefix ==
  ASSUME NEW list \in Seq(Node), NEW i \in 1..Len(list), NEW v
  PROVE  /\ SubSeq(list, 1, i - 1) \in Seq(Node) /\ SubSeq(list, 1, i) \in Seq(Node)
         /\ Copies(SubSeq(list, 1, i), v) =
              Copies(SubSeq(list, 1, i - 1), v) + (IF list[i] = v THEN 1 ELSE 0)
<1>1. PICK shorter : shorter = SubSeq(list, 1, i - 1)
  OBVIOUS
<1>2. shorter \in Seq(Node) /\ list[i] \in Node
  BY <1>1
<1>3. SubSeq(list, 1, i) = Append(shorter, list[i])
  BY <1>1
<1>4. SubSeq(list, 1, i) \in Seq(Node)
  BY <1>2, <1>3
<1>5. Copies(SubSeq(list, 1, i), v) = Copies(shorter, v) + (IF v = list[i] THEN 1 ELSE 0)
  <2>1. PICK node \in Node : node = list[i]
    BY <1>2
  <2>2. Copies(Append(shorter, node), v) = Copies(shorter, v) + (IF v = node THEN 1 ELSE 0)
    BY <1>2, CopiesAppended
  <2>3. QED
    BY <1>3, <2>1, <2>2
<1>6. QED
  BY <1>1, <1>2, <1>4, <1>5

LEMMA CopiesGrow ==
  ASSUME NEW list \in Seq(Node), NEW v, NEW i \in 0..Len(list), NEW k \in i..Len(list)
  PROVE  Copies(SubSeq(list, 1, i), v) <= Copies(SubSeq(list, 1, k), v)
<1>1. PICK P : P = Positions(SubSeq(list, 1, i), v)
  OBVIOUS
<1>2. PICK Q : Q = Positions(SubSeq(list, 1, k), v)
  OBVIOUS
<1>3. SubSeq(list, 1, i) \in Seq(Node) /\ SubSeq(list, 1, k) \in Seq(Node)
  OBVIOUS
<1>4. P \in SUBSET Q
  BY <1>1, <1>2 DEF Positions
<1>5. /\ IsFiniteSet(Q) /\ Copies(SubSeq(list, 1, i), v) = Cardinality(P)
      /\ Copies(SubSeq(list, 1, k), v) = Cardinality(Q)
  BY <1>1, <1>2, <1>3, CopiesType
<1>6. QED
  BY <1>4, <1>5, FS_Subset

(****************************************************************************)
(* The arcs of w turned by the loop.  Given(w, i, x) of the first i lead to *)
(* x, which has an arc to w more for each of them.                          *)
(****************************************************************************)
Given(w, i, x) == Copies(SubSeq(m_adj[w], 1, i), x)

\* No node has an arc to itself.
Loopless == m_adj \in [Node -> Seq(Node)] /\ \A v \in Node : Copies(m_adj[v], v) = 0

LEMMA GivenFacts ==
  ASSUME Loopless, NEW w \in Node, NEW x \in Node
  PROVE  /\ Len(m_adj[w]) \in Nat
         /\ Given(w, 0, x) = 0 /\ Given(w, Len(m_adj[w]), x) = Copies(m_adj[w], x)
         /\ \A i \in 0..Len(m_adj[w]) : Given(w, i, x) \in Nat
         /\ \A i \in 1..Len(m_adj[w]) : Given(w, i, x) =
              Given(w, i - 1, x) + (IF m_adj[w][i] = x THEN 1 ELSE 0)
         /\ \A i, k \in 0..Len(m_adj[w]) : i <= k => Given(w, i, x) <= Given(w, k, x)
<1>1. PICK list \in Seq(Node) : list = m_adj[w]
  BY DEF Loopless
<1>2. Len(list) \in Nat
  BY <1>1
<1>3. Copies(SubSeq(list, 1, 0), x) = 0
  <2>1. SubSeq(list, 1, 0) = <<>>
    BY <1>1
  <2>2. QED
    BY <2>1, CopiesOfEmpty
<1>4. SubSeq(list, 1, Len(list)) = list
  BY <1>1
<1>5. \A i \in 0..Len(list) : Copies(SubSeq(list, 1, i), x) \in Nat
  <2> SUFFICES ASSUME NEW i \in 0..Len(list) PROVE Copies(SubSeq(list, 1, i), x) \in Nat
    OBVIOUS
  <2>1. SubSeq(list, 1, i) \in Seq(Node)
    BY <1>1, <1>2
  <2>2. QED
    BY <2>1, CopiesType
<1>6. \A i \in 1..Len(list) : Copies(SubSeq(list, 1, i), x) =
        Copies(SubSeq(list, 1, i - 1), x) + (IF list[i] = x THEN 1 ELSE 0)
  BY CopiesOfPrefix
<1>7. ASSUME NEW i \in 0..Len(list), NEW k \in 0..Len(list), i <= k
      PROVE  Copies(SubSeq(list, 1, i), x) <= Copies(SubSeq(list, 1, k), x)
  <2>1. k \in i..Len(list)
    BY <1>2, <1>7
  <2>2. QED
    BY <2>1, CopiesGrow
<1>8. \A i : Given(w, i, x) = Copies(SubSeq(list, 1, i), x)
  BY <1>1 DEF Given
<1>9. QED
  BY <1>1, <1>2, <1>3, <1>4, <1>5, <1>6, <1>7, <1>8

LEMMA ReceivedFacts ==
  ASSUME Loopless, NEW w \in Node, NEW count \in 0..Len(m_adj[w]), NEW x \in Node
  PROVE  /\ Received(w, count) \in [Node -> Seq(Node)]
         /\ Len(Received(w, count)[x]) = Len(m_adj[x]) + Given(w, count, x)
         /\ \A y : Copies(Received(w, count)[x], y) =
                     Copies(m_adj[x], y) + (IF y = w THEN Given(w, count, x) ELSE 0)
<1>1. \A z \in Node : Given(w, count, z) \in Nat /\ m_adj[z] \in Seq(Node)
  BY GivenFacts DEF Loopless
<1>2. ASSUME NEW z \in Node
      PROVE  Received(w, count)[z] = m_adj[z] \o [i \in 1..Given(w, count, z) |-> w]
  BY DEF Received, Given
<1>3. ASSUME NEW z \in Node
      PROVE  /\ Received(w, count)[z] \in Seq(Node)
             /\ Len(Received(w, count)[z]) = Len(m_adj[z]) + Given(w, count, z)
             /\ \A y : Copies(Received(w, count)[z], y) =
                         Copies(m_adj[z], y) + (IF y = w THEN Given(w, count, z) ELSE 0)
  <2>1. PICK list \in Seq(Node) : list = m_adj[z]
    BY <1>1
  <2>2. PICK n \in Nat : n = Given(w, count, z)
    BY <1>1
  <2>3. /\ list \o [i \in 1..n |-> w] \in Seq(Node)
        /\ Len(list \o [i \in 1..n |-> w]) = Len(list) + n
        /\ \A y : Copies(list \o [i \in 1..n |-> w], y) =
                    Copies(list, y) + (IF y = w THEN n ELSE 0)
    BY CopiesBehind
  <2>4. QED
    BY <1>2, <2>1, <2>2, <2>3
<1>4. Received(w, count) \in [Node -> Seq(Node)]
  <2>1. Received(w, count) = [z \in Node |-> Received(w, count)[z]]
    BY DEF Received
  <2>2. QED
    BY <1>3, <2>1
<1>5. QED
  BY <1>3, <1>4

(****************************************************************************)
(* The nodes that the loop puts on the stack.                               *)
(****************************************************************************)
\* The arcs at which a node gets one above the bound.
Crossings(w, count) ==
  {i \in 1..count : Len(Received(w, i)[m_adj[w][i]]) = m_bound_arboricity + 1}

LEMMA CrossingFacts ==
  ASSUME Loopless, m_bound_arboricity \in Nat, NEW w \in Node
  PROVE  LET n == Len(m_adj[w])
         IN  /\ \A i \in Crossings(w, n) :
                  /\ m_adj[w][i] \in Node /\ m_adj[w][i] # w
                  /\ Len(m_adj[m_adj[w][i]]) <= m_bound_arboricity
                  /\ Len(Received(w, n)[m_adj[w][i]]) > m_bound_arboricity
             /\ \A i, k \in Crossings(w, n) : m_adj[w][i] = m_adj[w][k] => i = k
             /\ \A x \in Node : /\ Len(m_adj[x]) <= m_bound_arboricity
                                /\ Len(Received(w, n)[x]) > m_bound_arboricity
                                => \E i \in Crossings(w, n) : m_adj[w][i] = x
<1> DEFINE n == Len(m_adj[w])
           b == m_bound_arboricity
           length(i, x) == Len(m_adj[x]) + Given(w, i, x)
<1>1. n \in Nat /\ b \in Nat /\ \A x \in Node : Len(m_adj[x]) \in Nat
  BY DEF Loopless
<1>2. \A i \in 0..n : \A x \in Node : Len(Received(w, i)[x]) = length(i, x)
  BY ReceivedFacts
<1>3. ASSUME NEW x \in Node
      PROVE  /\ Given(w, 0, x) = 0 /\ length(0, x) = Len(m_adj[x])
             /\ \A i \in 0..n : length(i, x) \in Nat /\ Given(w, i, x) \in Nat
             /\ \A i \in 1..n : length(i, x) = length(i - 1, x) + (IF m_adj[w][i] = x THEN 1 ELSE 0)
             /\ \A i, k \in 0..n : i <= k => length(i, x) <= length(k, x)
  <2>1. /\ Given(w, 0, x) = 0
        /\ \A i \in 0..n : Given(w, i, x) \in Nat
        /\ \A i \in 1..n : Given(w, i, x) =
             Given(w, i - 1, x) + (IF m_adj[w][i] = x THEN 1 ELSE 0)
        /\ \A i, k \in 0..n : i <= k => Given(w, i, x) <= Given(w, k, x)
    BY GivenFacts
  <2>2. PICK m \in Nat : m = Len(m_adj[x])
    BY <1>1
  <2> HIDE DEF n
  <2>3. \A i \in 1..n : i - 1 \in 0..n
    BY <1>1
  <2>4. \A i \in 0..n : length(i, x) \in Nat /\ Given(w, i, x) \in Nat
    BY <2>1, <2>2
  <2>5. ASSUME NEW i \in 1..n
        PROVE  length(i, x) = length(i - 1, x) + (IF m_adj[w][i] = x THEN 1 ELSE 0)
    <3>1. Given(w, i - 1, x) \in Nat
      BY <2>1, <2>3
    <3>2. QED
      BY <2>1, <2>2, <3>1
  <2>6. ASSUME NEW i \in 0..n, NEW k \in 0..n, i <= k
        PROVE  length(i, x) <= length(k, x)
    BY <2>1, <2>2, <2>6
  <2>7. QED
    BY <2>1, <2>2, <2>4, <2>5, <2>6
<1>4. \A i \in 1..n : m_adj[w][i] \in Node /\ m_adj[w][i] # w
  <2> SUFFICES ASSUME NEW i \in 1..n PROVE m_adj[w][i] \in Node /\ m_adj[w][i] # w
    OBVIOUS
  <2>1. m_adj[w] \in Seq(Node) /\ Copies(m_adj[w], w) = 0
    BY DEF Loopless
  <2>2. QED
    BY <2>1, CopiesZero
<1>5. Crossings(w, n) = {i \in 1..n : length(i, m_adj[w][i]) = b + 1}
  <2>1. \A i \in 1..n : Len(Received(w, i)[m_adj[w][i]]) = length(i, m_adj[w][i])
    BY <1>1, <1>2, <1>4
  <2>2. QED
    BY <2>1 DEF Crossings
<1> HIDE DEF length, n, b
<1>6. ASSUME NEW i \in Crossings(w, n)
      PROVE  /\ m_adj[w][i] \in Node /\ m_adj[w][i] # w
             /\ Len(m_adj[m_adj[w][i]]) <= b
             /\ Len(Received(w, n)[m_adj[w][i]]) > b
  <2>1. i \in 1..n /\ length(i, m_adj[w][i]) = b + 1 /\ i - 1 \in 0..n /\ i \in 0..n /\ n \in 0..n
        /\ 0 \in 0..n /\ i <= n /\ 0 <= i - 1
    BY <1>1, <1>5, <1>6
  <2>2. PICK x \in Node : x = m_adj[w][i] /\ x # w
    BY <1>4, <2>1
  <2>3. length(i, x) = length(i - 1, x) + 1 /\ length(0, x) = Len(m_adj[x])
    BY <1>3, <2>1, <2>2
  <2>4. length(0, x) <= length(i - 1, x) /\ length(i, x) <= length(n, x)
    BY <1>3, <2>1, <2>2
  <2>5. length(i - 1, x) \in Nat /\ length(n, x) \in Nat /\ length(i, x) = b + 1
    BY <1>3, <2>1, <2>2
  <2>6. Len(m_adj[x]) <= b /\ length(n, x) > b
    BY <1>1, <2>3, <2>4, <2>5
  <2>7. QED
    BY <1>2, <2>1, <2>2, <2>6
<1>7. ASSUME NEW i \in Crossings(w, n), NEW k \in Crossings(w, n), m_adj[w][i] = m_adj[w][k]
      PROVE  ~(i < k)
  <2> SUFFICES ASSUME i < k PROVE FALSE
    OBVIOUS
  <2>1. /\ i \in 1..n /\ k \in 1..n /\ i \in 0..n /\ k - 1 \in 0..n /\ i <= k - 1
        /\ length(i, m_adj[w][i]) = b + 1 /\ length(k, m_adj[w][k]) = b + 1
    BY <1>1, <1>5
  <2>2. PICK x \in Node : x = m_adj[w][i]
    BY <1>4, <2>1
  <2>3. length(k, x) = length(k - 1, x) + 1 /\ length(i, x) <= length(k - 1, x)
    BY <1>3, <1>7, <2>1, <2>2
  <2>4. length(k, x) = b + 1 /\ length(i, x) = b + 1 /\ length(k - 1, x) \in Nat
    BY <1>3, <1>7, <2>1, <2>2
  <2>5. QED
    BY <1>1, <2>3, <2>4
<1>8. ASSUME NEW x \in Node, Len(m_adj[x]) <= b, Len(Received(w, n)[x]) > b
      PROVE  \E i \in Crossings(w, n) : m_adj[w][i] = x
  <2>1. PICK above : above = {i \in 0..n : length(i, x) > b}
    OBVIOUS
  <2>2. n \in above /\ above \in SUBSET Nat
    BY <1>1, <1>2, <1>8, <2>1
  <2>3. PICK i \in above : \A k \in above : i <= k
    BY <2>2, LeastNatural
  <2>4. i \in 0..n /\ length(i, x) > b /\ i # 0
    <3>1. i \in 0..n /\ length(i, x) > b
      BY <2>1, <2>3
    <3>2. length(0, x) = Len(m_adj[x])
      BY <1>3
    <3>3. ~(length(0, x) > b)
      BY <1>1, <1>8, <3>2
    <3>4. QED
      BY <3>1, <3>3
  <2>5. i \in 1..n /\ i - 1 \in 0..n /\ ~(i <= i - 1)
    BY <1>1, <2>4
  <2>6. i - 1 \notin above
    BY <2>3, <2>5
  <2>7. ~(length(i - 1, x) > b)
    BY <2>1, <2>5, <2>6
  <2>8. length(i, x) = length(i - 1, x) + (IF m_adj[w][i] = x THEN 1 ELSE 0)
        /\ length(i - 1, x) \in Nat
    BY <1>3, <2>5
  <2>9. m_adj[w][i] = x /\ length(i, x) = b + 1
    BY <1>1, <2>4, <2>7, <2>8
  <2>10. QED
    BY <1>5, <2>5, <2>9
<1>9. ASSUME NEW i \in Crossings(w, n), NEW k \in Crossings(w, n), m_adj[w][i] = m_adj[w][k]
      PROVE  i = k
  <2>1. i \in 1..n /\ k \in 1..n
    BY <1>5
  <2>2. ~(i < k) /\ ~(k < i)
    BY <1>7, <1>9
  <2>3. QED
    BY <1>1, <2>1, <2>2
<1>10. QED
  BY <1>6, <1>8, <1>9 DEF n, b

(****************************************************************************)
(* The stack.                                                               *)
(****************************************************************************)
Holds(stack, x) == \E i \in 1..Len(stack) : stack[i] = x

Distinct(stack) == \A i, k \in 1..Len(stack) : stack[i] = stack[k] => i = k

LEMMA ExceedingFacts ==
  ASSUME Loopless, m_bound_arboricity \in Nat, NEW w \in Node,
         NEW n, n = Len(m_adj[w]), NEW pushed, pushed = Exceeding(w, n)
  PROVE  /\ pushed \in Seq(Node) /\ Distinct(pushed)
         /\ \A x : Holds(pushed, x) => /\ x # w /\ Len(m_adj[x]) <= m_bound_arboricity
                                       /\ Len(Received(w, n)[x]) > m_bound_arboricity
         /\ \A x \in Node : /\ Len(m_adj[x]) <= m_bound_arboricity
                            /\ Len(Received(w, n)[x]) > m_bound_arboricity
                            => Holds(pushed, x)
<1> DEFINE C == Crossings(w, n)
           c == Cardinality(C)
<1>1. n \in Nat /\ C \in SUBSET (1..n)
  BY DEF Loopless, Crossings
<1>2. /\ \A i \in C : /\ m_adj[w][i] \in Node /\ m_adj[w][i] # w
                      /\ Len(m_adj[m_adj[w][i]]) <= m_bound_arboricity
                      /\ Len(Received(w, n)[m_adj[w][i]]) > m_bound_arboricity
      /\ \A i, k \in C : m_adj[w][i] = m_adj[w][k] => i = k
      /\ \A x \in Node : /\ Len(m_adj[x]) <= m_bound_arboricity
                         /\ Len(Received(w, n)[x]) > m_bound_arboricity
                         => \E i \in C : m_adj[w][i] = x
  BY CrossingFacts
<1>3. PICK at : at = InOrder(C)
  OBVIOUS
<1>4. pushed = [k \in DOMAIN at |-> m_adj[w][at[k]]]
  BY <1>3 DEF Exceeding, Crossings
<1> HIDE DEF C
<1>5. /\ c \in Nat /\ at \in [1..c -> C] /\ Increasing(at, c)
      /\ \A i \in C : \E k \in 1..c : at[k] = i
  BY <1>1, <1>3, InOrderFacts
<1> HIDE DEF c
<1>6. \A k \in 1..c : at[k] \in C /\ at[k] \in Nat
  <2>1. \A i \in C : i \in Nat
    BY <1>1
  <2>2. QED
    BY <1>5, <2>1
<1>7. pushed = [k \in 1..c |-> m_adj[w][at[k]]]
  BY <1>4, <1>5
<1>8. pushed \in Seq(Node) /\ Len(pushed) = c
  BY <1>2, <1>5, <1>6, <1>7
<1>9. Distinct(pushed)
  <2> SUFFICES ASSUME NEW i \in 1..c, NEW k \in 1..c, pushed[i] = pushed[k]
               PROVE  i = k
    BY <1>8 DEF Distinct
  <2>1. at[i] = at[k]
    BY <1>2, <1>6, <1>7
  <2>2. ~(i < k) /\ ~(k < i)
    BY <1>6, <2>1, <1>5 DEF Increasing
  <2>3. QED
    BY <1>5, <2>2
<1>10. \A x : Holds(pushed, x) => \E i \in C : m_adj[w][i] = x
  BY <1>6, <1>7, <1>8 DEF Holds
<1>11. \A i \in C : Holds(pushed, m_adj[w][i])
  <2> SUFFICES ASSUME NEW i \in C PROVE Holds(pushed, m_adj[w][i])
    OBVIOUS
  <2>1. PICK k \in 1..c : at[k] = i
    BY <1>5
  <2>2. pushed[k] = m_adj[w][i]
    BY <1>7, <2>1
  <2>3. QED
    BY <1>8, <2>2 DEF Holds
<1>12. QED
  BY <1>2, <1>8, <1>9, <1>10, <1>11

LEMMA OnTopFacts ==
  ASSUME NEW list \in Seq(Node), NEW stack \in Seq(Node), Distinct(list), Distinct(stack),
         \A x : ~(Holds(list, x) /\ Holds(stack, x)),
         NEW new, new = OnTop(list, stack)
  PROVE  /\ new \in Seq(Node) /\ Distinct(new)
         /\ \A x : Holds(new, x) <=> Holds(list, x) \/ Holds(stack, x)
<1> DEFINE n == Len(list)
           m == Len(stack)
           turned == [i \in 1..n |-> list[n + 1 - i]]
<1>1. n \in Nat /\ m \in Nat
  OBVIOUS
<1>2. \A i \in 1..n : n + 1 - i \in 1..n /\ list[n + 1 - i] \in Node
  <2>1. \A i \in 1..n : n + 1 - i \in 1..n
    BY <1>1
  <2>2. \A i \in 1..n : list[i] \in Node
    OBVIOUS
  <2>3. QED
    BY <2>1, <2>2
<1>3. turned \in Seq(Node) /\ Len(turned) = n
  BY <1>1, <1>2
<1>4. new = turned \o stack
  BY DEF OnTop
<1>5. new \in Seq(Node) /\ Len(new) = n + m
  BY <1>3, <1>4
<1>6. \A i \in 1..n : new[i] = list[n + 1 - i]
  BY <1>1, <1>3, <1>4
<1>7. \A i \in n + 1..n + m : i - n \in 1..m /\ new[i] = stack[i - n]
  <2> SUFFICES ASSUME NEW i \in n + 1..n + m PROVE i - n \in 1..m /\ new[i] = stack[i - n]
    OBVIOUS
  <2>1. i - n \in 1..m /\ i \in 1..n + m /\ i > n
    BY <1>1
  <2> HIDE DEF turned
  <2>2. QED
    BY <1>3, <1>4, <2>1
<1> HIDE DEF turned, n, m
<1>8. \A x : Holds(list, x) => Holds(new, x)
  <2> SUFFICES ASSUME NEW k \in 1..n PROVE Holds(new, list[k])
    BY DEF Holds, n
  <2>1. n + 1 - k \in 1..n /\ n + 1 - k \in 1..n + m /\ n + 1 - (n + 1 - k) = k
    BY <1>1
  <2>2. new[n + 1 - k] = list[k]
    BY <1>6, <2>1
  <2>3. QED
    BY <1>5, <2>1, <2>2 DEF Holds
<1>9. \A x : Holds(stack, x) => Holds(new, x)
  <2> SUFFICES ASSUME NEW k \in 1..m PROVE Holds(new, stack[k])
    BY DEF Holds, m
  <2>1. n + k \in n + 1..n + m /\ n + k \in 1..n + m /\ (n + k) - n = k
    BY <1>1
  <2>2. new[n + k] = stack[k]
    BY <1>7, <2>1
  <2>3. QED
    BY <1>5, <2>1, <2>2 DEF Holds
<1>10. ASSUME NEW i \in 1..n + m
       PROVE  \/ i \in 1..n /\ n + 1 - i \in 1..n /\ new[i] = list[n + 1 - i]
                    /\ Holds(list, new[i])
              \/ i \in n + 1..n + m /\ i - n \in 1..m /\ new[i] = stack[i - n]
                    /\ Holds(stack, new[i])
  <2>1. CASE i \in 1..n
    <3>1. n + 1 - i \in 1..n /\ new[i] = list[n + 1 - i]
      <4>1. n + 1 - i \in 1..n
        BY <1>1, <2>1
      <4>2. QED
        BY <1>6, <2>1, <4>1
    <3>2. QED
      BY <2>1, <3>1 DEF Holds, n
  <2>2. CASE i \notin 1..n
    <3>1. i \in n + 1..n + m
      BY <1>1, <2>2
    <3>2. i - n \in 1..m /\ new[i] = stack[i - n]
      BY <1>7, <3>1
    <3>3. QED
      BY <3>1, <3>2 DEF Holds, m
  <2>3. QED
    BY <2>1, <2>2
<1>11. \A x : Holds(new, x) => Holds(list, x) \/ Holds(stack, x)
  <2> SUFFICES ASSUME NEW i \in 1..n + m PROVE Holds(list, new[i]) \/ Holds(stack, new[i])
    BY <1>5 DEF Holds
  <2>1. QED
    BY <1>10
<1>12. Distinct(new)
  <2> SUFFICES ASSUME NEW i \in 1..n + m, NEW k \in 1..n + m, new[i] = new[k]
               PROVE  i = k
    BY <1>5 DEF Distinct
  <2>1. CASE i \in 1..n /\ k \in 1..n
    <3>1. n + 1 - i \in 1..n /\ n + 1 - k \in 1..n
      BY <1>1, <2>1
    <3> list[n + 1 - i] = list[n + 1 - k]
      BY <1>6, <2>1
    <3>2. n + 1 - i = n + 1 - k
      BY <3>1 DEF Distinct, n
    <3>3. QED
      BY <1>1, <2>1, <3>2
  <2>2. CASE i \in n + 1..n + m /\ k \in n + 1..n + m
    <3>1. i - n \in 1..m /\ k - n \in 1..m /\ stack[i - n] = stack[k - n]
      BY <1>7, <2>2
    <3>2. i - n = k - n
      BY <3>1 DEF Distinct, m
    <3>3. QED
      BY <1>1, <2>2, <3>2
  <2>3. QED
    BY <1>10, <2>1, <2>2
<1>13. QED
  BY <1>5, <1>8, <1>9, <1>11, <1>12

LEMMA TailFacts ==
  ASSUME NEW stack \in Seq(Node), stack # <<>>, Distinct(stack)
  PROVE  /\ Head(stack) \in Node /\ Holds(stack, Head(stack))
         /\ Tail(stack) \in Seq(Node) /\ Distinct(Tail(stack))
         /\ ~Holds(Tail(stack), Head(stack))
         /\ \A x : Holds(stack, x) <=> x = Head(stack) \/ Holds(Tail(stack), x)
<1>1. PICK n \in Nat : n = Len(stack) /\ n >= 1
  OBVIOUS
<1>2. PICK rest \in Seq(Node) : rest = Tail(stack)
  <2>1. Tail(stack) \in Seq(Node)
    BY <1>1
  <2>2. QED
    BY <2>1
<1>3. Len(rest) = n - 1 /\ \A i \in 1..n - 1 : rest[i] = stack[i + 1]
  BY <1>1, <1>2
<1>4. Head(stack) = stack[1] /\ stack[1] \in Node /\ 1 \in 1..n
  BY <1>1
<1>5. \A i \in 1..n - 1 : i + 1 \in 1..n /\ i + 1 # 1
  BY <1>1
<1>6. \A i \in 1..n : i = 1 \/ (i - 1 \in 1..n - 1 /\ stack[i] = rest[i - 1])
  <2> SUFFICES ASSUME NEW i \in 1..n, i # 1 PROVE i - 1 \in 1..n - 1 /\ stack[i] = rest[i - 1]
    OBVIOUS
  <2>1. i - 1 \in 1..n - 1 /\ (i - 1) + 1 = i
    BY <1>1
  <2>2. QED
    BY <1>3, <2>1
<1>7. Distinct(rest)
  <2> SUFFICES ASSUME NEW i \in 1..n - 1, NEW k \in 1..n - 1, rest[i] = rest[k]
               PROVE  i = k
    BY <1>3 DEF Distinct
  <2>1. stack[i + 1] = stack[k + 1] /\ i + 1 \in 1..n /\ k + 1 \in 1..n
    BY <1>3, <1>5
  <2>2. i + 1 = k + 1
    BY <1>1, <2>1 DEF Distinct
  <2>3. QED
    BY <1>1, <2>2
<1>8. ~Holds(rest, stack[1])
  <2> SUFFICES ASSUME NEW i \in 1..n - 1, rest[i] = stack[1] PROVE FALSE
    BY <1>3 DEF Holds
  <2>1. i + 1 \in 1..n /\ i + 1 # 1 /\ stack[i + 1] = stack[1]
    BY <1>3, <1>5
  <2>2. QED
    BY <1>1, <1>4, <2>1 DEF Distinct
<1>9. \A x : Holds(stack, x) <=> x = stack[1] \/ Holds(rest, x)
  BY <1>1, <1>3, <1>4, <1>5, <1>6 DEF Holds
<1>10. QED
  BY <1>2, <1>4, <1>7, <1>8, <1>9

(****************************************************************************)
(* The recorded sequence.                                                   *)
(****************************************************************************)
Update == BOOLEAN \X Node \X Node

EdgeOf(update) == {update[2], update[3]}

\* The copies of an edge after the first k updates of a sequence.
CountedIn(seq, e, k) ==
  LET updates(insertion) ==
        {j \in 1..k : seq[j][1] = insertion /\ {seq[j][2], seq[j][3]} = e}
  IN  Cardinality(updates(TRUE)) - Cardinality(updates(FALSE))

LEMMA CountUpTo ==
  ASSUME NEW T
  PROVE  /\ Cardinality({j \in 1..0 : j \in T}) = 0
         /\ \A k \in Nat : Cardinality({j \in 1..k : j \in T}) \in Nat
         /\ \A k \in Nat \ {0} : Cardinality({j \in 1..k : j \in T}) =
              Cardinality({j \in 1..k - 1 : j \in T}) + (IF k \in T THEN 1 ELSE 0)
<1> DEFINE upTo(k) == {j \in 1..k : j \in T}
<1>1. ASSUME NEW k \in Nat
      PROVE  IsFiniteSet(upTo(k)) /\ Cardinality(upTo(k)) \in Nat
  <2>1. IsFiniteSet(1..k)
    BY FS_Interval
  <2>2. IsFiniteSet(upTo(k))
    BY <2>1, FS_Subset
  <2>3. QED
    BY <2>2, FS_CardinalityType
<1>2. Cardinality(upTo(0)) = 0
  <2>1. upTo(0) = {}
    OBVIOUS
  <2>2. QED
    BY <2>1, FS_EmptySet
<1>3. ASSUME NEW k \in Nat \ {0}
      PROVE  Cardinality(upTo(k)) = Cardinality(upTo(k - 1)) + (IF k \in T THEN 1 ELSE 0)
  <2>1. k - 1 \in Nat /\ 1..k = (1..k - 1) \cup {k} /\ k \notin 1..k - 1
    OBVIOUS
  <2>2. /\ k \notin upTo(k - 1)
        /\ upTo(k) = upTo(k - 1) \cup (IF k \in T THEN {k} ELSE {})
    BY <2>1
  <2>3. IsFiniteSet(upTo(k - 1)) /\ Cardinality(upTo(k - 1)) \in Nat
    BY <1>1, <2>1
  <2> HIDE DEF upTo
  <2>4. CASE k \in T
    <3>1. upTo(k) = upTo(k - 1) \cup {k}
      BY <2>2, <2>4
    <3>2. Cardinality(upTo(k)) = Cardinality(upTo(k - 1)) + 1
      BY <2>2, <2>3, <3>1, FS_AddElement
    <3>3. QED
      BY <2>4, <3>2
  <2>5. CASE k \notin T
    <3>1. upTo(k) = upTo(k - 1)
      BY <2>2, <2>5
    <3>2. QED
      BY <2>3, <2>5, <3>1
  <2>6. QED
    BY <2>4, <2>5
<1>4. QED
  BY <1>1, <1>2, <1>3

LEMMA CountedFacts ==
  ASSUME NEW seq \in Seq(Update), NEW e
  PROVE  /\ CountedIn(seq, e, 0) = 0
         /\ \A k \in 0..Len(seq) : CountedIn(seq, e, k) \in Int
         /\ \A k \in 1..Len(seq) : CountedIn(seq, e, k) = CountedIn(seq, e, k - 1)
              + (IF EdgeOf(seq[k]) # e THEN 0 ELSE IF seq[k][1] THEN 1 ELSE -1)
<1>1. PICK n \in Nat : n = Len(seq)
  OBVIOUS
<1>2. PICK T : T = {j \in 1..n : seq[j][1] = TRUE /\ EdgeOf(seq[j]) = e}
  OBVIOUS
<1>3. PICK F : F = {j \in 1..n : seq[j][1] = FALSE /\ EdgeOf(seq[j]) = e}
  OBVIOUS
<1> DEFINE t(k) == Cardinality({j \in 1..k : j \in T})
           f(k) == Cardinality({j \in 1..k : j \in F})
<1>4. ASSUME NEW k \in 0..n
      PROVE  CountedIn(seq, e, k) = t(k) - f(k)
  <2>1. {j \in 1..k : j \in T} = {j \in 1..k : seq[j][1] = TRUE /\ {seq[j][2], seq[j][3]} = e}
    BY <1>1, <1>2 DEF EdgeOf
  <2>2. {j \in 1..k : j \in F} = {j \in 1..k : seq[j][1] = FALSE /\ {seq[j][2], seq[j][3]} = e}
    BY <1>1, <1>3 DEF EdgeOf
  <2>3. QED
    BY <2>1, <2>2 DEF CountedIn
<1>5. /\ t(0) = 0 /\ f(0) = 0
      /\ \A k \in Nat : t(k) \in Nat /\ f(k) \in Nat
      /\ \A k \in Nat \ {0} : /\ t(k) = t(k - 1) + (IF k \in T THEN 1 ELSE 0)
                            /\ f(k) = f(k - 1) + (IF k \in F THEN 1 ELSE 0)
  <2>1. /\ t(0) = 0 /\ \A k \in Nat : t(k) \in Nat
        /\ \A k \in Nat \ {0} : t(k) = t(k - 1) + (IF k \in T THEN 1 ELSE 0)
    BY CountUpTo
  <2>2. /\ f(0) = 0 /\ \A k \in Nat : f(k) \in Nat
        /\ \A k \in Nat \ {0} : f(k) = f(k - 1) + (IF k \in F THEN 1 ELSE 0)
    BY CountUpTo
  <2> HIDE DEF t, f
  <2>3. QED
    BY <2>1, <2>2
<1> HIDE DEF t, f
<1>6. CountedIn(seq, e, 0) = 0 /\ \A k \in 0..n : CountedIn(seq, e, k) \in Int
  BY <1>1, <1>4, <1>5
<1>7. ASSUME NEW k \in 1..n
      PROVE  CountedIn(seq, e, k) = CountedIn(seq, e, k - 1)
               + (IF EdgeOf(seq[k]) # e THEN 0 ELSE IF seq[k][1] THEN 1 ELSE -1)
  <2>1. k - 1 \in 0..n /\ k \in 0..n /\ k - 1 \in Nat /\ k \in Nat \ {0}
    BY <1>1
  <2>2. /\ CountedIn(seq, e, k - 1) = t(k - 1) - f(k - 1)
        /\ CountedIn(seq, e, k) = t(k) - f(k)
        /\ t(k) = t(k - 1) + (IF k \in T THEN 1 ELSE 0)
        /\ f(k) = f(k - 1) + (IF k \in F THEN 1 ELSE 0)
        /\ t(k - 1) \in Nat /\ f(k - 1) \in Nat
    BY <1>4, <1>5, <2>1
  <2>3. CASE EdgeOf(seq[k]) # e
    <3>1. k \notin T /\ k \notin F
      BY <1>2, <1>3, <2>3
    <3>2. QED
      BY <2>2, <2>3, <3>1
  <2>4. CASE EdgeOf(seq[k]) = e /\ seq[k][1] = TRUE
    <3>1. k \in T /\ k \notin F
      BY <1>2, <1>3, <2>4
    <3>2. CountedIn(seq, e, k) = CountedIn(seq, e, k - 1) + 1
      BY <2>2, <3>1
    <3>3. QED
      BY <2>4, <3>2, Zenon
  <2>5. CASE EdgeOf(seq[k]) = e /\ seq[k][1] = FALSE
    <3>1. k \notin T /\ k \in F
      BY <1>2, <1>3, <2>5
    <3>2. CountedIn(seq, e, k) = CountedIn(seq, e, k - 1) + (-1)
      BY <2>2, <3>1
    <3>3. QED
      BY <2>5, <3>2, Zenon
  <2>6. seq[k][1] \in BOOLEAN
    BY <1>1 DEF Update
  <2>7. QED
    BY <2>3, <2>4, <2>5, <2>6
<1>8. QED
  BY <1>1, <1>6, <1>7

LEMMA CountedPrefix ==
  ASSUME NEW seq \in Seq(Update), NEW update \in Update, NEW e, NEW k \in 0..Len(seq)
  PROVE  CountedIn(Append(seq, update), e, k) = CountedIn(seq, e, k)
<1>1. PICK n \in Nat : n = Len(seq)
  OBVIOUS
<1>2. PICK longer : longer = Append(seq, update)
  OBVIOUS
<1>3. \A j \in 1..k : longer[j] = seq[j]
  BY <1>1, <1>2
<1>4. /\ {j \in 1..k : longer[j][1] = TRUE /\ {longer[j][2], longer[j][3]} = e}
           = {j \in 1..k : seq[j][1] = TRUE /\ {seq[j][2], seq[j][3]} = e}
      /\ {j \in 1..k : longer[j][1] = FALSE /\ {longer[j][2], longer[j][3]} = e}
           = {j \in 1..k : seq[j][1] = FALSE /\ {seq[j][2], seq[j][3]} = e}
  BY <1>3
<1>5. CountedIn(longer, e, k) = CountedIn(seq, e, k)
  BY <1>4 DEF CountedIn
<1>6. QED
  BY <1>2, <1>5

\* No update is about a loop, and only an edge of the graph is deleted.
Legal(seq) ==
  \A k \in 1..Len(seq) : /\ seq[k][2] # seq[k][3]
                         /\ ~seq[k][1] => CountedIn(seq, EdgeOf(seq[k]), k - 1) > 0

LEMMA LegalLonger ==
  ASSUME NEW seq \in Seq(Update), Legal(seq), NEW update \in Update, update[2] # update[3],
         ~update[1] => CountedIn(seq, EdgeOf(update), Len(seq)) > 0
  PROVE  Legal(Append(seq, update))
<1>1. PICK n \in Nat : n = Len(seq)
  OBVIOUS
<1>2. PICK longer : longer = Append(seq, update)
  OBVIOUS
<1>3. Len(longer) = n + 1 /\ longer[n + 1] = update /\ \A k \in 1..n : longer[k] = seq[k]
  BY <1>1, <1>2
<1>4. \A e : \A k \in 0..n : CountedIn(longer, e, k) = CountedIn(seq, e, k)
  BY <1>1, <1>2, CountedPrefix
<1>5. ASSUME NEW k \in 1..n + 1
      PROVE  /\ longer[k][2] # longer[k][3]
             /\ ~longer[k][1] => CountedIn(longer, EdgeOf(longer[k]), k - 1) > 0
  <2>1. k - 1 \in 0..n
    BY <1>1
  <2>2. CountedIn(longer, EdgeOf(longer[k]), k - 1) = CountedIn(seq, EdgeOf(longer[k]), k - 1)
    BY <1>4, <2>1
  <2>3. CASE k \in 1..n
    BY <1>1, <1>3, <2>2, <2>3 DEF Legal
  <2>4. CASE k = n + 1
    <3>1. k - 1 = n
      BY <1>1, <2>4
    <3>2. QED
      BY <1>1, <1>3, <2>2, <2>4, <3>1
  <2>5. QED
    BY <1>1, <2>3, <2>4
<1>6. QED
  BY <1>2, <1>3, <1>5 DEF Legal

(****************************************************************************)
(* The lists and the sequence: every copy of an edge is there in one        *)
(* direction, but for those that went with another that was deleted.        *)
(****************************************************************************)
Arcs(adj, u, v) == Copies(adj[u], v) + Copies(adj[v], u)

\* A copy of the edge has been deleted beside another in the first k updates.
DeletedBesideIn(seq, e, k) ==
  \E j \in 1..k : 0 < CountedIn(seq, e, j) /\ CountedIn(seq, e, j) < CountedIn(seq, e, j - 1)

Match(adj, seq, k) ==
  \A u, v \in Node : u # v =>
    /\ Arcs(adj, u, v) <= CountedIn(seq, {u, v}, k)
    /\ Arcs(adj, u, v) < CountedIn(seq, {u, v}, k) => DeletedBesideIn(seq, {u, v}, k)

LEMMA ArcsType ==
  ASSUME NEW adj \in [Node -> Seq(Node)], NEW u \in Node, NEW v \in Node
  PROVE  /\ Copies(adj[u], v) \in Nat /\ Copies(adj[v], u) \in Nat
         /\ Arcs(adj, u, v) \in Nat /\ Arcs(adj, u, v) = Arcs(adj, v, u)
<1>1. Copies(adj[u], v) \in Nat /\ Copies(adj[v], u) \in Nat
  BY CopiesType
<1>2. QED
  BY <1>1 DEF Arcs

LEMMA MatchPrefix ==
  ASSUME NEW seq \in Seq(Update), NEW update \in Update, NEW k \in 0..Len(seq), NEW adj,
         Match(adj, seq, k)
  PROVE  Match(adj, Append(seq, update), k)
<1>1. PICK longer : longer = Append(seq, update)
  OBVIOUS
<1>2. \A e : \A j \in 0..Len(seq) : CountedIn(longer, e, j) = CountedIn(seq, e, j)
  BY <1>1, CountedPrefix
<1>3. \A j \in 1..k : j \in 0..Len(seq) /\ j - 1 \in 0..Len(seq)
  OBVIOUS
<1>4. \A e : DeletedBesideIn(seq, e, k) => DeletedBesideIn(longer, e, k)
  BY <1>2, <1>3 DEF DeletedBesideIn
<1>5. Match(adj, longer, k)
  BY <1>2, <1>4 DEF Match
<1>6. QED
  BY <1>1, <1>5

\* A deletion beside another copy stays one.
LEMMA DeletedBesideGrows ==
  ASSUME NEW seq, NEW e, NEW k \in Nat, DeletedBesideIn(seq, e, k)
  PROVE  DeletedBesideIn(seq, e, k + 1)
<1>1. \A j \in 1..k : j \in 1..k + 1
  OBVIOUS
<1>2. QED
  BY <1>1 DEF DeletedBesideIn

\* With no update handled, the lists are empty.
LEMMA MatchEmpty ==
  ASSUME NEW seq \in Seq(Update)
  PROVE  Match(Empty, seq, 0)
<1> SUFFICES ASSUME NEW u \in Node, NEW v \in Node
             PROVE  Arcs(Empty, u, v) = 0 /\ CountedIn(seq, {u, v}, 0) = 0
  BY DEF Match
<1>1. Empty[u] = <<>> /\ Empty[v] = <<>>
  BY DEF Empty
<1>2. Copies(Empty[u], v) = 0 /\ Copies(Empty[v], u) = 0
  BY <1>1, CopiesOfEmpty, Zenon
<1>3. QED
  BY <1>2, CountedFacts DEF Arcs

\* An insertion adds an arc.
LEMMA MatchInserted ==
  ASSUME NEW seq \in Seq(Update), NEW k \in 1..Len(seq), seq[k][1],
         NEW source \in Node, NEW target \in Node, source # target,
         seq[k][2] = source, seq[k][3] = target,
         NEW adj \in [Node -> Seq(Node)], Match(adj, seq, k - 1),
         NEW adj2, adj2 = [adj EXCEPT ![source] = Append(adj[source], target)]
  PROVE  Match(adj2, seq, k)
<1> SUFFICES ASSUME NEW u \in Node, NEW v \in Node, u # v
             PROVE  /\ Arcs(adj2, u, v) <= CountedIn(seq, {u, v}, k)
                    /\ Arcs(adj2, u, v) < CountedIn(seq, {u, v}, k)
                         => DeletedBesideIn(seq, {u, v}, k)
  BY DEF Match
<1>1. k - 1 \in 0..Len(seq) /\ k - 1 \in Nat /\ (k - 1) + 1 = k
  OBVIOUS
<1>2. PICK more \in {0, 1} : more = IF {u, v} = {source, target} THEN 1 ELSE 0
  OBVIOUS
<1>3. PICK c \in Int : c = CountedIn(seq, {u, v}, k - 1)
  BY <1>1, CountedFacts
<1>4. CountedIn(seq, {u, v}, k) = c + more
  <2>1. EdgeOf(seq[k]) = {source, target}
    BY DEF EdgeOf
  <2>2. CountedIn(seq, {u, v}, k) = c + (IF EdgeOf(seq[k]) # {u, v} THEN 0 ELSE 1)
    BY <1>3, CountedFacts
  <2>3. QED
    BY <1>2, <1>3, <2>1, <2>2
<1>5. PICK a \in Nat : a = Arcs(adj, u, v)
  BY ArcsType
<1>6. Arcs(adj2, u, v) = a + more
  <2>1. ASSUME NEW x \in Node, NEW y
        PROVE  Copies(adj2[x], y) = Copies(adj[x], y)
                 + (IF x = source /\ y = target THEN 1 ELSE 0)
    <3>1. PICK list \in Seq(Node) : list = adj[x]
      OBVIOUS
    <3>2. Copies(list, y) \in Nat
      BY CopiesType
    <3>3. CASE x = source
      <4>1. adj2[x] = Append(list, target)
        BY <3>1, <3>3
      <4>2. Copies(Append(list, target), y) = Copies(list, y) + (IF y = target THEN 1 ELSE 0)
        BY CopiesAppended
      <4>3. QED
        BY <3>1, <3>3, <4>1, <4>2
    <3>4. CASE x # source
      BY <3>1, <3>2, <3>4
    <3>5. QED
      BY <3>3, <3>4
  <2>2. PICK p \in Nat, q \in Nat : p = Copies(adj[u], v) /\ q = Copies(adj[v], u) /\ a = p + q
    BY <1>5, ArcsType DEF Arcs
  <2>3. /\ Copies(adj2[u], v) = p + (IF u = source /\ v = target THEN 1 ELSE 0)
        /\ Copies(adj2[v], u) = q + (IF v = source /\ u = target THEN 1 ELSE 0)
    BY <2>1, <2>2
  <2>4. {u, v} = {source, target} <=> (u = source /\ v = target) \/ (v = source /\ u = target)
    OBVIOUS
  <2>5. Arcs(adj2, u, v) = Copies(adj2[u], v) + Copies(adj2[v], u)
    BY DEF Arcs
  <2>6. CASE {u, v} = {source, target}
    <3>1. \/ u = source /\ v = target /\ u # target
          \/ v = source /\ u = target /\ u # source
      BY <2>4, <2>6
    <3>2. more = 1
      BY <1>2, <2>6
    <3>3. \/ Copies(adj2[u], v) = p + 1 /\ Copies(adj2[v], u) = q
          \/ Copies(adj2[u], v) = p /\ Copies(adj2[v], u) = q + 1
      BY <2>2, <2>3, <3>1
    <3>4. (p + 1) + q = a + more /\ p + (q + 1) = a + more
      BY <2>2, <3>2
    <3>5. QED
      BY <2>5, <3>3, <3>4, Zenon
  <2>7. CASE {u, v} # {source, target}
    <3>1. more = 0
      BY <1>2, <2>7
    <3>2. Copies(adj2[u], v) = p /\ Copies(adj2[v], u) = q
      BY <2>2, <2>3, <2>4, <2>7
    <3>3. QED
      BY <2>2, <2>5, <3>1, <3>2
  <2>8. QED
    BY <2>6, <2>7
<1>7. a <= c /\ (a < c => DeletedBesideIn(seq, {u, v}, k - 1))
  BY <1>3, <1>5 DEF Match
<1>8. DeletedBesideIn(seq, {u, v}, k - 1) => DeletedBesideIn(seq, {u, v}, k)
  BY <1>1, DeletedBesideGrows
<1>9. QED
  BY <1>4, <1>6, <1>7, <1>8

\* A deletion takes an arc, if there is one; when it takes two, there was another copy.
LEMMA MatchDeleted ==
  ASSUME NEW seq \in Seq(Update), NEW k \in 1..Len(seq), ~seq[k][1],
         NEW source \in Node, NEW target \in Node, source # target,
         seq[k][2] = source, seq[k][3] = target,
         CountedIn(seq, {source, target}, k - 1) > 0,
         NEW adj \in [Node -> Seq(Node)], Match(adj, seq, k - 1),
         NEW adj2, adj2 = [adj EXCEPT ![source] = Erased(@, target),
                                      ![target] = Erased(@, source)]
  PROVE  Match(adj2, seq, k)
<1> SUFFICES ASSUME NEW u \in Node, NEW v \in Node, u # v
             PROVE  /\ Arcs(adj2, u, v) <= CountedIn(seq, {u, v}, k)
                    /\ Arcs(adj2, u, v) < CountedIn(seq, {u, v}, k)
                         => DeletedBesideIn(seq, {u, v}, k)
  BY DEF Match
<1>1. k - 1 \in 0..Len(seq) /\ k - 1 \in Nat /\ (k - 1) + 1 = k /\ k \in 1..k
  OBVIOUS
<1>2. PICK c \in Int : c = CountedIn(seq, {u, v}, k - 1)
  BY <1>1, CountedFacts
<1>3. CountedIn(seq, {u, v}, k) = c + (IF EdgeOf(seq[k]) # {u, v} THEN 0 ELSE -1)
  BY <1>2, CountedFacts
<1>4. EdgeOf(seq[k]) = {source, target}
  BY DEF EdgeOf
<1>5. PICK p \in Nat, q \in Nat : p = Copies(adj[u], v) /\ q = Copies(adj[v], u)
                                    /\ Arcs(adj, u, v) = p + q
  BY ArcsType DEF Arcs
<1>6. p + q <= c /\ (p + q < c => DeletedBesideIn(seq, {u, v}, k - 1))
  BY <1>2, <1>5 DEF Match
<1>7. DeletedBesideIn(seq, {u, v}, k - 1) => DeletedBesideIn(seq, {u, v}, k)
  BY <1>1, DeletedBesideGrows
<1>8. adj2[source] = Erased(adj[source], target) /\ adj2[target] = Erased(adj[target], source)
      /\ \A x \in Node : x # source /\ x # target => adj2[x] = adj[x]
  OBVIOUS
<1>9. ASSUME NEW x \in Node, NEW y \in Node, {x, y} # {source, target}
      PROVE  Copies(adj2[x], y) = Copies(adj[x], y)
  <2>1. ASSUME NEW z \in Node, x \in {source, target}, adj2[x] = Erased(adj[x], z), y # z
        PROVE  Copies(adj2[x], y) = Copies(adj[x], y)
    <3>1. PICK list \in Seq(Node) : list = adj[x]
      OBVIOUS
    <3>2. Copies(Erased(list, z), y) = Copies(list, y)
      BY <2>1, CopiesErased
    <3>3. QED
      BY <2>1, <3>1, <3>2
  <2>2. CASE x = source
    <3>1. y # target
      BY <1>9, <2>2
    <3>2. QED
      BY <1>8, <2>1, <2>2, <3>1
  <2>3. CASE x = target
    <3>1. y # source
      BY <1>9, <2>3
    <3>2. QED
      BY <1>8, <2>1, <2>3, <3>1
  <2>4. QED
    BY <1>8, <2>2, <2>3
<1>10. CASE {u, v} # {source, target}
  <2>1. Copies(adj2[u], v) = p /\ Copies(adj2[v], u) = q
    BY <1>5, <1>9, <1>10
  <2>2. Arcs(adj2, u, v) = p + q
    BY <2>1 DEF Arcs
  <2>3. CountedIn(seq, {u, v}, k) = c
    <3>1. EdgeOf(seq[k]) # {u, v}
      BY <1>4, <1>10
    <3>2. QED
      BY <1>2, <1>3, <3>1
  <2>4. QED
    BY <1>6, <1>7, <2>2, <2>3
<1>11. CASE {u, v} = {source, target}
  <2>1. CountedIn(seq, {u, v}, k) = c - 1 /\ c > 0
    BY <1>2, <1>3, <1>4, <1>11
  <2>2. ASSUME NEW x \in Node, NEW y \in Node, adj2[x] = Erased(adj[x], y)
        PROVE  Copies(adj2[x], y) = IF Copies(adj[x], y) > 0 THEN Copies(adj[x], y) - 1
                                                             ELSE Copies(adj[x], y)
    <3>1. PICK list \in Seq(Node) : list = adj[x]
      OBVIOUS
    <3>2. Copies(Erased(list, y), y) =
            IF y = y /\ Copies(list, y) > 0 THEN Copies(list, y) - 1 ELSE Copies(list, y)
      BY CopiesErased
    <3>3. QED
      BY <2>2, <3>1, <3>2
  <2>3. adj2[u] = Erased(adj[u], v) /\ adj2[v] = Erased(adj[v], u)
    BY <1>8, <1>11
  <2>4. PICK p2 : p2 = Copies(adj2[u], v)
    OBVIOUS
  <2>5. PICK q2 : q2 = Copies(adj2[v], u)
    OBVIOUS
  <2>6. /\ p2 = IF p > 0 THEN p - 1 ELSE p
        /\ q2 = IF q > 0 THEN q - 1 ELSE q
    BY <1>5, <2>2, <2>3, <2>4, <2>5
  <2>7. Arcs(adj2, u, v) = p2 + q2
    BY <2>4, <2>5 DEF Arcs
  <2>8. p2 + q2 <= c - 1
    BY <1>6, <2>1, <2>6
  <2>9. CASE p + q < c
    BY <1>6, <1>7, <2>1, <2>7, <2>8, <2>9
  <2>10. CASE p + q = c
    <3>1. p2 + q2 < c - 1 => c - 1 > 0
      BY <2>1, <2>6, <2>10
    <3>2. c - 1 > 0 => DeletedBesideIn(seq, {u, v}, k)
      <4> SUFFICES ASSUME c - 1 > 0 PROVE DeletedBesideIn(seq, {u, v}, k)
        OBVIOUS
      <4>1. 0 < CountedIn(seq, {u, v}, k)
              /\ CountedIn(seq, {u, v}, k) < CountedIn(seq, {u, v}, k - 1)
        BY <1>2, <2>1
      <4>2. QED
        BY <1>1, <4>1 DEF DeletedBesideIn
    <3>3. QED
      BY <2>1, <2>7, <2>8, <3>1, <3>2
  <2>11. QED
    BY <1>6, <2>9, <2>10
<1>12. QED
  BY <1>10, <1>11

(****************************************************************************)
(* The invariant.                                                           *)
(****************************************************************************)
TypeInv ==
  /\ m_adj \in [Node -> Seq(Node)] /\ edges \in [Edge -> Nat] /\ m_sequence \in Seq(Update)
  /\ m_bound_arboricity \in Nat /\ m_reorientations_limit \in Nat
  /\ m_cur_reorientations \in Nat /\ m_cur_reorientations <= m_reorientations_limit
  /\ m_rebuild \in BOOLEAN /\ pc \in {"idle", "cascade", "replay"}
  /\ pc = "replay" => m_rebuild
  /\ pc = "idle" => ~m_rebuild
  /\ S \in Seq(Node) /\ replayed \in 0..Len(m_sequence)

\* The sequence is one of updates of the graph, and leads to it.
SequenceInv ==
  /\ Legal(m_sequence)
  /\ \A e \in Edge : edges[e] = CountedIn(m_sequence, e, Len(m_sequence))

\* The number of updates that the lists have been through.
handled == IF m_rebuild THEN replayed ELSE Len(m_sequence)

\* The lists of a replay that was given up are not used any more.
GivenUp == pc = "replay" /\ exhausted

Above(v) == Len(m_adj[v]) > m_bound_arboricity

\* The nodes on the stack of a cascade are those above the bound.
StackInv ==
  pc = "cascade" =>
    /\ Distinct(S)
    /\ \A v \in Node : Holds(S, v) <=> Above(v)

\* Between the handlers no node is above the bound.
BoundInv == pc # "cascade" /\ ~GivenUp => \A v \in Node : ~Above(v)

ListsInv == ~GivenUp => Match(m_adj, m_sequence, handled)

IInv == TypeInv /\ SequenceInv /\ Loopless /\ StackInv /\ BoundInv /\ ListsInv

LEMMA EmptyLists ==
  /\ Empty \in [Node -> Seq(Node)]
  /\ \A v \in Node : Len(Empty[v]) = 0 /\ \A w : Copies(Empty[v], w) = 0
<1>1. <<>> \in Seq(Node) /\ Len(<<>>) = 0
  OBVIOUS
<1>2. \A v \in Node : Empty[v] = <<>>
  BY DEF Empty
<1>3. \A v \in Node : \A w : Copies(Empty[v], w) = 0
  BY <1>2, CopiesOfEmpty, Zenon
<1>4. Empty \in [Node -> Seq(Node)]
  BY <1>1, Zenon DEF Empty
<1>5. \A v \in Node : Len(Empty[v]) = 0
  BY <1>1, <1>2, Zenon
<1>6. QED
  BY <1>3, <1>4, <1>5

LEMMA InitIInv == Init => IInv
<1> SUFFICES ASSUME Init PROVE IInv
  OBVIOUS
<1>1. m_sequence = <<>> /\ m_sequence \in Seq(Update) /\ Len(m_sequence) = 0
  <2>1. m_sequence = <<>>
    BY DEF Init
  <2>2. QED
    BY <2>1
<1>2. TypeInv
  <2>1. S \in Seq(Node)
    <3>1. S = <<>>
      BY DEF Init
    <3>2. QED
      BY <3>1
  <2>2. m_adj \in [Node -> Seq(Node)]
    BY EmptyLists DEF Init
  <2>3. edges \in [Edge -> Nat] /\ replayed \in 0..Len(m_sequence)
    BY <1>1 DEF Init
  <2>4. /\ m_bound_arboricity \in Nat /\ m_reorientations_limit \in Nat
        /\ m_cur_reorientations \in Nat /\ m_cur_reorientations <= m_reorientations_limit
    BY DEF Init
  <2>5. m_rebuild \in BOOLEAN /\ ~m_rebuild /\ pc = "idle"
    BY DEF Init
  <2>6. QED
    BY <1>1, <2>1, <2>2, <2>3, <2>4, <2>5 DEF TypeInv
<1>3. SequenceInv
  <2>1. Legal(m_sequence)
    BY <1>1 DEF Legal
  <2>2. \A e \in Edge : edges[e] = 0 /\ CountedIn(m_sequence, e, 0) = 0
    BY <1>1, CountedFacts DEF Init
  <2>3. QED
    BY <1>1, <2>1, <2>2 DEF SequenceInv
<1>4. Loopless
  BY EmptyLists DEF Init, Loopless
<1>5. BoundInv
  BY EmptyLists DEF Init, BoundInv, Above
<1>6. StackInv
  BY DEF Init, StackInv
<1>7. ListsInv
  <2>1. Match(Empty, m_sequence, 0)
    BY <1>1, MatchEmpty
  <2>2. handled = 0 /\ m_adj = Empty
    BY <1>1 DEF Init, handled
  <2>3. QED
    BY <2>1, <2>2 DEF ListsInv
<1>8. QED
  BY <1>2, <1>3, <1>4, <1>5, <1>6, <1>7 DEF IInv

\* An insertion, recorded or replayed: the new arc may bring its node above the bound.
LEMMA InsertArc ==
  ASSUME TypeInv, Loopless, \A v \in Node : ~Above(v),
         NEW seq \in Seq(Update), Legal(seq), NEW k \in 1..Len(seq), seq[k][1],
         Match(m_adj, seq, k - 1),
         NEW source \in Node, NEW target \in Node,
         seq[k][2] = source, seq[k][3] = target,
         insertArc(source, target)
  PROVE  /\ m_adj' \in [Node -> Seq(Node)] /\ Match(m_adj', seq, k) /\ Loopless'
         /\ m_reorientations_limit' \in Nat
         /\ m_cur_reorientations' <= m_reorientations_limit'
         /\ \/ pc' = "cascade" /\ S' \in Seq(Node) /\ StackInv'
            \/ pc' = caller /\ S' = S /\ \A v \in Node : ~Above(v)'
<1>1. source # target
  BY DEF Legal
<1>2. PICK list \in Seq(Node) : list = m_adj[source]
  BY DEF TypeInv
<1>3. PICK n \in Nat, b \in Nat : n = Len(list) /\ b = m_bound_arboricity
  BY <1>2 DEF TypeInv
<1>4. PICK added : added = Append(list, target)
  OBVIOUS
<1>5. /\ added \in Seq(Node) /\ Len(added) = n + 1
      /\ \A v : Copies(added, v) = Copies(list, v) + (IF v = target THEN 1 ELSE 0)
  BY <1>3, <1>4, CopiesAppended
<1>6. m_adj' = [m_adj EXCEPT ![source] = added]
  BY <1>2, <1>4 DEF insertArc
<1>7. m_adj' \in [Node -> Seq(Node)]
  BY <1>5, <1>6 DEF TypeInv
<1>8. m_adj'[source] = added /\ \A v \in Node : v # source => m_adj'[v] = m_adj[v]
  BY <1>6 DEF TypeInv
<1>9. Match(m_adj', seq, k)
  <2>1. m_adj \in [Node -> Seq(Node)]
    BY DEF TypeInv
  <2>2. PICK adj2 : adj2 = m_adj'
    OBVIOUS
  <2>3. adj2 = [m_adj EXCEPT ![source] = Append(m_adj[source], target)]
    BY <1>2, <1>4, <1>6, <2>2
  <2>4. Match(adj2, seq, k)
    BY <1>1, <2>1, <2>3, MatchInserted
  <2>5. QED
    BY <2>2, <2>4
<1>10. Loopless'
  <2>1. \A v \in Node : Copies(m_adj'[v], v) = 0
    <3>1. Copies(added, source) = 0
      BY <1>1, <1>2, <1>5 DEF Loopless
    <3>2. QED
      BY <1>8, <3>1 DEF Loopless
  <2>2. QED
    BY <1>7, <2>1 DEF Loopless
<1>11. m_bound_arboricity' = b /\ n <= b
  BY <1>2, <1>3 DEF insertArc, Above
<1>12. m_reorientations_limit' \in Nat /\ m_cur_reorientations' <= m_reorientations_limit'
  <2>1. PICK limit \in Nat, cur \in Nat : /\ limit = m_reorientations_limit
                                          /\ cur = m_cur_reorientations /\ cur <= limit
    BY DEF TypeInv
  <2>2. m_reorientations_limit' = limit + b + 1 /\ m_cur_reorientations' = cur
    BY <1>3, <2>1 DEF insertArc
  <2>3. QED
    BY <2>1, <2>2
<1>13. Above(source)' <=> n + 1 = b + 1
  BY <1>3, <1>5, <1>8, <1>11 DEF Above
<1>14. \A v \in Node : v # source => ~Above(v)'
  BY <1>3, <1>8, <1>11 DEF Above
<1>15. CASE n + 1 = b + 1
  <2>1. pc' = "cascade" /\ S' = <<source>>
    BY <1>2, <1>3, <1>4, <1>5, <1>15 DEF insertArc
  <2>2. S' \in Seq(Node) /\ Len(S') = 1 /\ S'[1] = source
    BY <2>1
  <2>3. Distinct(S')
    BY <2>2 DEF Distinct
  <2>4. \A v : Holds(S', v) <=> v = source
    BY <2>2 DEF Holds
  <2>5. StackInv'
    BY <1>13, <1>14, <1>15, <2>3, <2>4 DEF StackInv
  <2>6. QED
    BY <1>7, <1>9, <1>10, <1>12, <2>1, <2>2, <2>5
<1>16. CASE n + 1 # b + 1
  <2>1. pc' = caller /\ S' = S
    BY <1>2, <1>3, <1>4, <1>5, <1>16 DEF insertArc
  <2>2. QED
    BY <1>7, <1>9, <1>10, <1>12, <1>13, <1>14, <1>16, <2>1
<1>17. QED
  BY <1>15, <1>16

\* A deletion, recorded or replayed: no node gets above the bound.
LEMMA DeleteArc ==
  ASSUME TypeInv, Loopless, \A v \in Node : ~Above(v),
         NEW seq \in Seq(Update), Legal(seq), NEW k \in 1..Len(seq), ~seq[k][1],
         Match(m_adj, seq, k - 1),
         NEW source \in Node, NEW target \in Node,
         seq[k][2] = source, seq[k][3] = target,
         deleteArc(source, target)
  PROVE  /\ m_adj' \in [Node -> Seq(Node)] /\ Match(m_adj', seq, k) /\ Loopless'
         /\ pc' = caller /\ \A v \in Node : ~Above(v)'
<1>1. source # target /\ CountedIn(seq, {source, target}, k - 1) > 0
  BY DEF Legal, EdgeOf
<1>2. m_adj \in [Node -> Seq(Node)] /\ m_bound_arboricity \in Nat
  BY DEF TypeInv
<1>3. m_adj' = [m_adj EXCEPT ![source] = Erased(@, target), ![target] = Erased(@, source)]
      /\ pc' = caller /\ m_bound_arboricity' = m_bound_arboricity
  BY DEF deleteArc, limits
<1>4. m_adj'[source] = Erased(m_adj[source], target)
      /\ m_adj'[target] = Erased(m_adj[target], source)
      /\ \A v \in Node : v # source /\ v # target => m_adj'[v] = m_adj[v]
  BY <1>1, <1>2, <1>3
<1>5. ASSUME NEW v \in Node, NEW w, m_adj'[v] = Erased(m_adj[v], w)
      PROVE  m_adj'[v] \in Seq(Node) /\ Copies(m_adj'[v], v) = 0 /\ ~Above(v)'
  <2>1. PICK list \in Seq(Node) : list = m_adj[v]
    BY <1>2
  <2>2. PICK b \in Nat : b = m_bound_arboricity
    BY <1>2
  <2>3. Copies(list, v) = 0 /\ ~(Len(list) > b)
    BY <2>1, <2>2 DEF Loopless, Above
  <2>4. /\ Erased(list, w) \in Seq(Node) /\ Len(Erased(list, w)) <= Len(list)
        /\ \A x : Copies(Erased(list, w), x) =
                    IF x = w /\ Copies(list, w) > 0 THEN Copies(list, w) - 1
                                                    ELSE Copies(list, x)
    BY CopiesErased
  <2>5. PICK erased \in Seq(Node) : erased = Erased(list, w)
    BY <2>4
  <2>6. Copies(erased, v) = 0
    <3>1. ~(v = w /\ Copies(list, w) > 0)
      BY <2>3
    <3>2. QED
      BY <2>3, <2>4, <2>5, <3>1
  <2>7. ~(Len(erased) > b)
    <3>1. Len(erased) \in Nat /\ Len(list) \in Nat
      OBVIOUS
    <3>2. QED
      BY <2>3, <2>4, <2>5, <3>1
  <2>8. QED
    BY <1>3, <1>5, <2>1, <2>2, <2>5, <2>6, <2>7 DEF Above
<1>6. ASSUME NEW v \in Node
      PROVE  m_adj'[v] \in Seq(Node) /\ Copies(m_adj'[v], v) = 0 /\ ~Above(v)'
  <2>1. CASE v = source
    BY <1>4, <1>5, <2>1
  <2>2. CASE v = target
    BY <1>4, <1>5, <2>2
  <2>3. CASE v # source /\ v # target
    BY <1>2, <1>3, <1>4, <2>3 DEF Loopless, Above
  <2>4. QED
    BY <2>1, <2>2, <2>3
<1>7. m_adj' \in [Node -> Seq(Node)]
  <2>1. m_adj' = [v \in Node |-> m_adj'[v]]
    BY <1>2, <1>3
  <2>2. \A v \in Node : m_adj'[v] \in Seq(Node)
    BY <1>6
  <2>3. QED
    BY <2>1, <2>2
<1>8. Match(m_adj', seq, k)
  <2>1. PICK adj2 : adj2 = m_adj'
    OBVIOUS
  <2>2. adj2 = [m_adj EXCEPT ![source] = Erased(@, target), ![target] = Erased(@, source)]
    BY <1>3, <2>1
  <2>3. Match(adj2, seq, k)
    BY <1>1, <1>2, <2>2, MatchDeleted
  <2>4. QED
    BY <2>1, <2>3
<1>9. QED
  BY <1>3, <1>6, <1>7, <1>8 DEF Loopless

\* The bound is rounded up, so it stays a natural number.
LEMMA BeginRebuild ==
  ASSUME TypeInv, SequenceInv, beginRebuild, UNCHANGED <<edges, m_sequence>>
  PROVE  IInv'
<1>1. m_bound_arboricity' \in Nat
  <2>1. PICK b \in Nat, p \in Nat, d \in Nat : /\ b = m_bound_arboricity /\ p = GrowthNum
                                               /\ d = GrowthDen /\ d > 0
    BY GrowthAssumption DEF TypeInv
  <2>2. PICK a \in Int : a = -p * b
    BY <2>1
  <2>3. a <= 0
    <3>1. p * b \in Nat
      BY <2>1
    <3>2. QED
      BY <2>2, <3>1
  <2>4. a \div d \in Int /\ d * (a \div d) <= a
    BY <2>1
  <2>5. PICK q \in Int : q = a \div d
    BY <2>4
  <2>6. q <= 0
    BY <2>1, <2>3, <2>4, <2>5
  <2>7. m_bound_arboricity' = -q
    BY <2>1, <2>2, <2>5 DEF beginRebuild
  <2>8. QED
    BY <2>6, <2>7
<1>2. PICK bound \in Nat : bound = m_bound_arboricity'
  BY <1>1
<1>3. /\ m_adj' = Empty /\ m_cur_reorientations' = 0 /\ m_reorientations_limit' = bound + 1
      /\ m_rebuild' = TRUE /\ pc' = "replay" /\ S' = <<>> /\ replayed' = 0
      /\ edges' = edges /\ m_sequence' = m_sequence
  BY <1>2 DEF beginRebuild
<1>4. m_adj' \in [Node -> Seq(Node)] /\ \A v \in Node : Len(m_adj'[v]) = 0 /\ Copies(m_adj'[v], v) = 0
  BY <1>3, EmptyLists
<1>5. TypeInv'
  <2>1. S' \in Seq(Node)
    BY <1>3
  <2>2. /\ m_cur_reorientations' \in Nat /\ m_reorientations_limit' \in Nat
        /\ m_cur_reorientations' <= m_reorientations_limit'
    <3>1. bound + 1 \in Nat /\ 0 \in Nat /\ 0 <= bound + 1
      OBVIOUS
    <3>2. QED
      BY <1>3, <3>1
  <2>3. m_rebuild' \in BOOLEAN /\ m_rebuild' /\ pc' = "replay"
    BY <1>3
  <2>4. edges' \in [Edge -> Nat] /\ m_sequence' \in Seq(Update)
    BY <1>3 DEF TypeInv
  <2>5. replayed' \in 0..Len(m_sequence')
    <3>1. Len(m_sequence') \in Nat
      BY <2>4
    <3>2. QED
      BY <1>3, <3>1
  <2>6. QED
    BY <1>1, <1>4, <2>1, <2>2, <2>3, <2>4, <2>5 DEF TypeInv
<1>6. SequenceInv'
  BY <1>3 DEF SequenceInv
<1>7. Loopless'
  BY <1>4 DEF Loopless
<1>8. StackInv' /\ BoundInv'
  BY <1>1, <1>3, <1>4 DEF StackInv, BoundInv, Above
<1>9. ListsInv'
  <2>1. Match(Empty, m_sequence, 0)
    BY MatchEmpty DEF TypeInv
  <2>2. Match(m_adj', m_sequence', 0) /\ handled' = 0
    BY <1>3, <2>1 DEF handled
  <2>3. QED
    BY <2>2 DEF ListsInv
<1>10. QED
  BY <1>5, <1>6, <1>7, <1>8, <1>9 DEF IInv

\* The two handlers record the update first.
LEMMA handleInsertionStep ==
  ASSUME IInv, NEW source \in Node, NEW target \in Node, handleInsertion(source, target)
  PROVE  IInv'
<1> DEFINE update == <<TRUE, source, target>>
           n == Len(m_sequence)
<1>1. /\ pc = "idle" /\ ~m_rebuild /\ source # target /\ {source, target} \in Edge
      /\ m_sequence \in Seq(Update) /\ n \in Nat /\ update \in Update
      /\ TypeInv /\ Loopless
  <2>1. TypeInv /\ Loopless
    BY DEF IInv
  <2>2. m_sequence \in Seq(Update) /\ (pc = "idle" => ~m_rebuild)
    BY <2>1 DEF TypeInv
  <2>3. n \in Nat
    BY <2>2
  <2>4. pc = "idle" /\ source # target
    BY DEF handleInsertion
  <2>5. {source, target} \in Edge /\ update \in Update
    BY <2>4 DEF Edge, Update
  <2>6. QED
    BY <2>1, <2>2, <2>3, <2>4, <2>5
<1>2. update[1] /\ update[2] = source /\ update[3] = target
      /\ EdgeOf(update) = {source, target}
  BY DEF EdgeOf
<1> HIDE DEF update
<1>3. PICK seq : seq = Append(m_sequence, update)
  OBVIOUS
<1>4. /\ seq \in Seq(Update) /\ Len(seq) = n + 1 /\ seq[n + 1] = update /\ n + 1 \in 1..Len(seq)
      /\ (n + 1) - 1 = n
  BY <1>1, <1>3
<1>5. Legal(seq)
  BY <1>1, <1>2, <1>3, LegalLonger DEF IInv, SequenceInv
<1>6. Match(m_adj, seq, n)
  <2>1. handled = n /\ ~GivenUp
    BY <1>1 DEF handled, GivenUp
  <2>2. Match(m_adj, m_sequence, n)
    BY <2>1 DEF IInv, ListsInv
  <2>3. n \in 0..Len(m_sequence)
    BY <1>1
  <2> HIDE DEF n
  <2>4. QED
    BY <1>1, <1>3, <2>2, <2>3, MatchPrefix
<1>7. \A v \in Node : ~Above(v)
  BY <1>1 DEF IInv, BoundInv, GivenUp
<1>8. /\ insertArc(source, target) /\ replayed' = replayed /\ m_sequence' = seq
      /\ edges' = [edges EXCEPT ![{source, target}] = @ + 1]
  BY <1>3 DEF handleInsertion, record, update
<1>9. /\ m_adj' \in [Node -> Seq(Node)] /\ Match(m_adj', seq, n + 1) /\ Loopless'
      /\ m_reorientations_limit' \in Nat
      /\ m_cur_reorientations' <= m_reorientations_limit'
      /\ \/ pc' = "cascade" /\ S' \in Seq(Node) /\ StackInv'
         \/ pc' = caller /\ S' = S /\ \A v \in Node : ~Above(v)'
  <2> HIDE DEF n
  <2>1. seq[n + 1][1] /\ seq[n + 1][2] = source /\ seq[n + 1][3] = target
    BY <1>2, <1>4
  <2>2. Match(m_adj, seq, (n + 1) - 1)
    BY <1>4, <1>6
  <2>3. QED
    BY <1>1, <1>4, <1>5, <1>7, <1>8, <2>1, <2>2, InsertArc
<1>10. /\ m_rebuild' = m_rebuild /\ caller = "idle" /\ m_bound_arboricity' = m_bound_arboricity
       /\ m_cur_reorientations' = m_cur_reorientations
  BY <1>1, <1>8 DEF insertArc, caller
<1>11. TypeInv'
  <2>1. edges' \in [Edge -> Nat]
    <3>1. edges \in [Edge -> Nat]
      BY <1>1 DEF TypeInv
    <3>2. edges[{source, target}] + 1 \in Nat
      BY <1>1, <3>1
    <3>3. QED
      BY <1>8, <3>1, <3>2
  <2>2. pc' \in {"idle", "cascade"} /\ S' \in Seq(Node)
    BY <1>9, <1>10 DEF IInv, TypeInv
  <2>3. replayed' \in 0..Len(m_sequence') /\ m_sequence' \in Seq(Update)
    BY <1>1, <1>4, <1>8 DEF TypeInv
  <2>4. m_rebuild' \in BOOLEAN /\ ~m_rebuild'
    BY <1>1, <1>10 DEF TypeInv
  <2>5. m_bound_arboricity' \in Nat /\ m_cur_reorientations' \in Nat
    BY <1>1, <1>10 DEF TypeInv
  <2>6. QED
    BY <1>9, <2>1, <2>2, <2>3, <2>4, <2>5 DEF TypeInv
<1>12. SequenceInv'
  <2>1. ASSUME NEW e \in Edge
        PROVE  edges'[e] = CountedIn(seq, e, n + 1)
    <3>1. edges[e] = CountedIn(m_sequence, e, n) /\ edges[e] \in Nat
      BY <1>1 DEF IInv, SequenceInv, TypeInv
    <3>2. CountedIn(seq, e, n) = CountedIn(m_sequence, e, n)
      <4>1. n \in 0..Len(m_sequence)
        BY <1>1
      <4> HIDE DEF n
      <4>2. QED
        BY <1>1, <1>3, <4>1, CountedPrefix
    <3>3. CountedIn(seq, e, n + 1) = CountedIn(seq, e, (n + 1) - 1)
            + (IF EdgeOf(seq[n + 1]) # e THEN 0 ELSE IF seq[n + 1][1] THEN 1 ELSE -1)
      BY <1>4, CountedFacts
    <3>4. CASE e = {source, target}
      <4>1. edges'[e] = edges[e] + 1
        BY <1>8, <3>4 DEF IInv, TypeInv
      <4>2. CountedIn(seq, e, n + 1) = CountedIn(seq, e, n) + 1
        BY <1>2, <1>4, <3>3, <3>4
      <4>3. QED
        BY <3>1, <3>2, <4>1, <4>2
    <3>5. CASE e # {source, target}
      <4>1. edges'[e] = edges[e]
        BY <1>8, <3>5 DEF IInv, TypeInv
      <4>2. CountedIn(seq, e, n + 1) = CountedIn(seq, e, n) + 0
        BY <1>2, <1>4, <3>3, <3>5
      <4>3. QED
        BY <3>1, <3>2, <4>1, <4>2
    <3>6. QED
      BY <3>4, <3>5
  <2>2. QED
    BY <1>4, <1>5, <1>8, <2>1 DEF SequenceInv
<1>13. handled' = n + 1
  BY <1>1, <1>4, <1>8, <1>10 DEF handled
<1>14. ListsInv'
  BY <1>8, <1>9, <1>13 DEF ListsInv
<1>15. StackInv' /\ BoundInv'
  BY <1>9, <1>10 DEF StackInv, BoundInv
<1>16. QED
  BY <1>9, <1>11, <1>12, <1>14, <1>15 DEF IInv

LEMMA handleDeletionStep ==
  ASSUME IInv, NEW source \in Node, NEW target \in Node, handleDeletion(source, target)
  PROVE  IInv'
<1> DEFINE update == <<FALSE, source, target>>
           n == Len(m_sequence)
<1>1. /\ pc = "idle" /\ ~m_rebuild /\ source # target /\ {source, target} \in Edge
      /\ m_sequence \in Seq(Update) /\ n \in Nat /\ update \in Update
      /\ TypeInv /\ Loopless
  <2>1. TypeInv /\ Loopless
    BY DEF IInv
  <2>2. m_sequence \in Seq(Update) /\ (pc = "idle" => ~m_rebuild)
    BY <2>1 DEF TypeInv
  <2>3. n \in Nat
    BY <2>2
  <2>4. pc = "idle" /\ source # target
    BY DEF handleDeletion
  <2>5. {source, target} \in Edge /\ update \in Update
    BY <2>4 DEF Edge, Update
  <2>6. QED
    BY <2>1, <2>2, <2>3, <2>4, <2>5
<1>2. ~update[1] /\ update[2] = source /\ update[3] = target
      /\ EdgeOf(update) = {source, target}
  BY DEF EdgeOf
<1>3. CountedIn(m_sequence, {source, target}, n) > 0
  <2>1. edges[{source, target}] = CountedIn(m_sequence, {source, target}, n)
    BY <1>1 DEF IInv, SequenceInv
  <2>2. QED
    BY <2>1 DEF handleDeletion
<1> HIDE DEF update
<1>4. PICK seq : seq = Append(m_sequence, update)
  OBVIOUS
<1>5. /\ seq \in Seq(Update) /\ Len(seq) = n + 1 /\ seq[n + 1] = update /\ n + 1 \in 1..Len(seq)
      /\ (n + 1) - 1 = n
  BY <1>1, <1>4
<1>6. Legal(seq)
  BY <1>1, <1>2, <1>3, <1>4, LegalLonger DEF IInv, SequenceInv
<1>7. Match(m_adj, seq, n)
  <2>1. handled = n /\ ~GivenUp
    BY <1>1 DEF handled, GivenUp
  <2>2. Match(m_adj, m_sequence, n)
    BY <2>1 DEF IInv, ListsInv
  <2>3. n \in 0..Len(m_sequence)
    BY <1>1
  <2> HIDE DEF n
  <2>4. QED
    BY <1>1, <1>4, <2>2, <2>3, MatchPrefix
<1>8. \A v \in Node : ~Above(v)
  BY <1>1 DEF IInv, BoundInv, GivenUp
<1>9. /\ deleteArc(source, target) /\ replayed' = replayed /\ m_sequence' = seq
      /\ edges' = [edges EXCEPT ![{source, target}] = @ - 1]
  BY <1>4 DEF handleDeletion, record, update
<1>10. /\ m_adj' \in [Node -> Seq(Node)] /\ Match(m_adj', seq, n + 1) /\ Loopless'
       /\ pc' = caller /\ \A v \in Node : ~Above(v)'
  <2> HIDE DEF n
  <2>1. ~seq[n + 1][1] /\ seq[n + 1][2] = source /\ seq[n + 1][3] = target
    BY <1>2, <1>5
  <2>2. Match(m_adj, seq, (n + 1) - 1)
    BY <1>5, <1>7
  <2>3. QED
    BY <1>1, <1>5, <1>6, <1>8, <1>9, <2>1, <2>2, DeleteArc
<1>11. /\ m_rebuild' = m_rebuild /\ caller = "idle" /\ m_bound_arboricity' = m_bound_arboricity
       /\ m_cur_reorientations' = m_cur_reorientations
       /\ m_reorientations_limit' = m_reorientations_limit /\ S' = S
  BY <1>1, <1>9 DEF deleteArc, limits, caller
<1>12. TypeInv'
  <2>1. edges' \in [Edge -> Nat]
    <3>1. edges \in [Edge -> Nat]
      BY <1>1 DEF TypeInv
    <3>2. edges[{source, target}] - 1 \in Nat
      BY <1>1, <3>1 DEF handleDeletion
    <3>3. QED
      BY <1>9, <3>1, <3>2
  <2>2. pc' = "idle"
    BY <1>10, <1>11
  <2>3. replayed' \in 0..Len(m_sequence') /\ m_sequence' \in Seq(Update)
    BY <1>1, <1>5, <1>9 DEF TypeInv
  <2>4. m_rebuild' \in BOOLEAN /\ ~m_rebuild'
    BY <1>1, <1>11 DEF TypeInv
  <2>5. /\ m_bound_arboricity' \in Nat /\ m_cur_reorientations' \in Nat
        /\ m_reorientations_limit' \in Nat /\ m_cur_reorientations' <= m_reorientations_limit'
        /\ S' \in Seq(Node)
    BY <1>1, <1>11 DEF TypeInv
  <2>6. QED
    BY <1>10, <2>1, <2>2, <2>3, <2>4, <2>5 DEF TypeInv
<1>13. SequenceInv'
  <2>1. ASSUME NEW e \in Edge
        PROVE  edges'[e] = CountedIn(seq, e, n + 1)
    <3>1. edges[e] = CountedIn(m_sequence, e, n) /\ edges[e] \in Nat
      BY <1>1 DEF IInv, SequenceInv, TypeInv
    <3>2. CountedIn(seq, e, n) = CountedIn(m_sequence, e, n)
      <4>1. n \in 0..Len(m_sequence)
        BY <1>1
      <4> HIDE DEF n
      <4>2. QED
        BY <1>1, <1>4, <4>1, CountedPrefix
    <3>3. CountedIn(seq, e, n + 1) = CountedIn(seq, e, (n + 1) - 1)
            + (IF EdgeOf(seq[n + 1]) # e THEN 0 ELSE IF seq[n + 1][1] THEN 1 ELSE -1)
      BY <1>5, CountedFacts
    <3>4. CASE e = {source, target}
      <4>1. edges'[e] = edges[e] - 1
        BY <1>9, <3>4 DEF IInv, TypeInv
      <4>2. CountedIn(seq, e, n + 1) = CountedIn(seq, e, n) + (-1)
        BY <1>2, <1>5, <3>3, <3>4
      <4>3. QED
        BY <3>1, <3>2, <4>1, <4>2
    <3>5. CASE e # {source, target}
      <4>1. edges'[e] = edges[e]
        BY <1>9, <3>5 DEF IInv, TypeInv
      <4>2. CountedIn(seq, e, n + 1) = CountedIn(seq, e, n) + 0
        BY <1>2, <1>5, <3>3, <3>5
      <4>3. QED
        BY <3>1, <3>2, <4>1, <4>2
    <3>6. QED
      BY <3>4, <3>5
  <2>2. QED
    BY <1>5, <1>6, <1>9, <2>1 DEF SequenceInv
<1>14. handled' = n + 1
  BY <1>1, <1>5, <1>9, <1>11 DEF handled
<1>15. ListsInv'
  BY <1>9, <1>10, <1>14 DEF ListsInv
<1>16. StackInv' /\ BoundInv'
  BY <1>10, <1>11 DEF StackInv, BoundInv
<1>17. QED
  BY <1>10, <1>12, <1>13, <1>15, <1>16 DEF IInv

LEMMA replayStep == ASSUME IInv, replay PROVE IInv'
<1>1. /\ TypeInv /\ SequenceInv /\ Loopless /\ m_sequence \in Seq(Update) /\ Len(m_sequence) \in Nat
      /\ pc = "replay" /\ m_rebuild /\ ~GivenUp /\ replayed < Len(m_sequence)
      /\ m_sequence' = m_sequence /\ edges' = edges /\ replayed' = replayed + 1
      /\ replayed \in 0..Len(m_sequence)
  <2>1. TypeInv /\ SequenceInv /\ Loopless
    BY DEF IInv
  <2>2. m_sequence \in Seq(Update) /\ (pc = "replay" => m_rebuild) /\ replayed \in 0..Len(m_sequence)
    BY <2>1 DEF TypeInv
  <2>3. Len(m_sequence) \in Nat
    BY <2>2
  <2>4. QED
    BY <2>1, <2>2, <2>3 DEF replay, GivenUp
<1>2. PICK k : k = replayed + 1
  OBVIOUS
<1>3. k \in 1..Len(m_sequence) /\ k - 1 = replayed /\ k \in 0..Len(m_sequence)
  BY <1>1, <1>2
<1>4. PICK source \in Node, target \in Node : source = m_sequence[k][2] /\ target = m_sequence[k][3]
  <2>1. m_sequence[k] \in Update
    BY <1>1, <1>3
  <2>2. QED
    BY <2>1 DEF Update
<1>5. Match(m_adj, m_sequence, k - 1)
  <2>1. handled = k - 1
    BY <1>1, <1>3 DEF handled
  <2>2. QED
    BY <1>1, <2>1 DEF IInv, ListsInv
<1>6. \A v \in Node : ~Above(v)
  BY <1>1 DEF IInv, BoundInv
<1>7. Legal(m_sequence)
  BY <1>1 DEF SequenceInv
<1>8. CASE m_sequence[k][1]
  <2>1. insertArc(source, target)
    BY <1>2, <1>4, <1>8 DEF replay
  <2>2. /\ m_adj' \in [Node -> Seq(Node)] /\ Match(m_adj', m_sequence, k) /\ Loopless'
        /\ m_reorientations_limit' \in Nat
        /\ m_cur_reorientations' <= m_reorientations_limit'
        /\ \/ pc' = "cascade" /\ S' \in Seq(Node) /\ StackInv'
           \/ pc' = caller /\ S' = S /\ \A v \in Node : ~Above(v)'
    BY <1>1, <1>3, <1>4, <1>5, <1>6, <1>7, <1>8, <2>1, InsertArc
  <2>3. /\ m_rebuild' = m_rebuild /\ caller = "replay"
        /\ m_bound_arboricity' = m_bound_arboricity
        /\ m_cur_reorientations' = m_cur_reorientations
    BY <1>1, <2>1 DEF insertArc, caller
  <2>4. TypeInv'
    <3>1. pc' \in {"cascade", "replay"} /\ S' \in Seq(Node)
      BY <1>1, <2>2, <2>3 DEF TypeInv
    <3>2. replayed' \in 0..Len(m_sequence') /\ m_sequence' \in Seq(Update)
      BY <1>1, <1>2, <1>3
    <3>3. m_rebuild' \in BOOLEAN /\ m_rebuild'
      BY <1>1, <2>3 DEF TypeInv
    <3>4. m_bound_arboricity' \in Nat /\ m_cur_reorientations' \in Nat
          /\ edges' \in [Edge -> Nat]
      BY <1>1, <2>3 DEF TypeInv
    <3>5. QED
      BY <2>2, <3>1, <3>2, <3>3, <3>4 DEF TypeInv
  <2>5. handled' = k
    BY <1>1, <1>2, <2>3 DEF handled
  <2>6. ListsInv'
    BY <1>1, <2>2, <2>5 DEF ListsInv
  <2>7. StackInv' /\ BoundInv'
    BY <2>2, <2>3 DEF StackInv, BoundInv
  <2>8. SequenceInv'
    BY <1>1 DEF SequenceInv
  <2>9. QED
    BY <2>2, <2>4, <2>6, <2>7, <2>8 DEF IInv
<1>9. CASE ~m_sequence[k][1]
  <2>1. deleteArc(source, target)
    BY <1>2, <1>4, <1>9 DEF replay
  <2>2. /\ m_adj' \in [Node -> Seq(Node)] /\ Match(m_adj', m_sequence, k) /\ Loopless'
        /\ pc' = caller /\ \A v \in Node : ~Above(v)'
    BY <1>1, <1>3, <1>4, <1>5, <1>6, <1>7, <1>9, <2>1, DeleteArc
  <2>3. /\ m_rebuild' = m_rebuild /\ caller = "replay"
        /\ m_bound_arboricity' = m_bound_arboricity
        /\ m_cur_reorientations' = m_cur_reorientations
        /\ m_reorientations_limit' = m_reorientations_limit /\ S' = S
    BY <1>1, <2>1 DEF deleteArc, limits, caller
  <2>4. TypeInv'
    <3>1. pc' = "replay"
      BY <2>2, <2>3
    <3>2. replayed' \in 0..Len(m_sequence') /\ m_sequence' \in Seq(Update)
      BY <1>1, <1>2, <1>3
    <3>3. m_rebuild' \in BOOLEAN /\ m_rebuild'
      BY <1>1, <2>3 DEF TypeInv
    <3>4. /\ m_bound_arboricity' \in Nat /\ m_cur_reorientations' \in Nat
          /\ m_reorientations_limit' \in Nat /\ m_cur_reorientations' <= m_reorientations_limit'
          /\ S' \in Seq(Node) /\ edges' \in [Edge -> Nat]
      BY <1>1, <2>3 DEF TypeInv
    <3>5. QED
      BY <2>2, <3>1, <3>2, <3>3, <3>4 DEF TypeInv
  <2>5. handled' = k
    BY <1>1, <1>2, <2>3 DEF handled
  <2>6. ListsInv'
    BY <1>1, <2>2, <2>5 DEF ListsInv
  <2>7. StackInv' /\ BoundInv'
    BY <2>2, <2>3 DEF StackInv, BoundInv
  <2>8. SequenceInv'
    BY <1>1 DEF SequenceInv
  <2>9. QED
    BY <2>2, <2>4, <2>6, <2>7, <2>8 DEF IInv
<1>10. QED
  BY <1>8, <1>9

\* Turning all arcs of a node moves each from one list to another.
Turned(w) == [Received(w, Len(m_adj[w])) EXCEPT ![w] = <<>>]

LEMMA TurnedArcs ==
  ASSUME Loopless, NEW w \in Node
  PROVE  /\ Turned(w) \in [Node -> Seq(Node)]
         /\ \A v \in Node : Copies(Turned(w)[v], v) = 0
         /\ \A u, v \in Node : u # v => Arcs(Turned(w), u, v) = Arcs(m_adj, u, v)
<1> PICK n : n = Len(m_adj[w])
  OBVIOUS
<1> PICK adj2 : adj2 = Turned(w)
  OBVIOUS
<1>0. adj2 = [Received(w, n) EXCEPT ![w] = <<>>]
  BY DEF Turned
<1>1. n \in Nat /\ n \in 0..Len(m_adj[w])
  BY DEF Loopless
<1>2. Received(w, n) \in [Node -> Seq(Node)]
  BY <1>1, ReceivedFacts
<1>3. <<>> \in Seq(Node)
  OBVIOUS
<1>4. adj2[w] = <<>> /\ \A v \in Node : v # w => adj2[v] = Received(w, n)[v]
  BY <1>0, <1>2
<1>5. adj2 \in [Node -> Seq(Node)]
  BY <1>0, <1>2, <1>3
<1>6. \A y : Copies(adj2[w], y) = 0
  BY <1>4, CopiesOfEmpty, Zenon
<1>7. ASSUME NEW x \in Node, x # w
      PROVE  \A y : Copies(adj2[x], y) = Copies(m_adj[x], y)
                                           + (IF y = w THEN Copies(m_adj[w], x) ELSE 0)
  <2>1. Given(w, n, x) = Copies(m_adj[w], x)
    BY GivenFacts
  <2>2. \A y : Copies(Received(w, n)[x], y) =
                 Copies(m_adj[x], y) + (IF y = w THEN Given(w, n, x) ELSE 0)
    BY <1>1, ReceivedFacts
  <2>3. QED
    BY <1>4, <1>7, <2>1, <2>2
<1>8. ASSUME NEW x \in Node, NEW y
      PROVE  Copies(m_adj[x], y) \in Nat
  <2>1. m_adj[x] \in Seq(Node)
    BY DEF Loopless
  <2>2. QED
    BY <2>1, CopiesType
<1>9. ASSUME NEW x \in Node, NEW y \in Node, x # w, y # w
      PROVE  Copies(adj2[x], y) = Copies(m_adj[x], y)
  <2>1. Copies(adj2[x], y) = Copies(m_adj[x], y) + 0
    BY <1>7, <1>9
  <2>2. PICK n2 \in Nat : n2 = Copies(m_adj[x], y)
    BY <1>8
  <2>3. n2 + 0 = n2
    OBVIOUS
  <2>4. QED
    BY <2>1, <2>2, <2>3, Zenon
<1>10. ASSUME NEW v \in Node PROVE Copies(adj2[v], v) = 0
  BY <1>6, <1>9 DEF Loopless
<1>11. ASSUME NEW u \in Node, NEW v \in Node, u # v
       PROVE  Arcs(adj2, u, v) = Arcs(m_adj, u, v)
  <2>1. CASE u # w /\ v # w
    BY <1>9, <2>1 DEF Arcs
  <2>2. CASE u = w
    <3>1. Copies(adj2[u], v) = 0 /\ Copies(adj2[v], u) = Copies(m_adj[v], u) + Copies(m_adj[u], v)
      BY <1>6, <1>7, <1>11, <2>2
    <3>2. Copies(m_adj[v], u) \in Nat /\ Copies(m_adj[u], v) \in Nat
      BY <1>8
    <3>3. QED
      BY <3>1, <3>2 DEF Arcs
  <2>3. CASE v = w
    <3>1. Copies(adj2[v], u) = 0 /\ Copies(adj2[u], v) = Copies(m_adj[u], v) + Copies(m_adj[v], u)
      BY <1>6, <1>7, <1>11, <2>3
    <3>2. Copies(m_adj[v], u) \in Nat /\ Copies(m_adj[u], v) \in Nat
      BY <1>8
    <3>3. QED
      BY <3>1, <3>2 DEF Arcs
  <2>4. QED
    BY <2>1, <2>2, <2>3
<1>12. QED
  BY <1>5, <1>10, <1>11

\* The node popped is above the bound, so its arcs are turned; the nodes this brings
\* above the bound are put on the stack.
LEMMA turnNodeStep == ASSUME IInv, turnNode PROVE IInv'
<1>1. /\ TypeInv /\ Loopless /\ SequenceInv /\ pc = "cascade" /\ S # <<>>
      /\ S \in Seq(Node) /\ Distinct(S) /\ (\A v \in Node : Holds(S, v) <=> Above(v))
      /\ m_bound_arboricity \in Nat /\ m_adj \in [Node -> Seq(Node)]
  BY DEF IInv, TypeInv, turnNode, StackInv
<1>2. PICK w : w = top
  OBVIOUS
<1>3. PICK rest : rest = Tail(S)
  OBVIOUS
<1>4. /\ w \in Node /\ Holds(S, w) /\ rest \in Seq(Node) /\ Distinct(rest) /\ ~Holds(rest, w)
      /\ \A x : Holds(S, x) <=> x = w \/ Holds(rest, x)
  BY <1>1, <1>2, <1>3, TailFacts DEF top
<1>5. PICK n : n = Len(m_adj[w])
  OBVIOUS
<1>6. n \in Nat /\ n > m_bound_arboricity /\ n \in 0..Len(m_adj[w])
  BY <1>1, <1>4, <1>5 DEF Above
<1>7. PICK pushed : pushed = Exceeding(w, n)
  OBVIOUS
<1>8. /\ fits /\ m_adj' = [Received(w, n) EXCEPT ![w] = <<>>]
      /\ S' = OnTop(pushed, rest) /\ m_cur_reorientations' = m_cur_reorientations + n
  BY <1>2, <1>3, <1>5, <1>6, <1>7 DEF turnNode, turnAll, topDegree
<1>9. /\ edges' = edges /\ m_sequence' = m_sequence /\ m_bound_arboricity' = m_bound_arboricity
      /\ m_reorientations_limit' = m_reorientations_limit /\ m_rebuild' = m_rebuild
      /\ pc' = pc /\ replayed' = replayed
  BY DEF turnNode
<1>10. /\ pushed \in Seq(Node) /\ Distinct(pushed)
       /\ \A x : Holds(pushed, x) => /\ x # w /\ Len(m_adj[x]) <= m_bound_arboricity
                                     /\ Len(Received(w, n)[x]) > m_bound_arboricity
       /\ \A x \in Node : /\ Len(m_adj[x]) <= m_bound_arboricity
                          /\ Len(Received(w, n)[x]) > m_bound_arboricity
                          => Holds(pushed, x)
  BY <1>1, <1>4, <1>5, <1>7, ExceedingFacts
<1>11. \A x \in Node : Len(Received(w, n)[x]) = Len(m_adj[x]) + Given(w, n, x)
                       /\ Given(w, n, x) \in Nat /\ Len(m_adj[x]) \in Nat
  <2>1. \A x \in Node : Given(w, n, x) \in Nat
    BY <1>1, <1>4, <1>6, GivenFacts
  <2>2. QED
    BY <1>1, <1>4, <1>6, <2>1, ReceivedFacts
<1>12. ASSUME NEW x, Holds(pushed, x), Holds(rest, x)
       PROVE  FALSE
  <2>1. x \in Node /\ Above(x)
    <3>1. x \in Node
      BY <1>4, <1>12 DEF Holds
    <3>2. QED
      BY <1>1, <1>4, <1>12, <3>1
  <2>2. QED
    BY <1>1, <1>10, <1>11, <1>12, <2>1 DEF Above
<1>13. PICK new : new = S'
  OBVIOUS
<1>14. /\ new \in Seq(Node) /\ Distinct(new)
       /\ \A x : Holds(new, x) <=> Holds(pushed, x) \/ Holds(rest, x)
  BY <1>4, <1>8, <1>10, <1>12, <1>13, OnTopFacts
<1>15. PICK adj2 : adj2 = m_adj'
  OBVIOUS
<1>16. /\ adj2 \in [Node -> Seq(Node)]
       /\ \A v \in Node : Copies(adj2[v], v) = 0
       /\ \A u, v \in Node : u # v => Arcs(adj2, u, v) = Arcs(m_adj, u, v)
  <2>1. adj2 = Turned(w)
    BY <1>5, <1>8, <1>15 DEF Turned
  <2>2. QED
    BY <1>1, <1>4, <2>1, TurnedArcs
<1>17. TypeInv'
  <2>1. m_cur_reorientations' \in Nat /\ m_cur_reorientations' <= m_reorientations_limit'
    <3>1. m_cur_reorientations + n <= m_reorientations_limit
      BY <1>2, <1>5, <1>8 DEF fits, topDegree
    <3>2. m_cur_reorientations + n \in Nat
      BY <1>1, <1>6 DEF TypeInv
    <3>3. QED
      BY <1>8, <1>9, <3>1, <3>2
  <2>2. m_adj' \in [Node -> Seq(Node)] /\ S' \in Seq(Node)
    BY <1>13, <1>14, <1>15, <1>16
  <2>3. QED
    BY <1>1, <1>9, <2>1, <2>2 DEF TypeInv
<1>18. SequenceInv' /\ Loopless'
  BY <1>1, <1>9, <1>15, <1>16 DEF SequenceInv, Loopless
<1>19. StackInv'
  <2>1. ASSUME NEW x \in Node
        PROVE  Holds(new, x) <=> Above(x)'
    <3>1. CASE x = w
      <4>1. m_adj'[x] = <<>>
        <5>1. Received(w, n) \in [Node -> Seq(Node)]
          BY <1>1, <1>4, <1>6, ReceivedFacts
        <5>2. QED
          BY <1>8, <3>1, <5>1
      <4>2. ~Above(x)'
        BY <1>1, <1>9, <4>1 DEF Above
      <4>3. QED
        BY <1>4, <1>10, <1>14, <3>1, <4>2
    <3>2. CASE x # w
      <4>1. m_adj'[x] = Received(w, n)[x]
        BY <1>8, <1>1, <1>4, <1>6, <3>2, ReceivedFacts
      <4>2. Above(x)' <=> Len(Received(w, n)[x]) > m_bound_arboricity
        BY <1>9, <4>1 DEF Above
      <4>3. Holds(rest, x) <=> Above(x)
        BY <1>1, <1>4, <3>2
      <4>4. CASE Above(x)
        <5>1. Len(Received(w, n)[x]) > m_bound_arboricity
          BY <1>1, <1>11, <4>4 DEF Above
        <5>2. QED
          BY <1>14, <4>2, <4>3, <4>4, <5>1
      <4>5. CASE ~Above(x)
        <5>1. Len(m_adj[x]) <= m_bound_arboricity
          BY <1>1, <1>11, <4>5 DEF Above
        <5>2. Holds(pushed, x) <=> Len(Received(w, n)[x]) > m_bound_arboricity
          BY <1>10, <5>1
        <5>3. QED
          BY <1>14, <4>2, <4>3, <4>5, <5>2
      <4>6. QED
        BY <4>4, <4>5
    <3>3. QED
      BY <3>1, <3>2
  <2>2. QED
    BY <1>13, <1>14, <2>1 DEF StackInv
<1>20. BoundInv'
  BY <1>1, <1>9 DEF BoundInv
<1>21. ListsInv'
  <2>1. Match(m_adj, m_sequence, handled)
    BY <1>1 DEF IInv, ListsInv, GivenUp
  <2>2. Match(adj2, m_sequence, handled)
    BY <1>16, <2>1 DEF Match
  <2>3. handled' = handled
    BY <1>9 DEF handled
  <2>4. QED
    BY <1>9, <1>15, <2>2, <2>3 DEF ListsInv
<1>22. QED
  BY <1>17, <1>18, <1>19, <1>20, <1>21 DEF IInv

LEMMA abandonStep == ASSUME IInv, abandon PROVE IInv'
<1>1. /\ TypeInv /\ Loopless /\ SequenceInv /\ pc = "cascade" /\ S # <<>>
      /\ S \in Seq(Node) /\ Distinct(S) /\ m_adj \in [Node -> Seq(Node)]
      /\ UNCHANGED <<edges, m_sequence>>
  BY DEF IInv, TypeInv, abandon, StackInv
<1>2. CASE ~m_rebuild
  BY <1>1, <1>2, BeginRebuild DEF abandon
<1>3. CASE m_rebuild
  <2>1. PICK w : w = top
    OBVIOUS
  <2>2. w \in Node
    BY <1>1, <2>1, TailFacts DEF top
  <2>3. PICK count : count = m_reorientations_limit - m_cur_reorientations + 1
    OBVIOUS
  <2>4. count \in 0..Len(m_adj[w])
    <3>1. PICK n \in Nat, limit \in Nat, cur \in Nat :
            /\ n = Len(m_adj[w]) /\ limit = m_reorientations_limit
            /\ cur = m_cur_reorientations /\ cur <= limit
      BY <1>1, <2>2 DEF TypeInv
    <3>2. ~(cur + n <= limit)
      BY <2>1, <3>1 DEF abandon, fits, topDegree
    <3>3. QED
      BY <2>3, <3>1, <3>2
  <2>5. /\ m_adj' = Received(w, count) /\ m_cur_reorientations' = m_reorientations_limit
        /\ pc' = "replay" /\ S' = <<>> /\ m_bound_arboricity' = m_bound_arboricity
        /\ m_reorientations_limit' = m_reorientations_limit /\ m_rebuild' = m_rebuild
        /\ replayed' = replayed
    BY <1>3, <2>1, <2>3 DEF abandon, giveUp
  <2>6. m_adj' \in [Node -> Seq(Node)]
    BY <1>1, <2>2, <2>4, <2>5, ReceivedFacts
  <2>7. ASSUME NEW x \in Node PROVE Copies(m_adj'[x], x) = 0
    <3>1. Copies(Received(w, count)[x], x) =
            Copies(m_adj[x], x) + (IF x = w THEN Given(w, count, x) ELSE 0)
      BY <1>1, <2>2, <2>4, ReceivedFacts
    <3>2. Copies(m_adj[x], x) = 0
      BY <1>1 DEF Loopless
    <3>3. x = w => Given(w, count, x) = 0
      <4> SUFFICES ASSUME x = w PROVE Given(w, count, w) = 0
        OBVIOUS
      <4>1. PICK n : n = Len(m_adj[w])
        OBVIOUS
      <4>2. n \in Nat /\ n \in 0..n /\ count \in 0..n /\ count <= n
        BY <1>1, <2>2, <2>4, <4>1
      <4>3. /\ Given(w, n, w) = Copies(m_adj[w], w)
            /\ Given(w, count, w) \in Nat /\ Given(w, count, w) <= Given(w, n, w)
        BY <1>1, <2>2, <4>1, <4>2, GivenFacts
      <4>4. QED
        BY <3>2, <4>3
    <3>4. QED
      BY <2>5, <3>1, <3>2, <3>3
  <2>8. Loopless'
    BY <2>6, <2>7 DEF Loopless
  <2>9. TypeInv'
    <3>1. S' \in Seq(Node)
      BY <2>5
    <3>2. /\ m_cur_reorientations' \in Nat /\ m_reorientations_limit' \in Nat
          /\ m_cur_reorientations' <= m_reorientations_limit'
      BY <1>1, <2>5 DEF TypeInv
    <3>3. QED
      BY <1>1, <1>3, <2>5, <2>6, <3>1, <3>2 DEF TypeInv
  <2>10. SequenceInv'
    BY <1>1 DEF SequenceInv
  <2>11. GivenUp'
    <3>1. exhausted'
      BY <1>1, <2>5 DEF TypeInv, exhausted
    <3>2. QED
      BY <2>5, <3>1 DEF GivenUp
  <2>12. StackInv' /\ BoundInv' /\ ListsInv'
    BY <2>5, <2>11 DEF StackInv, BoundInv, ListsInv
  <2>13. QED
    BY <2>8, <2>9, <2>10, <2>12 DEF IInv
<1>4. QED
  BY <1>2, <1>3

LEMMA cascadeEndsStep == ASSUME IInv, cascadeEnds PROVE IInv'
<1>1. /\ TypeInv /\ Loopless /\ SequenceInv /\ pc = "cascade" /\ S = <<>>
      /\ (\A v \in Node : Holds(S, v) <=> Above(v)) /\ Match(m_adj, m_sequence, handled)
  BY DEF IInv, cascadeEnds, StackInv, ListsInv, GivenUp
<1>2. /\ edges' = edges /\ m_adj' = m_adj /\ m_sequence' = m_sequence
      /\ m_bound_arboricity' = m_bound_arboricity
      /\ m_reorientations_limit' = m_reorientations_limit
      /\ m_cur_reorientations' = m_cur_reorientations
      /\ m_rebuild' = m_rebuild /\ S' = S /\ replayed' = replayed /\ pc' = caller
  BY DEF cascadeEnds, limits
<1>3. \A v \in Node : ~Above(v)'
  <2>1. \A v : ~Holds(S, v)
    BY <1>1 DEF Holds
  <2>2. QED
    BY <1>1, <1>2, <2>1 DEF Above
<1>4. TypeInv'
  <2>1. pc' \in {"idle", "replay"} /\ (pc' = "replay" => m_rebuild) /\ (pc' = "idle" => ~m_rebuild)
    BY <1>2 DEF caller
  <2>2. QED
    BY <1>1, <1>2, <2>1 DEF TypeInv
<1>5. handled' = handled
  BY <1>2 DEF handled
<1>6. SequenceInv' /\ Loopless' /\ ListsInv' /\ BoundInv'
  BY <1>1, <1>2, <1>3, <1>5 DEF SequenceInv, Loopless, ListsInv, BoundInv
<1>7. StackInv'
  BY <1>2 DEF StackInv, caller
<1>8. QED
  BY <1>4, <1>6, <1>7 DEF IInv

\* When the replay is through, the lists have been through the whole sequence.
LEMMA rebuiltStep == ASSUME IInv, rebuilt PROVE IInv'
<1>1. /\ TypeInv /\ Loopless /\ SequenceInv /\ pc = "replay" /\ m_rebuild /\ ~GivenUp
      /\ (\A v \in Node : ~Above(v)) /\ Match(m_adj, m_sequence, replayed)
      /\ replayed = Len(m_sequence)
  BY DEF IInv, rebuilt, BoundInv, ListsInv, GivenUp, TypeInv, handled
<1>2. /\ edges' = edges /\ m_adj' = m_adj /\ m_sequence' = m_sequence
      /\ m_bound_arboricity' = m_bound_arboricity
      /\ m_reorientations_limit' = m_reorientations_limit
      /\ m_cur_reorientations' = m_cur_reorientations
      /\ ~m_rebuild' /\ m_rebuild' \in BOOLEAN /\ S' = S /\ replayed' = replayed /\ pc' = "idle"
  BY DEF rebuilt, limits
<1>3. TypeInv'
  BY <1>1, <1>2 DEF TypeInv
<1>4. handled' = replayed
  BY <1>1, <1>2 DEF handled
<1>5. SequenceInv' /\ Loopless' /\ ListsInv' /\ BoundInv'
  BY <1>1, <1>2, <1>4 DEF SequenceInv, Loopless, ListsInv, BoundInv, Above
<1>6. StackInv'
  BY <1>2 DEF StackInv
<1>7. QED
  BY <1>3, <1>5, <1>6 DEF IInv

LEMMA NextIInv == IInv /\ [Next]_vars => IInv'
<1> SUFFICES ASSUME IInv, [Next]_vars PROVE IInv'
  OBVIOUS
<1>1. CASE turnNode
  BY <1>1, turnNodeStep
<1>2. CASE abandon
  BY <1>2, abandonStep
<1>3. CASE cascadeEnds
  BY <1>3, cascadeEndsStep
<1>4. CASE replay
  BY <1>4, replayStep
<1>5. CASE rebuildAgain
  BY <1>5, BeginRebuild DEF rebuildAgain, IInv
<1>6. CASE rebuilt
  BY <1>6, rebuiltStep
<1>7. ASSUME NEW source \in Node, NEW target \in Node,
             handleInsertion(source, target) \/ handleDeletion(source, target)
      PROVE  IInv'
  BY <1>7, handleInsertionStep, handleDeletionStep
<1>8. CASE UNCHANGED vars
  BY <1>8 DEF IInv, TypeInv, SequenceInv, Loopless, StackInv, BoundInv, ListsInv, vars, limits,
              control, GivenUp, exhausted, handled, Above
<1>9. QED
  BY <1>1, <1>2, <1>3, <1>4, <1>5, <1>6, <1>7, <1>8 DEF Next, handlerStep

LEMMA SpecIInv == Spec => []IInv
BY InitIInv, NextIInv, PTL DEF Spec

(****************************************************************************)
(* The theorems.                                                            *)
(****************************************************************************)
LEMMA CountedAfter == \A e, k : CopiesAfter(e, k) = CountedIn(m_sequence, e, k)
BY DEF CopiesAfter, CountedIn

\* Whenever a handler has returned, also after cascades that were abandoned and any
\* number of replays, every copy of an edge is in the lists in one direction, but for
\* those that went with another when it was deleted, and no list is longer than the
\* bound (brodalfagerberg, rebuild).
THEOREM AlwaysBounded == Spec => []BoundedOrientation
<1>1. IInv => BoundedOrientation
  <2> SUFFICES ASSUME IInv, pc = "idle"
               PROVE  /\ \A u, v \in Node : u # v =>
                           LET arcs == Copies(m_adj[u], v) + Copies(m_adj[v], u)
                           IN  /\ arcs <= edges[{u, v}]
                               /\ arcs < edges[{u, v}] => DeletedBeside({u, v})
                      /\ \A v \in Node : /\ Copies(m_adj[v], v) = 0
                                         /\ Len(m_adj[v]) <= m_bound_arboricity
    BY DEF BoundedOrientation
  <2>1. ~m_rebuild /\ handled = Len(m_sequence) /\ ~GivenUp
    BY DEF IInv, TypeInv, handled, GivenUp
  <2>2. Match(m_adj, m_sequence, Len(m_sequence)) /\ \A v \in Node : ~Above(v)
    BY <2>1 DEF IInv, ListsInv, BoundInv
  <2>3. ASSUME NEW u \in Node, NEW v \in Node, u # v
        PROVE  /\ Copies(m_adj[u], v) + Copies(m_adj[v], u) <= edges[{u, v}]
               /\ Copies(m_adj[u], v) + Copies(m_adj[v], u) < edges[{u, v}]
                    => DeletedBeside({u, v})
    <3>1. edges[{u, v}] = CountedIn(m_sequence, {u, v}, Len(m_sequence))
      <4>1. {u, v} \in Edge
        BY <2>3 DEF Edge
      <4>2. QED
        BY <4>1 DEF IInv, SequenceInv
    <3>2. DeletedBesideIn(m_sequence, {u, v}, Len(m_sequence)) => DeletedBeside({u, v})
      BY CountedAfter DEF DeletedBesideIn, DeletedBeside
    <3>3. QED
      BY <2>2, <2>3, <3>1, <3>2 DEF Match, Arcs
  <2>4. ASSUME NEW v \in Node
        PROVE  Copies(m_adj[v], v) = 0 /\ Len(m_adj[v]) <= m_bound_arboricity
    BY <2>2 DEF IInv, TypeInv, Loopless, Above
  <2>5. QED
    BY <2>3, <2>4
<1>2. QED
  BY <1>1, SpecIInv, PTL

\* Every node on the stack of a cascade is above the bound until its turn comes, it is
\* there once, and no more edges have been turned than the limit allows.
THEOREM StackAlwaysAbove == Spec => []StackAboveBound
<1>1. IInv => StackAboveBound
  <2> SUFFICES ASSUME IInv, pc = "cascade"
               PROVE  /\ m_cur_reorientations <= m_reorientations_limit
                      /\ \A i \in 1..Len(S) : Len(m_adj[S[i]]) > m_bound_arboricity
                      /\ \A i, j \in 1..Len(S) : S[i] = S[j] => i = j
    BY DEF StackAboveBound
  <2>1. m_cur_reorientations <= m_reorientations_limit /\ S \in Seq(Node)
    BY DEF IInv, TypeInv
  <2>2. Distinct(S) /\ \A v \in Node : Holds(S, v) <=> Above(v)
    BY DEF IInv, StackInv
  <2>3. ASSUME NEW i \in 1..Len(S)
        PROVE  Len(m_adj[S[i]]) > m_bound_arboricity
    <3>1. S[i] \in Node /\ Holds(S, S[i])
      BY <2>1 DEF Holds
    <3>2. QED
      BY <2>2, <3>1 DEF Above
  <2>4. QED
    BY <2>1, <2>2, <2>3 DEF Distinct
<1>2. QED
  BY <1>1, SpecIInv, PTL
=============================================================================
