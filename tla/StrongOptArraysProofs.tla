------------------------ MODULE StrongOptArraysProofs ------------------------
(****************************************************************************)
(* Theorems about module StrongOptArrays, for every finite set of nodes and *)
(* any number of parallel edges.                                            *)
(****************************************************************************)
EXTENDS StrongOptArrays, AdjacencyListsProofs

(****************************************************************************)
(* The local definitions of expand.                                         *)
(****************************************************************************)
At(i) == m_adj[Head(bfsqueue)][i].first

Fresh == {i \in scanned(Head(bfsqueue)) :
            /\ unfound(At(i)) /\ admitted(At(i))
            /\ \A j \in scanned(Head(bfsqueue)) : j < i => At(j) # At(i)}

Final == {i \in Fresh : ends(At(i))}

Taken == {i \in Fresh : \A j \in Final : i <= j}

Order == InOrder(Taken)

Found == {At(i) : i \in Taken}

Over(v) == CHOOSE i \in Taken : At(i) = v

LEMMA ExpandNamed ==
  ASSUME expand
  PROVE  /\ pc = "search" /\ bfsqueue # <<>>
         /\ visited' = visited \cup Found /\ touched' = touched \cup Found
         /\ m_parent' = [v \in Node |-> IF v \in Found THEN <<Head(bfsqueue), Over(v)>>
                                                       ELSE m_parent[v]]
         /\ IF Final = {}
              THEN /\ bfsqueue' = enqueued([k \in 1..Cardinality(Taken) |-> At(Order[k])])
                   /\ UNCHANGED <<pc, curNode>>
              ELSE /\ bfsqueue' = <<>>
                   /\ pc' = "trace" /\ curNode' = At(Order[Cardinality(Taken)])
         /\ pc' \in {"search", "trace"}
         /\ UNCHANGED <<edges, lists, direction, m_max_degree, path, returned>>
<1>1. /\ pc = "search" /\ bfsqueue # <<>>
      /\ visited' = visited \cup Found /\ touched' = touched \cup Found
      /\ m_parent' = [v \in Node |-> IF v \in Found THEN <<Head(bfsqueue), Over(v)>>
                                                    ELSE m_parent[v]]
      /\ IF Final = {}
           THEN /\ bfsqueue' = enqueued([k \in 1..Cardinality(Taken) |-> At(Order[k])])
                /\ UNCHANGED <<pc, curNode>>
           ELSE /\ bfsqueue' = <<>>
                /\ pc' = "trace" /\ curNode' = At(Order[Cardinality(Taken)])
      /\ UNCHANGED <<edges, lists, direction, m_max_degree, path, returned>>
  BY Zenon DEF expand, At, Fresh, Final, Taken, Order, Found, Over
<1>2. QED
  BY <1>1

(****************************************************************************)
(* What a search leaves behind.                                             *)
(****************************************************************************)

\* The nodes to reset are those that have been found, and the others have no parent.
SearchMarks ==
  /\ touched = visited
  /\ m_parent = [v \in Node |-> m_parent[v]]
  /\ \A v \in Node \ visited : m_parent[v] = Cleared
  /\ pc = "idle" => visited = {}

LEMMA SearchMarksInitially == Init => SearchMarks
BY DEF Init, SearchMarks, Cleared

LEMMA SearchMarksStart ==
  ASSUME SearchMarks, pc = "idle", NEW dir, NEW source \in Node, NEW bound,
         startSearch(dir, source, bound)
  PROVE  SearchMarks'
<1>1. touched' = {source} /\ visited' = {source} /\ pc' = "search"
  BY DEF SearchMarks, startSearch
<1>2. m_parent' = [m_parent EXCEPT ![source] = <<source, 0>>]
  BY DEF startSearch
<1>3. m_parent' = [v \in Node |-> m_parent'[v]]
  BY <1>2 DEF SearchMarks
<1>4. \A v \in Node \ {source} : m_parent'[v] = Cleared
  BY <1>2 DEF SearchMarks
<1>5. QED
  BY <1>1, <1>3, <1>4 DEF SearchMarks

LEMMA SearchMarksStep == SearchMarks /\ [Next]_vars => SearchMarks'
<1> SUFFICES ASSUME SearchMarks, [Next]_vars PROVE SearchMarks'
  OBVIOUS
<1>1. ASSUME NEW source \in Node, NEW target \in Node, handleInsertion(source, target)
      PROVE  SearchMarks'
  BY <1>1, SearchMarksStart DEF handleInsertion, insertArc
<1>2. ASSUME NEW source \in Node, NEW target \in Node, handleDeletion(source, target)
      PROVE  SearchMarks'
  <2>1. PICK node, bound : node \in Node /\ startSearch("backward", node, bound)
    BY <1>2 DEF handleDeletion
  <2>2. QED
    BY <1>2, <2>1, SearchMarksStart DEF handleDeletion
<1>3. CASE expand
  <2>1. /\ visited' = visited \cup Found /\ touched' = touched \cup Found
        /\ m_parent' = [v \in Node |-> IF v \in Found THEN <<Head(bfsqueue), Over(v)>>
                                                      ELSE m_parent[v]]
        /\ pc = "search" /\ pc' \in {"search", "trace"}
    BY <1>3, ExpandNamed
  <2>2. QED
    BY <2>1 DEF SearchMarks
<1>4. CASE trace
  BY <1>4 DEF trace, walkBack, SearchMarks
<1>5. CASE flip
  BY <1>5 DEF flip, flipNext, SearchMarks
<1>6. CASE finish
  BY <1>6 DEF finish, SearchMarks
<1>7. CASE UNCHANGED vars
  BY <1>7 DEF vars, search, SearchMarks
<1>8. QED
  BY <1>1, <1>2, <1>3, <1>4, <1>5, <1>6, <1>7 DEF Next, handlerStep

\* A search leaves no trace for the next one: when a handler has returned, no node is
\* marked as found or has a parent, whichever way the search ended.
THEOREM SearchStateAlwaysClean == Spec => []SearchStateClean
<1>1. SearchMarks => SearchStateClean
  BY DEF SearchMarks, SearchStateClean
<1>2. QED
  BY <1>1, SearchMarksInitially, SearchMarksStep, PTL DEF Spec

(****************************************************************************)
(* The invariant.                                                           *)
(****************************************************************************)

ListsInv ==
  /\ pc \in {"idle", "search", "trace", "flip"}
  /\ edges \in [Edge -> Nat]
  /\ WellLinked(m_adj, m_out_degree)
  /\ EntriesMatchGraph

SearchInv ==
  /\ visited \subseteq Node
  /\ pc = "search" => bfsqueue \in Seq(visited)
  /\ pc \in {"idle", "search"} => path = <<>>
  /\ pc \in {"search", "trace"} =>
       \E rank : Tree(visited, rank) /\ (pc = "trace" => WalkedDown(visited, rank))
  /\ PathValid

Inv == ListsInv /\ SearchInv /\ SearchMarks

LEMMA GraphMatched == EntriesMatchGraph <=> Matched(m_adj, edges)
BY DEF EntriesMatchGraph, Matched

LEMMA InvInitially == Init => Inv
<1> SUFFICES ASSUME Init PROVE Inv
  OBVIOUS
<1>1. WellLinked(m_adj, m_out_degree) /\ Matched(m_adj, edges)
  BY NoListsMatched DEF Init
<1>2. edges \in [Edge -> Nat]
  BY DEF Init
<1>3. EntriesMatchGraph
  BY <1>1, GraphMatched
<1>4. ListsInv
  BY <1>1, <1>2, <1>3 DEF Init, ListsInv
<1>5. SearchInv
  BY DEF Init, SearchInv, PathValid
<1>6. QED
  BY <1>4, <1>5, SearchMarksInitially DEF Inv

(****************************************************************************)
(* The handlers, up to the search they start.                               *)
(****************************************************************************)
LEMMA SearchStarts ==
  ASSUME Inv, pc = "idle", NEW dir, NEW source \in Node, NEW bound,
         startSearch(dir, source, bound)
  PROVE  SearchInv' /\ pc' = "search"
<1>1. /\ pc' = "search" /\ visited' = {source} /\ bfsqueue' = <<source>>
      /\ path' = <<>> /\ m_parent'[source] = <<source, 0>>
  BY DEF startSearch, Inv, SearchInv, SearchMarks, walk
<1>2. bfsqueue' \in Seq(visited')
  BY <1>1
<1>3. PathValid'
  BY <1>1 DEF PathValid
<1>4. \E rank : Tree(visited, rank)'
  <2> PICK rank : rank = [v \in {source} |-> 0]
    OBVIOUS
  <2>1. rank \in [{source} -> Nat]
    OBVIOUS
  <2>2. m_parent'[source][1] = source
    BY <1>1
  <2>3. Tree({source}, rank)'
    BY <2>1, <2>2 DEF Tree
  <2>4. QED
    BY <1>1, <2>3
<1>5. QED
  BY <1>1, <1>2, <1>3, <1>4 DEF SearchInv

LEMMA InsertionStep ==
  ASSUME Inv, NEW source \in Node, NEW target \in Node, handleInsertion(source, target)
  PROVE  ListsInv' /\ SearchInv'
<1>1. /\ pc = "idle" /\ source # target /\ WellLinked(m_adj, m_out_degree)
      /\ Matched(m_adj, edges) /\ edges \in [Edge -> Nat]
      /\ edges' = [edges EXCEPT ![{source, target}] = @ + 1]
  BY GraphMatched DEF handleInsertion, Inv, ListsInv
<1>2. ASSUME NEW s \in Node, NEW t \in Node, {s, t} = {source, target}, s # t, insertArc(s, t)
      PROVE  ListsInv' /\ SearchInv'
  <2>1. /\ m_adj' = ArcInserted(m_adj, m_out_degree, s, t)
        /\ m_out_degree' = [m_out_degree EXCEPT ![s] = @ + 1]
        /\ edges' = [edges EXCEPT ![{s, t}] = @ + 1]
    BY <1>1, <1>2 DEF insertArc
  <2>2. WellLinked(m_adj', m_out_degree') /\ Matched(m_adj', edges') /\ edges' \in [Edge -> Nat]
    BY <1>1, <1>2, <2>1, ListsInserted
  <2>3. SearchInv' /\ pc' = "search"
    BY <1>1, <1>2, SearchStarts DEF insertArc
  <2>4. EntriesMatchGraph'
    BY <2>2 DEF EntriesMatchGraph, Matched
  <2>5. QED
    BY <2>2, <2>3, <2>4 DEF ListsInv
<1>3. insertArc(target, source) \/ insertArc(source, target)
  BY DEF handleInsertion
<1>4. {target, source} = {source, target}
  OBVIOUS
<1>5. QED
  BY <1>1, <1>2, <1>3, <1>4

LEMMA DeletionStep ==
  ASSUME Inv, NEW source \in Node, NEW target \in Node, handleDeletion(source, target)
  PROVE  ListsInv' /\ SearchInv'
<1>1. /\ pc = "idle" /\ source # target /\ WellLinked(m_adj, m_out_degree)
      /\ Matched(m_adj, edges) /\ edges \in [Edge -> Nat] /\ edges[{source, target}] > 0
      /\ edges' = [edges EXCEPT ![{source, target}] = @ - 1]
  BY GraphMatched DEF handleDeletion, Inv, ListsInv
<1>2. SearchInv' /\ pc' = "search"
  <2>1. PICK node, bound : node \in Node /\ startSearch("backward", node, bound)
    BY DEF handleDeletion
  <2>2. QED
    BY <1>1, <2>1, SearchStarts
<1>3. PICK i : i = FirstEntry(m_adj, source, target)
  OBVIOUS
<1>4. PICK k : k = m_adj[source][i].second
  OBVIOUS
<1>5. PICK one : one = EntryRemoved(m_adj, m_out_degree, source, i)
  OBVIOUS
<1>6. PICK d1 : d1 = DegreeAfter(m_out_degree, source, i)
  OBVIOUS
<1>7. /\ m_adj' = EntryRemoved(one, d1, target, k)
      /\ m_out_degree' = DegreeAfter(d1, target, k)
  BY <1>3, <1>4, <1>5, <1>6 DEF handleDeletion
<1>8. WellLinked(m_adj', m_out_degree') /\ Matched(m_adj', edges') /\ edges' \in [Edge -> Nat]
  <2>1. /\ one = EntryRemoved(m_adj, m_out_degree, source, FirstEntry(m_adj, source, target))
        /\ d1 = DegreeAfter(m_out_degree, source, FirstEntry(m_adj, source, target))
        /\ k = m_adj[source][FirstEntry(m_adj, source, target)].second
    BY <1>3, <1>4, <1>5, <1>6
  <2>2. QED
    BY ONLY <1>1, <1>7, <2>1, ListsDeleted, source \in Node, target \in Node
<1>9. EntriesMatchGraph'
  BY <1>8 DEF EntriesMatchGraph, Matched
<1>10. QED
  BY <1>2, <1>8, <1>9 DEF ListsInv

(****************************************************************************)
(* The search.                                                              *)
(****************************************************************************)
LEMMA ListsKept ==
  ASSUME ListsInv, UNCHANGED <<edges, lists>>, pc' \in {"idle", "search", "trace", "flip"}
  PROVE  ListsInv'
BY DEF ListsInv, lists, EntriesMatchGraph

\* What the positions taken by expand are.
LEMMA TakenFacts ==
  ASSUME Inv, expand
  PROVE  /\ Head(bfsqueue) \in visited /\ Head(bfsqueue) \in Node
         /\ Taken \in SUBSET (1..Len(m_adj[Head(bfsqueue)]))
         /\ \A i \in Taken : StepValid(Head(bfsqueue), i, At(i)) /\ At(i) \notin visited
         /\ Found \subseteq Node
         /\ Final # {} => Taken # {}
<1> DEFINE node == Head(bfsqueue)
<1>1. /\ WellLinked(m_adj, m_out_degree) /\ pc = "search" /\ bfsqueue # <<>>
      /\ bfsqueue \in Seq(visited) /\ visited \subseteq Node
  BY ExpandNamed DEF Inv, ListsInv, SearchInv
<1>2. node \in visited /\ node \in Node
  BY <1>1
<1>3. /\ m_adj \in [Node -> Seq(Entry)] /\ m_out_degree[node] \in Nat
      /\ m_out_degree[node] <= Len(m_adj[node]) /\ Len(m_adj[node]) \in Nat
  BY <1>1, <1>2 DEF WellLinked, ListsOK
<1> HIDE DEF node
<1>4. scanned(node) \subseteq 1..Len(m_adj[node])
  BY <1>3 DEF scanned
<1>5. Fresh \subseteq scanned(node) /\ Final \subseteq Fresh /\ Taken \subseteq Fresh
  BY DEF Fresh, Final, Taken, node
<1>6. ASSUME NEW i \in Taken
      PROVE  /\ StepValid(node, i, At(i)) /\ At(i) \notin visited /\ At(i) \in Node
  <2>1. i \in scanned(node) /\ i \in 1..Len(m_adj[node])
    BY <1>4, <1>5
  <2>2. At(i) = m_adj[node][i].first
    BY DEF At, node
  <2>3. At(i) \notin visited
    BY <1>5 DEF Fresh, unfound
  <2>4. i <= m_out_degree[node] <=> direction = "forward"
    BY <1>3, <2>1 DEF scanned
  <2>5. At(i) \in Node
    BY <1>2, <1>3, <2>1, <2>2, EntryFields
  <2>6. StepValid(node, i, At(i))
    BY <1>2, <2>1, <2>2, <2>4 DEF StepValid
  <2>7. QED
    BY <2>3, <2>5, <2>6
<1>7. Final # {} => Taken # {}
  <2> SUFFICES ASSUME Final # {} PROVE Taken # {}
    OBVIOUS
  <2>1. Final \in SUBSET Nat
    BY <1>3, <1>4, <1>5
  <2>2. PICK i \in Final : \A j \in Final : i <= j
    BY <2>1, LeastNatural
  <2>3. i \in Taken
    BY <1>5, <2>2 DEF Taken
  <2>4. QED
    BY <2>3
<1>8. QED
  BY <1>2, <1>4, <1>5, <1>6, <1>7 DEF node, Found

LEMMA OrderFacts ==
  ASSUME Inv, expand
  PROVE  /\ Cardinality(Taken) \in Nat
         /\ Taken # {} => Cardinality(Taken) \in 1..Cardinality(Taken)
         /\ \A k \in 1..Cardinality(Taken) : At(Order[k]) \in Found
<1>1. PICK N \in Nat : Taken \in SUBSET (1..N)
  <2>1. m_adj \in [Node -> Seq(Entry)] /\ Head(bfsqueue) \in Node
    BY TakenFacts DEF Inv, ListsInv, WellLinked, ListsOK
  <2>2. QED
    BY <2>1, TakenFacts
<1>2. /\ Cardinality(Taken) \in Nat /\ (Taken # {} => Cardinality(Taken) # 0)
      /\ Order \in [1..Cardinality(Taken) -> Taken]
  BY <1>1, InOrderFacts DEF Order
<1>3. \A k \in 1..Cardinality(Taken) : At(Order[k]) \in Found
  BY <1>2 DEF Found
<1>4. QED
  BY <1>2, <1>3

LEMMA ExpandStep ==
  ASSUME Inv, expand
  PROVE  ListsInv' /\ SearchInv'
<1> DEFINE node == Head(bfsqueue)
<1>1. /\ visited' = visited \cup Found
      /\ m_parent' = [v \in Node |-> IF v \in Found THEN <<node, Over(v)>> ELSE m_parent[v]]
      /\ IF Final = {}
           THEN /\ bfsqueue' = enqueued([k \in 1..Cardinality(Taken) |-> At(Order[k])])
                /\ UNCHANGED <<pc, curNode>>
           ELSE /\ bfsqueue' = <<>>
                /\ pc' = "trace" /\ curNode' = At(Order[Cardinality(Taken)])
      /\ UNCHANGED <<edges, lists>> /\ UNCHANGED direction /\ UNCHANGED path
      /\ pc = "search" /\ bfsqueue # <<>>
  BY ExpandNamed
<1>2. /\ bfsqueue \in Seq(visited) /\ path = <<>> /\ visited \subseteq Node
      /\ pc' \in {"search", "trace"}
  BY <1>1 DEF Inv, SearchInv
<1>3. PICK rank : Tree(visited, rank)
  BY <1>1 DEF Inv, SearchInv
<1>4. /\ node \in visited /\ Found \subseteq Node
      /\ \A i \in Taken : StepValid(node, i, At(i)) /\ At(i) \notin visited
      /\ Final # {} => Taken # {}
  BY TakenFacts
<1> HIDE DEF node
<1>5. ListsInv'
  BY <1>1, <1>2, ListsKept DEF Inv
<1>6. PathValid'
  BY <1>1, <1>2 DEF PathValid
<1>7. pc' = "search" => bfsqueue' \in Seq(visited')
  <2> SUFFICES ASSUME pc' = "search" PROVE bfsqueue' \in Seq(visited')
    OBVIOUS
  <2> DEFINE new == [k \in 1..Cardinality(Taken) |-> At(Order[k])]
  <2>1. bfsqueue' = Tail(bfsqueue) \o new
    BY <1>1 DEF enqueued
  <2>2. new \in Seq(visited')
    BY <1>1, OrderFacts
  <2>3. Tail(bfsqueue) \in Seq(visited')
    <3>1. Tail(bfsqueue) \in Seq(visited)
      BY <1>1, <1>2
    <3>2. visited \subseteq visited'
      BY <1>1
    <3>3. QED
      BY <3>1, <3>2
  <2> HIDE DEF new
  <2>4. QED
    BY <2>1, <2>2, <2>3
<1>8. \E later : Tree(visited, later)'
  <2> PICK nodes \in SUBSET Node : nodes = visited
    BY <1>2
  <2>1. Tree(nodes, rank) /\ node \in nodes /\ Found \cap nodes = {}
    BY <1>3, <1>4 DEF Found
  <2>2. \A v \in nodes : m_parent'[v] = m_parent[v]
    BY <1>1, <2>1
  <2>3. ASSUME NEW v \in Found
        PROVE  m_parent'[v][1] = node /\ StepValid(node, m_parent'[v][2], v)
    <3>1. \E i \in Taken : At(i) = v
      BY <2>3 DEF Found
    <3>2. Over(v) \in Taken /\ At(Over(v)) = v
      BY <3>1 DEF Over
    <3>3. m_parent'[v] = <<node, Over(v)>>
      BY <1>1, <1>4, <2>3
    <3>4. QED
      BY <1>4, <3>2, <3>3
  <2>4. PICK found \in SUBSET Node : found = Found
    BY <1>4
  <2>5. \E later : Tree(nodes \cup found, later)'
    BY <1>1, <2>1, <2>2, <2>3, <2>4, TreeGrows
  <2>6. visited' = nodes \cup found
    BY <1>1, <2>4
  <2>7. QED
    BY <2>5, <2>6
<1>9. ASSUME NEW later, pc' = "trace" PROVE WalkedDown(visited, later)'
  <2>1. Final # {} /\ curNode' = At(Order[Cardinality(Taken)])
    BY <1>1, <1>9
  <2>2. curNode' \in Found
    BY <1>4, <2>1, OrderFacts
  <2>3. path' = <<>>
    BY <1>1, <1>2
  <2>4. QED
    BY <1>1, <2>2, <2>3 DEF WalkedDown
<1>10. visited' \subseteq Node /\ path' = <<>>
  BY <1>1, <1>2, <1>4
<1>11. SearchInv'
  BY <1>2, <1>6, <1>7, <1>8, <1>9, <1>10 DEF SearchInv
<1>12. QED
  BY <1>5, <1>11

(****************************************************************************)
(* The walk back and the flips.                                             *)
(****************************************************************************)
LEMMA TraceStep ==
  ASSUME Inv, trace
  PROVE  ListsInv' /\ SearchInv'
<1>1. /\ pc = "trace" /\ walkBack /\ UNCHANGED lists /\ UNCHANGED edges /\ UNCHANGED visited
  BY DEF trace, walkBack
<1>2. /\ PathValid /\ m_adj \in [Node -> Seq(Entry)]
  BY DEF Inv, ListsInv, SearchInv, WellLinked, ListsOK
<1>3. PICK nodes \in SUBSET Node : nodes = visited
  BY DEF Inv, SearchInv
<1>4. PICK rank : Tree(nodes, rank) /\ WalkedDown(nodes, rank)
  BY <1>1, <1>3 DEF Inv, SearchInv
<1>5. /\ PathValid' /\ pc' \in {"trace", "flip"}
      /\ Tree(nodes, rank)' /\ (pc' = "trace" => WalkedDown(nodes, rank)')
  BY <1>1, <1>2, <1>4, WalkBackKeeps
<1>6. visited' = nodes
  BY <1>1, <1>3
<1>7. ListsInv'
  BY <1>1, <1>5, ListsKept DEF Inv
<1>8. QED
  BY <1>5, <1>6, <1>7 DEF SearchInv

LEMMA FlipStep ==
  ASSUME Inv, flip
  PROVE  ListsInv' /\ SearchInv'
<1>1. pc' = "flip" /\ flipNext /\ UNCHANGED edges /\ UNCHANGED visited
  BY DEF flip, flipNext
<1>2. /\ WellLinked(m_adj, m_out_degree) /\ EntriesMatchGraph /\ edges \in [Edge -> Nat]
      /\ PathValid /\ visited \subseteq Node
  BY DEF Inv, ListsInv, SearchInv
<1>3. WellLinked(m_adj', m_out_degree') /\ SameCopies(m_adj', m_adj) /\ PathValid'
  BY <1>1, <1>2, FlipNextKeeps
<1>4. EntriesMatchGraph'
  BY <1>1, <1>2, <1>3 DEF EntriesMatchGraph, SameCopies
<1>5. QED
  BY <1>1, <1>2, <1>3, <1>4 DEF ListsInv, SearchInv

(****************************************************************************)
(* The invariant holds.                                                     *)
(****************************************************************************)
LEMMA FinishStep ==
  ASSUME Inv, finish
  PROVE  ListsInv' /\ SearchInv'
<1>1. /\ pc' = "idle" /\ path = <<>> /\ UNCHANGED lists /\ UNCHANGED edges /\ UNCHANGED path
      /\ visited' = visited \ touched
  BY DEF finish, walk, Inv, SearchInv
<1>2. PathValid'
  BY <1>1 DEF PathValid
<1>3. ListsInv'
  BY <1>1, ListsKept DEF Inv
<1>4. QED
  BY <1>1, <1>2, <1>3 DEF SearchInv, Inv

LEMMA StutterStep ==
  ASSUME Inv, UNCHANGED vars
  PROVE  ListsInv' /\ SearchInv'
<1>1. /\ UNCHANGED lists /\ UNCHANGED edges /\ UNCHANGED direction /\ UNCHANGED pc
      /\ UNCHANGED visited /\ UNCHANGED bfsqueue /\ UNCHANGED m_parent
      /\ UNCHANGED curNode /\ UNCHANGED path
  BY DEF vars, search, walk
<1>2. ListsInv'
  BY <1>1, ListsKept DEF Inv, ListsInv
<1>3. PathValid'
  BY <1>1, PathKept DEF Inv, SearchInv
<1>4. PICK nodes : nodes = visited
  OBVIOUS
<1>5. ASSUME NEW rank, Tree(nodes, rank) /\ (pc = "trace" => WalkedDown(nodes, rank))
      PROVE  Tree(nodes, rank)' /\ (pc = "trace" => WalkedDown(nodes, rank)')
  BY <1>1, <1>5, TreeKept DEF WalkedDown
<1>6. visited' = nodes
  BY <1>1, <1>4
<1>7. QED
  BY <1>1, <1>2, <1>3, <1>4, <1>5, <1>6 DEF Inv, SearchInv

LEMMA InvStep == Inv /\ [Next]_vars => Inv'
<1> SUFFICES ASSUME Inv, [Next]_vars PROVE Inv'
  OBVIOUS
<1>1. SearchMarks'
  BY SearchMarksStep DEF Inv
<1>2. ListsInv' /\ SearchInv'
  BY InsertionStep, DeletionStep, ExpandStep, TraceStep, FlipStep, FinishStep, StutterStep
     DEF Next, handlerStep
<1>3. QED
  BY <1>1, <1>2 DEF Inv

LEMMA InvAlways == Spec => []Inv
BY InvInitially, InvStep, PTL DEF Spec

\* The links between the two entries of an edge are never broken: after every insertion,
\* deletion and single flip each entry and its mirror name each other, and exactly one of
\* them is active.
THEOREM AlwaysLinked == Spec => []Linked
<1>1. Inv => Linked
  BY LinkedThroughout DEF Inv, ListsInv, Linked
<1>2. QED
  BY <1>1, InvAlways, PTL

\* Each list has as many entries for a neighbour as the graph has copies of the edge: a
\* deletion takes one copy out of both lists, and the search and the flips lose none.
THEOREM EntriesAlwaysMatch == Spec => []EntriesMatchGraph
<1>1. Inv => EntriesMatchGraph
  BY DEF Inv, ListsInv
<1>2. QED
  BY <1>1, InvAlways, PTL

\* The positions that the search recorded still denote the entries of the path when their
\* turn to be flipped comes.
THEOREM PathAlwaysValid == Spec => []PathStaysValid
<1>1. Inv => PathStaysValid
  BY ValidPathStays DEF Inv, ListsInv, SearchInv, WellLinked, ListsOK
<1>2. QED
  BY <1>1, InvAlways, PTL

(****************************************************************************)
(* Optimality.  Between the updates no path leads from a node to one with   *)
(* at least two arcs less; while a handler runs, the search is about to     *)
(* find the only path that an update can have opened, or there is none.     *)
(****************************************************************************)
\* What lies beyond the nodes found has been looked at, or their turn will come.
Exhausted(s) ==
  /\ \A v \in visited \ {s} : m_out_degree[v] = m_max_degree
  /\ \A v \in visited, w \in Node :
       Leads(direction, Counts, v, w) => \/ w \in visited
                                         \/ ~admitted(w)
                                         \/ \E k \in 1..Len(bfsqueue) : bfsqueue[k] = v

SearchGap(s) ==
  /\ RootIs(visited, s) /\ UpdatedAt(s) /\ Reached(direction, Counts, visited, s)
  /\ pc = "search" => Exhausted(s)
  /\ pc = "trace" => Walked(visited, s)

GapInv ==
  /\ pc = "idle" => NoGap(Counts, m_out_degree)
  /\ pc \in {"search", "trace"} => \E s \in Node : SearchGap(s)
  /\ pc = "flip" => Closing

LEMMA GapInitially == Init => GapInv
BY NothingNoGap DEF Init, GapInv, Counts

LEMMA GapStart ==
  ASSUME SearchMarks, pc = "idle", NEW dir, NEW source \in Node, NEW bound,
         startSearch(dir, source, bound), UpdatedAt(source)'
  PROVE  GapInv'
<1>1. /\ visited' = {source} /\ bfsqueue' = <<source>> /\ pc' = "search"
      /\ m_parent'[source] = <<source, 0>>
  BY DEF SearchMarks, startSearch
<1>2. RootIs(visited, source)'
  BY <1>1 DEF RootIs
<1>3. Reached(direction', Counts', visited', source)
  BY <1>1 DEF Reached
<1>4. Exhausted(source)'
  <2>1. Len(bfsqueue') = 1 /\ bfsqueue'[1] = source
    BY <1>1
  <2>2. \E k \in 1..Len(bfsqueue') : bfsqueue'[k] = source
    BY <2>1
  <2>3. QED
    BY <1>1, <2>2 DEF Exhausted
<1>5. SearchGap(source)'
  BY <1>1, <1>2, <1>3, <1>4 DEF SearchGap
<1>6. QED
  BY <1>1, <1>5 DEF GapInv

LEMMA GapInsertion ==
  ASSUME Inv, GapInv, NEW source \in Node, NEW target \in Node, handleInsertion(source, target)
  PROVE  GapInv'
<1>1. /\ pc = "idle" /\ source # target /\ WellLinked(m_adj, m_out_degree) /\ SearchMarks
      /\ NoGap(Counts, m_out_degree) /\ m_out_degree \in [Node -> Nat]
  BY DEF handleInsertion, Inv, ListsInv, GapInv, WellLinked, ListsOK
<1>2. ASSUME NEW s \in Node, NEW t \in Node, s # t, m_out_degree[s] <= m_out_degree[t],
             insertArc(s, t)
      PROVE  GapInv'
  <2> PICK entries, degree, new, more :
        /\ entries = m_adj /\ degree = m_out_degree /\ new = ArcInserted(m_adj, m_out_degree, s, t)
        /\ more = OneMore(m_out_degree, s)
    OBVIOUS
  <2>1. /\ m_adj' = new /\ m_out_degree' = more
        /\ startSearch("forward", s, m_out_degree'[s] - 1)
    BY <1>2 DEF insertArc, OneMore
  <2>2. /\ WellLinked(entries, degree) /\ NoGap(ArcCounts(entries, degree), degree)
        /\ degree[s] <= degree[t] /\ new = ArcInserted(entries, degree, s, t)
        /\ more = OneMore(degree, s)
    BY <1>1, <1>2 DEF Counts
  <2>3. /\ Update("forward", degree[s], ArcCounts(entries, degree), degree, s, t,
                  ArcCounts(new, more), more)
        /\ more[s] = degree[s] + 1
    BY ONLY <2>2, s \in Node, t \in Node, <1>2, InsertionUpdates
  <2>4. direction' = "forward" /\ m_max_degree' = degree[s]
    <3>1. degree[s] \in Nat
      BY <1>1
    <3>2. QED
      BY <2>1, <2>3, <3>1 DEF startSearch
  <2>5. Changed(direction', m_max_degree', ArcCounts(entries, degree), degree, s, t,
                Counts', m_out_degree')
    BY <2>1, <2>2, <2>3, <2>4 DEF Changed, Counts
  <2>6. UpdatedAt(s)'
    BY <2>5 DEF UpdatedAt
  <2>7. QED
    BY <1>1, <2>1, <2>6, GapStart
<1>3. m_out_degree[source] \in Nat /\ m_out_degree[target] \in Nat
  BY <1>1
<1>4. QED
  BY <1>1, <1>2, <1>3 DEF handleInsertion

LEMMA GapDeletion ==
  ASSUME Inv, GapInv, NEW source \in Node, NEW target \in Node, handleDeletion(source, target)
  PROVE  GapInv'
<1>1. /\ pc = "idle" /\ source # target /\ WellLinked(m_adj, m_out_degree) /\ SearchMarks
      /\ NoGap(Counts, m_out_degree) /\ m_adj \in [Node -> Seq(Entry)]
      /\ Matched(m_adj, edges) /\ edges \in [Edge -> Nat] /\ edges[{source, target}] > 0
  BY GraphMatched DEF handleDeletion, Inv, ListsInv, GapInv, WellLinked, ListsOK
<1> PICK entries, degree, j : entries = m_adj /\ degree = m_out_degree
                              /\ j = FirstEntry(m_adj, source, target)
  OBVIOUS
<1> PICK k : k = entries[source][j].second
  OBVIOUS
<1> PICK one, d1 : one = EntryRemoved(entries, degree, source, j)
                   /\ d1 = DegreeAfter(degree, source, j)
  OBVIOUS
<1> PICK new, d2 : new = EntryRemoved(one, d1, target, k) /\ d2 = DegreeAfter(d1, target, k)
  OBVIOUS
<1> PICK s : s = IF k <= d1[target] THEN target ELSE source
  OBVIOUS
<1>2. /\ m_adj' = new /\ m_out_degree' = d2
      /\ startSearch("backward", s, d2[s] + 1)
  BY DEF handleDeletion
<1>3. j \in 1..Len(entries[source]) /\ target = entries[source][j].first
  BY <1>1, EntryToDelete
<1>4. WellLinked(entries, degree) /\ NoGap(ArcCounts(entries, degree), degree)
  BY <1>1 DEF Counts
<1>5. /\ s \in Node
      /\ \E t : Update("backward", d2[s] + 1, ArcCounts(entries, degree), degree, s, t,
                       ArcCounts(new, d2), d2)
  BY ONLY <1>3, <1>4, source \in Node, k = entries[source][j].second,
          one = EntryRemoved(entries, degree, source, j), d1 = DegreeAfter(degree, source, j),
          new = EntryRemoved(one, d1, target, k), d2 = DegreeAfter(d1, target, k),
          s = IF k <= d1[target] THEN target ELSE source, DeletionUpdates
<1>6. direction' = "backward" /\ m_max_degree' = d2[s] + 1
  BY <1>2 DEF startSearch
<1>7. UpdatedAt(s)'
  BY <1>2, <1>4, <1>5, <1>6 DEF UpdatedAt, Changed, Counts
<1>8. QED
  BY <1>1, <1>2, <1>5, <1>7, GapStart

\* The positions taken are all that matter.
LEMMA TakenCovers ==
  ASSUME Inv, expand, NEW w \in Node \ visited, admitted(w),
         NEW p \in scanned(Head(bfsqueue)), At(p) = w, Final = {}
  PROVE  w \in Found
<1> DEFINE same == {q \in scanned(Head(bfsqueue)) : At(q) = w}
<1>1. same \in SUBSET Nat /\ same # {}
  <2>1. Head(bfsqueue) \in Node
    BY TakenFacts
  <2>2. m_out_degree[Head(bfsqueue)] \in Nat /\ Len(m_adj[Head(bfsqueue)]) \in Nat
    BY <2>1 DEF Inv, ListsInv, WellLinked, ListsOK
  <2>3. scanned(Head(bfsqueue)) \subseteq Nat
    BY <2>2 DEF scanned
  <2>4. QED
    BY <2>3
<1>2. PICK q \in same : \A r \in same : q <= r
  <2> HIDE DEF same
  <2>1. QED
    BY <1>1, LeastNatural
<1>3. q \in scanned(Head(bfsqueue)) /\ At(q) = w
  OBVIOUS
<1>4. \A r \in scanned(Head(bfsqueue)) : r < q => At(r) # At(q)
  <2>1. q \in Nat /\ \A r \in same : r \in Nat
    BY <1>1
  <2>2. QED
    BY <1>2, <1>3, <2>1
<1>5. q \in Fresh
  BY <1>3, <1>4 DEF Fresh, unfound
<1>6. q \in Taken
  BY <1>5 DEF Taken
<1>7. QED
  BY <1>3, <1>6 DEF Found

\* A search ends at the last position taken.
LEMMA EndTaken ==
  ASSUME Inv, expand, Final # {}
  PROVE  /\ At(Order[Cardinality(Taken)]) \in Found
         /\ ends(At(Order[Cardinality(Taken)]))
<1>1. PICK N \in Nat : Taken \in SUBSET (1..N)
  <2>1. m_adj \in [Node -> Seq(Entry)] /\ Head(bfsqueue) \in Node
    BY TakenFacts DEF Inv, ListsInv, WellLinked, ListsOK
  <2>2. QED
    BY <2>1, TakenFacts
<1> PICK n : n = Cardinality(Taken)
  OBVIOUS
<1>2. /\ n \in Nat /\ (Taken # {} => n # 0)
      /\ Order \in [1..n -> Taken] /\ Increasing(Order, n)
      /\ \A p \in Taken : \E k \in 1..n : Order[k] = p
  BY <1>1, InOrderFacts DEF Order
<1>3. Taken # {}
  BY TakenFacts
<1>4. n \in 1..n
  BY <1>2, <1>3
<1>5. Order[n] \in Taken
  BY <1>2, <1>4
<1>6. PICK p \in Taken : p \in Final /\ \A r \in Taken : r <= p
  <2>1. Final \subseteq Fresh /\ Fresh \subseteq scanned(Head(bfsqueue))
    BY DEF Final, Fresh
  <2>2. scanned(Head(bfsqueue)) \subseteq Nat
    <3>1. Head(bfsqueue) \in Node
      BY TakenFacts
    <3>2. m_out_degree[Head(bfsqueue)] \in Nat /\ Len(m_adj[Head(bfsqueue)]) \in Nat
      BY <3>1 DEF Inv, ListsInv, WellLinked, ListsOK
    <3>3. QED
      BY <3>2 DEF scanned
  <2>3. PICK p \in Final : \A r \in Final : p <= r
    BY <2>1, <2>2, LeastNatural
  <2>4. p \in Taken
    BY <2>1, <2>3 DEF Taken
  <2>5. \A r \in Taken : r <= p
    BY <2>3 DEF Taken
  <2>6. QED
    BY <2>3, <2>4, <2>5
<1>7. Order[n] = p
  <2>1. PICK k \in 1..n : Order[k] = p
    BY <1>2
  <2>2. CASE k = n
    BY <2>1, <2>2
  <2>3. CASE k # n
    <3>1. k < n
      BY <1>2, <2>3
    <3>2. Order[k] < Order[n] /\ Order[n] <= p
      BY <1>2, <1>4, <1>5, <1>6, <3>1 DEF Increasing
    <3>3. p \in Nat /\ Order[n] \in Nat
      <4>1. \A r \in Taken : r \in Nat
        BY <1>1
      <4>2. QED
        BY <1>5, <1>6, <4>1
    <3>4. QED
      BY <2>1, <3>2, <3>3
  <2>4. QED
    BY <2>2, <2>3
<1>8. QED
  BY <1>6, <1>7 DEF Final, Found

LEMMA GapExpand ==
  ASSUME Inv, GapInv, expand
  PROVE  GapInv'
<1> PICK node : node = Head(bfsqueue)
  OBVIOUS
<1>1. /\ visited' = visited \cup Found
      /\ m_parent' = [v \in Node |-> IF v \in Found THEN <<node, Over(v)>> ELSE m_parent[v]]
      /\ IF Final = {}
           THEN /\ bfsqueue' = enqueued([k \in 1..Cardinality(Taken) |-> At(Order[k])])
                /\ UNCHANGED <<pc, curNode>>
           ELSE /\ bfsqueue' = <<>>
                /\ pc' = "trace" /\ curNode' = At(Order[Cardinality(Taken)])
      /\ UNCHANGED m_adj /\ UNCHANGED m_out_degree /\ UNCHANGED direction
      /\ UNCHANGED m_max_degree /\ UNCHANGED path
      /\ pc = "search" /\ bfsqueue # <<>>
  BY ExpandNamed DEF lists
<1>2. /\ WellLinked(m_adj, m_out_degree) /\ bfsqueue \in Seq(visited) /\ visited \subseteq Node
      /\ path = <<>> /\ m_out_degree \in [Node -> Nat]
  BY <1>1 DEF Inv, ListsInv, SearchInv, WellLinked, ListsOK
<1>3. PICK s \in Node : /\ RootIs(visited, s) /\ UpdatedAt(s)
                        /\ Reached(direction, Counts, visited, s) /\ Exhausted(s)
  BY <1>1 DEF GapInv, SearchGap
<1>4. /\ node \in visited /\ node \in Node /\ Found \subseteq Node
      /\ \A q \in Taken : StepValid(node, q, At(q)) /\ At(q) \notin visited
  BY TakenFacts
<1>5. Counts' = Counts
  BY <1>1 DEF Counts
<1>6. \A w \in Found : Leads(direction, Counts, node, w) /\ w \notin visited /\ admitted(w)
  <2>1. ASSUME NEW w \in Found
        PROVE  Leads(direction, Counts, node, w) /\ w \notin visited /\ admitted(w)
    <3>1. PICK q \in Taken : At(q) = w
      BY DEF Found
    <3>2. StepValid(node, q, w) /\ w \notin visited
      BY <1>4, <3>1
    <3>3. Leads(direction, Counts, node, w)
      BY <1>2, <1>4, <3>2, StepLeads
    <3>4. admitted(w)
      BY <3>1 DEF Taken, Fresh
    <3>5. QED
      BY <3>2, <3>3, <3>4
  <2>2. QED
    BY <2>1
<1>7. RootIs(visited, s)'
  <2>1. s \in visited /\ \A v \in visited : m_parent[v][1] = v <=> v = s
    BY <1>3 DEF RootIs
  <2>2. ASSUME NEW v \in visited' PROVE m_parent'[v][1] = v <=> v = s
    <3>1. CASE v \in Found
      <4>1. m_parent'[v] = <<node, Over(v)>> /\ v \notin visited
        BY <1>1, <1>4, <1>6, <3>1
      <4>2. m_parent'[v][1] = node
        BY <4>1
      <4>3. QED
        BY <1>4, <2>1, <4>1, <4>2
    <3>2. CASE v \notin Found
      <4>1. v \in visited /\ m_parent'[v] = m_parent[v]
        BY <1>1, <1>2, <3>2
      <4>2. QED
        BY <2>1, <4>1
    <3>3. QED
      BY <3>1, <3>2
  <2>3. QED
    BY <1>1, <2>1, <2>2 DEF RootIs
<1>8. UpdatedAt(s)'
  BY <1>1, <1>3, <1>5 DEF UpdatedAt
<1>9. Reached(direction', Counts', visited', s)
  <2>1. ASSUME NEW S \in SUBSET Node, s \in S, ShutFor(direction, Counts, S)
        PROVE  visited' \subseteq S
    <3>1. visited \subseteq S
      BY <1>3, <2>1 DEF Reached
    <3>2. Found \subseteq S
      BY <1>4, <1>6, <2>1, <3>1 DEF ShutFor
    <3>3. QED
      BY <1>1, <3>1, <3>2
  <2>2. Reached(direction, Counts, visited', s)
    BY <2>1 DEF Reached
  <2>3. QED
    BY <1>1, <1>5, <2>2
<1>10. ASSUME Final = {}
       PROVE  Exhausted(s)'
  <2>1. bfsqueue' = Tail(bfsqueue) \o [k \in 1..Cardinality(Taken) |-> At(Order[k])]
    BY <1>1, <1>10 DEF enqueued
  <2> PICK old, new, n : /\ old = Tail(bfsqueue) /\ n = Cardinality(Taken)
                         /\ new = [k \in 1..Cardinality(Taken) |-> At(Order[k])]
    OBVIOUS
  <2>2. n \in Nat /\ \A w \in Found : \E k \in 1..n : At(Order[k]) = w
    <3>1. PICK N \in Nat : Taken \in SUBSET (1..N)
      <4>1. m_adj[node] \in Seq(Entry)
        BY <1>2, <1>4 DEF WellLinked, ListsOK
      <4>2. QED
        BY <4>1, TakenFacts
    <3>2. n \in Nat /\ \A p \in Taken : \E k \in 1..n : Order[k] = p
      BY <3>1, InOrderFacts DEF Order
    <3>3. QED
      BY <3>2 DEF Found
  <2>3. new \in Seq(Node) /\ Len(new) = n /\ \A k \in 1..n : new[k] = At(Order[k])
    <3>1. \A k \in 1..n : At(Order[k]) \in Node
      BY <1>4, OrderFacts
    <3>2. QED
      BY <2>2, <3>1
  <2>4. /\ old \in Seq(Node) /\ Len(old) = Len(bfsqueue) - 1 /\ Len(bfsqueue) \in Nat \ {0}
        /\ \A k \in 1..Len(bfsqueue) - 1 : old[k] = bfsqueue[k + 1]
        /\ node = bfsqueue[1]
    <3>1. bfsqueue \in Seq(Node)
      BY <1>2
    <3>2. QED
      BY <1>1, <3>1
  <2>5. /\ bfsqueue' = old \o new /\ Len(old \o new) = Len(old) + n
        /\ \A k \in 1..Len(old) : (old \o new)[k] = old[k]
        /\ \A k \in 1..n : (old \o new)[Len(old) + k] = new[k]
    <3>1. bfsqueue' = old \o new
      BY <2>1
    <3>2. QED
      BY <2>2, <2>3, <2>4, <3>1
  <2>6. ASSUME NEW v \in Found PROVE \E k \in 1..Len(bfsqueue') : bfsqueue'[k] = v
    <3>1. PICK k \in 1..n : At(Order[k]) = v
      BY <2>2
    <3>2. Len(old) + k \in 1..Len(bfsqueue') /\ bfsqueue'[Len(old) + k] = v
      BY <2>2, <2>3, <2>4, <2>5, <3>1
    <3>3. QED
      BY <3>2
  <2>7. ASSUME NEW k \in 2..Len(bfsqueue)
        PROVE  \E l \in 1..Len(bfsqueue') : bfsqueue'[l] = bfsqueue[k]
    <3>1. /\ k - 1 \in 1..Len(old) /\ k - 1 \in 1..Len(bfsqueue') /\ k - 1 + 1 = k
          /\ k - 1 \in 1..Len(bfsqueue) - 1
      BY <2>2, <2>4, <2>5
    <3>2. bfsqueue'[k - 1] = bfsqueue[k]
      BY <2>4, <2>5, <3>1
    <3>3. QED
      BY <3>1, <3>2
  <2>8. ASSUME NEW w \in Node, Leads(direction, Counts, node, w), admitted(w)
        PROVE  w \in visited'
    <3>1. PICK p \in scanned(node) : m_adj[node][p].first = w
      BY <1>2, <1>4, <2>8, LeadsScanned
    <3>2. CASE w \in visited
      BY <1>1, <3>2
    <3>3. CASE w \notin visited
      <4>1. At(p) = w /\ p \in scanned(Head(bfsqueue))
        BY <3>1 DEF At
      <4>2. w \in Found
        BY <1>10, <2>8, <3>3, <4>1, TakenCovers
      <4>3. QED
        BY <1>1, <4>2
    <3>4. QED
      BY <3>2, <3>3
  <2>9. \A v \in visited' \ {s} : m_out_degree[v] = m_max_degree
    <3>1. ASSUME NEW v \in Found PROVE m_out_degree[v] = m_max_degree
      <4>1. PICK q \in Taken : At(q) = v
        BY DEF Found
      <4>2. ~ends(v)
        BY <1>10, <4>1 DEF Final, Taken
      <4>3. QED
        BY <1>6, <4>2 DEF admitted
    <3>2. QED
      BY <1>1, <1>3, <3>1 DEF Exhausted
  <2>10. ASSUME NEW v \in visited', NEW w \in Node, Leads(direction, Counts, v, w), admitted(w),
                w \notin visited'
         PROVE  \E k \in 1..Len(bfsqueue') : bfsqueue'[k] = v
    <3>1. CASE v \in Found
      BY <2>6, <3>1
    <3>2. CASE v \notin Found
      <4>1. v \in visited /\ w \notin visited
        BY <1>1, <2>10, <3>2
      <4>2. PICK k \in 1..Len(bfsqueue) : bfsqueue[k] = v
        BY <1>3, <2>10, <4>1 DEF Exhausted
      <4>3. k # 1
        BY <2>4, <2>8, <2>10, <4>2
      <4>4. k \in 2..Len(bfsqueue)
        BY <4>3
      <4>5. QED
        BY <2>7, <4>2, <4>4
    <3>3. QED
      BY <3>1, <3>2
  <2>11. \A w : admitted(w)' <=> admitted(w)
    BY <1>1 DEF admitted, ends
  <2>12. QED
    BY <1>1, <1>5, <2>9, <2>10, <2>11 DEF Exhausted
<1>11. ASSUME Final # {}
       PROVE  Walked(visited, s)'
  <2> PICK f : f = At(Order[Cardinality(Taken)])
    OBVIOUS
  <2>1. f \in Found /\ ends(f) /\ curNode' = f /\ path' = <<>>
    BY <1>1, <1>2, <1>11, EndTaken
  <2>2. EndsAt(direction', m_out_degree', m_max_degree', f)
    BY <1>1, <2>1 DEF ends, EndsAt
  <2>3. PathFrom(direction', Counts', path', s, f, curNode')
    BY <2>1, PathFromStart
  <2>4. OnSteps(path') = {}
    <3>1. Len(path') = 0
      BY <2>1
    <3>2. QED
      BY <3>1 DEF OnSteps
  <2>5. f \in visited'
    BY <1>1, <2>1
  <2>6. QED
    BY <2>2, <2>3, <2>4, <2>5 DEF Walked
<1>12. SearchGap(s)'
  BY <1>1, <1>7, <1>8, <1>9, <1>10, <1>11 DEF SearchGap
<1>13. pc' \in {"search", "trace"}
  BY <1>1
<1>14. QED
  BY <1>12, <1>13 DEF GapInv

LEMMA GapTrace ==
  ASSUME Inv, GapInv, trace
  PROVE  GapInv'
<1>1. /\ pc = "trace" /\ walkBack /\ UNCHANGED lists /\ UNCHANGED direction
      /\ UNCHANGED m_max_degree /\ UNCHANGED m_parent /\ UNCHANGED visited
      /\ WellLinked(m_adj, m_out_degree)
  BY DEF trace, walkBack, Inv, ListsInv
<1>2. PICK nodes \in SUBSET Node : nodes = visited
  BY DEF Inv, SearchInv
<1>3. PICK rank : Tree(nodes, rank) /\ WalkedDown(nodes, rank)
  BY <1>1, <1>2 DEF Inv, SearchInv
<1>4. PICK s \in Node : /\ RootIs(nodes, s) /\ UpdatedAt(s) /\ Walked(nodes, s)
                        /\ Reached(direction, Counts, nodes, s)
  BY <1>1, <1>2 DEF GapInv, SearchGap
<1>5. Counts' = Counts /\ m_out_degree' = m_out_degree
  BY <1>1 DEF Counts, lists
<1>6. CASE m_parent[curNode][1] = curNode
  <2>1. Closing
    BY <1>1, <1>3, <1>4, <1>6, WalkIsOver
  <2>2. pc' = "flip" /\ path' = path
    BY <1>1, <1>6 DEF walkBack
  <2>3. Closing'
    BY <1>1, <1>5, <2>1, <2>2 DEF Closing
  <2>4. QED
    BY <2>2, <2>3 DEF GapInv
<1>7. CASE m_parent[curNode][1] # curNode
  <2>1. Walked(nodes, s)'
    BY <1>1, <1>3, <1>4, <1>7, WalkGoesOn
  <2>2. pc' = "trace" /\ visited' = nodes
    BY <1>1, <1>2, <1>7 DEF walkBack
  <2>3. RootIs(nodes, s)'
    BY <1>1, <1>4 DEF RootIs
  <2>4. UpdatedAt(s)'
    BY <1>1, <1>4, <1>5 DEF UpdatedAt
  <2>5. Reached(direction', Counts', nodes, s)
    BY <1>1, <1>4, <1>5
  <2>6. SearchGap(s)'
    <3>1. (RootIs(visited, s) /\ Walked(visited, s))'
      BY <2>1, <2>2, <2>3
    <3>2. QED
      BY <2>2, <2>4, <2>5, <3>1 DEF SearchGap
  <2>7. QED
    BY <2>2, <2>6 DEF GapInv
<1>8. QED
  BY <1>6, <1>7

LEMMA GapFlip ==
  ASSUME Inv, GapInv, flip
  PROVE  GapInv'
<1>1. pc = "flip" /\ flipNext /\ pc' = "flip" /\ WellLinked(m_adj, m_out_degree) /\ PathValid
  BY DEF flip, flipNext, Inv, ListsInv, SearchInv
<1>2. Closing'
  BY <1>1, FlipCloses DEF GapInv
<1>3. QED
  BY <1>1, <1>2 DEF GapInv

LEMMA GapFinish ==
  ASSUME Inv, GapInv, finish
  PROVE  GapInv'
<1>1. pc' = "idle" /\ Counts' = Counts /\ m_out_degree' = m_out_degree
  BY DEF finish, lists, Counts
<1>2. Counted(Counts, m_out_degree)
  BY CountsCounted DEF Inv, ListsInv
<1>3. NoGap(Counts, m_out_degree)
  <2>1. CASE pc = "search" /\ bfsqueue = <<>>
    <3>1. PICK s \in Node : RootIs(visited, s) /\ UpdatedAt(s) /\ Exhausted(s)
      BY <2>1 DEF GapInv, SearchGap
    <3>2. PICK c0, d0, t :
            Changed(direction, m_max_degree, c0, d0, s, t, Counts, m_out_degree)
      BY <3>1 DEF UpdatedAt
    <3> PICK dir, k, V, c1, d1 : /\ dir = direction /\ k = m_max_degree /\ V = visited
                                 /\ c1 = Counts /\ d1 = m_out_degree
      OBVIOUS
    <3>3. \A v \in V \ {s} : d1[v] = k
      BY <3>1 DEF Exhausted
    <3>4. \A v \in V, w \in Node :
            Leads(dir, c1, v, w) => w \in V \/ ~(EndsAt(dir, d1, k, w) \/ d1[w] = k)
      BY <2>1, <3>1 DEF Exhausted, admitted, ends, EndsAt
    <3>5. /\ V \in SUBSET Node /\ s \in V /\ Counted(c1, d1)
          /\ Changed(dir, k, c0, d0, s, t, c1, d1)
      BY <1>2, <3>1, <3>2 DEF RootIs, Inv, SearchInv
    <3>6. NoGap(c1, d1)
      BY ONLY <3>3, <3>4, <3>5, SearchFails
    <3>7. QED
      BY <3>6
  <2>2. CASE pc = "flip" /\ path = <<>>
    <3>1. PICK c, d, last : Flipping(direction, <<>>, Counts, m_out_degree, c, d, last)
      BY <2>2 DEF GapInv, Closing
    <3> PICK dir, c1, d1 : dir = direction /\ c1 = Counts /\ d1 = m_out_degree
      OBVIOUS
    <3>2. Flipping(dir, <<>>, c1, d1, c, d, last) /\ Counted(c1, d1)
      BY <1>2, <3>1
    <3>3. NoGap(c1, d1)
      BY ONLY <3>2, FlippingOver
    <3>4. QED
      BY <3>3
  <2>3. QED
    BY <2>1, <2>2 DEF finish
<1>4. QED
  BY <1>1, <1>3 DEF GapInv

LEMMA GapStutter ==
  ASSUME GapInv, UNCHANGED vars
  PROVE  GapInv'
<1>1. /\ UNCHANGED m_adj /\ UNCHANGED m_out_degree /\ UNCHANGED direction /\ UNCHANGED pc
      /\ UNCHANGED m_max_degree /\ UNCHANGED visited /\ UNCHANGED bfsqueue
      /\ UNCHANGED m_parent /\ UNCHANGED curNode /\ UNCHANGED path
  BY DEF vars, search, walk, lists
<1>2. Counts' = Counts
  BY <1>1 DEF Counts
<1>3. Closing => Closing'
  BY <1>1, <1>2 DEF Closing
<1>4. ASSUME NEW s \in Node, SearchGap(s) PROVE SearchGap(s)'
  <2>1. UpdatedAt(s)'
    BY <1>1, <1>2, <1>4 DEF SearchGap, UpdatedAt
  <2>2. RootIs(visited, s)' /\ (pc = "search" => Exhausted(s)')
    BY <1>1, <1>2, <1>4 DEF SearchGap, RootIs, Exhausted, admitted, ends
  <2>3. pc = "trace" => Walked(visited, s)'
    BY <1>1, <1>2, <1>4 DEF SearchGap, Walked
  <2>4. Reached(direction', Counts', visited', s)
    BY <1>1, <1>2, <1>4 DEF SearchGap
  <2>5. QED
    BY <1>1, <2>1, <2>2, <2>3, <2>4 DEF SearchGap
<1>5. QED
  BY <1>1, <1>2, <1>3, <1>4 DEF GapInv

LEMMA GapStep == Inv /\ GapInv /\ [Next]_vars => GapInv'
BY GapInsertion, GapDeletion, GapExpand, GapTrace, GapFlip, GapFinish, GapStutter
   DEF Next, handlerStep

\* Whenever a handler has returned, the orientation is optimal, parallel edges included:
\* the one search from the node whose degree an update has changed repairs all that the
\* update can have spoilt.
THEOREM AlwaysOptimalMultigraph == Spec => []OptimalMultigraph
<1>1. Inv /\ GapInv => OptimalMultigraph
  BY NoGapIsOptimal DEF Inv, ListsInv, GapInv, OptimalMultigraph
<1>2. Init => Inv /\ GapInv
  BY InvInitially, GapInitially
<1>3. (Inv /\ GapInv) /\ [Next]_vars => (Inv /\ GapInv)'
  BY InvStep, GapStep
<1>4. QED
  BY <1>1, <1>2, <1>3, PTL DEF Spec
=============================================================================
