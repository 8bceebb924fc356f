------------------------- MODULE ExactOptArraysProofs -------------------------
(****************************************************************************)
(* Theorems about module ExactOptArrays, for every finite set of numbered   *)
(* nodes and any number of parallel edges, whichever of the three           *)
(* algorithms runs and whether its searches share their marks or not.       *)
(****************************************************************************)
EXTENDS ExactOptArrays, AdjacencyListsProofs

(****************************************************************************)
(* The inductive invariant.                                                 *)
(****************************************************************************)
ListsInv ==
  /\ pc \in {"idle", "search", "trace", "flip", "find_optimal"}
  /\ edges \in [Edge -> Nat]
  /\ WellLinked(m_adj, m_out_degree)
  /\ Matched(m_adj, edges)

\* The nodes that this search has found and can come back to.  Searches that share
\* their marks have visited more.
Searching(nodes) ==
  /\ nodes \in SUBSET visited
  /\ open \in Seq(nodes)
  /\ \A v \in nodes : ~ends(v)

SearchInv ==
  /\ visited \subseteq Node
  /\ m_parent = [v \in Node |-> m_parent[v]]
  /\ pc \in {"idle", "search", "find_optimal"} => path = <<>>
  /\ pc = "search" => \E nodes \in SUBSET Node : \E rank : Tree(nodes, rank) /\ Searching(nodes)
  /\ pc = "trace" => \E nodes \in SUBSET Node : \E rank :
                       Tree(nodes, rank) /\ WalkedDown(nodes, rank)
  /\ PathValid

\* Only the nodes to reset are marked as visited or have an index other than 0.
SearchMarks ==
  /\ visited \subseteq touched
  /\ child_index \in [Node -> Nat]
  /\ \A v \in Node \ touched : child_index[v] = 0
  /\ pc = "idle" => touched = {}

Inv == ListsInv /\ SearchInv /\ SearchMarks

\* A step that leaves the lists alone.
ListsStay == UNCHANGED <<edges, m_adj, m_out_degree>>

LEMMA InvInitially == Init => Inv
<1> SUFFICES ASSUME Init PROVE Inv
  OBVIOUS
<1>1. WellLinked(m_adj, m_out_degree) /\ Matched(m_adj, edges) /\ edges \in [Edge -> Nat]
  BY NoListsMatched DEF Init
<1>2. ListsInv
  BY <1>1 DEF Init, ListsInv
<1>3. SearchInv
  BY DEF Init, SearchInv, PathValid
<1>4. SearchMarks
  BY DEF Init, SearchMarks
<1>5. QED
  BY <1>2, <1>3, <1>4 DEF Inv

LEMMA ListsKept ==
  ASSUME ListsInv, ListsStay, pc' \in {"idle", "search", "trace", "flip", "find_optimal"}
  PROVE  ListsInv'
<1>1. edges' = edges /\ m_adj' = m_adj /\ m_out_degree' = m_out_degree
  BY DEF ListsStay
<1>2. WellLinked(m_adj', m_out_degree') /\ Matched(m_adj', edges') /\ edges' \in [Edge -> Nat]
  BY <1>1 DEF ListsInv
<1>3. QED
  BY <1>2 DEF ListsInv

\* When a handler has returned, and between the searches of a round, there is no path.
LEMMA NoSearch ==
  ASSUME SearchInv, path = <<>>, path' = <<>>, visited' \subseteq Node,
         pc' \in {"idle", "find_optimal"}, m_parent' = m_parent
  PROVE  SearchInv'
<1>1. PathValid'
  BY DEF PathValid
<1>2. QED
  BY <1>1 DEF SearchInv

(****************************************************************************)
(* A search begins.                                                         *)
(****************************************************************************)
LEMMA SearchStarts ==
  ASSUME SearchInv, SearchMarks, pc \in {"idle", "find_optimal"},
         m_out_degree' \in [Node -> Nat],
         NEW dir \in {"forward", "backward"}, NEW source \in Node, NEW for,
         startSearch(dir, source, for)
  PROVE  SearchInv' /\ SearchMarks' /\ pc' = "search"
<1>1. /\ pc' = "search" /\ direction' = dir
      /\ m_max_degree' = m_out_degree'[source] + (IF dir = "forward" THEN -1 ELSE 1)
      /\ open' = <<source>>
      /\ visited' = visited \cup {source} /\ touched' = touched \cup {source}
      /\ m_parent' = [m_parent EXCEPT ![source] = <<source, 1>>]
      /\ child_index' = child_index /\ path' = path
  BY DEF startSearch, walk
<1>2. visited \subseteq Node /\ path = <<>> /\ path' = <<>>
  BY <1>1 DEF SearchInv
<1>3. SearchMarks'
  BY <1>1 DEF SearchMarks
<1>4. PathValid'
  BY <1>2 DEF PathValid
<1>5. ~ends(source)'
  <2>1. m_out_degree'[source] \in Nat
    OBVIOUS
  <2>2. QED
    BY <1>1, <2>1 DEF ends
<1>6. PICK nodes \in SUBSET Node : nodes = {source}
  OBVIOUS
<1>7. Searching(nodes)'
  BY <1>1, <1>5, <1>6 DEF Searching
<1>8. PICK rank : rank = [v \in nodes |-> 0]
  OBVIOUS
<1>9. Tree(nodes, rank)'
  <2>1. m_parent'[source][1] = source
    BY <1>1 DEF SearchInv
  <2>2. QED
    BY <1>6, <1>8, <2>1 DEF Tree
<1>10. m_parent' = [v \in Node |-> m_parent'[v]]
  BY <1>1 DEF SearchInv
<1>11. QED
  BY <1>1, <1>2, <1>3, <1>4, <1>7, <1>9, <1>10 DEF SearchInv

(****************************************************************************)
(* The handlers, up to the search they start, if they start one.            *)
(****************************************************************************)
LEMMA Unsearched ==
  ASSUME SearchInv, SearchMarks, pc = "idle", pc' \in {"idle", "find_optimal"},
         UNCHANGED <<search, walk>>
  PROVE  SearchInv' /\ SearchMarks'
<1>1. /\ UNCHANGED visited /\ UNCHANGED touched /\ UNCHANGED child_index
      /\ UNCHANGED m_parent /\ UNCHANGED path
  BY DEF search, walk
<1>2. path = <<>> /\ path' = <<>> /\ visited' \subseteq Node
  BY <1>1 DEF SearchInv
<1>3. SearchInv'
  BY <1>1, <1>2, NoSearch
<1>4. SearchMarks'
  BY <1>1 DEF SearchMarks
<1>5. QED
  BY <1>3, <1>4

LEMMA InsertionStep ==
  ASSUME Inv, NEW source \in Node, NEW target \in Node, handleInsertion(source, target)
  PROVE  Inv'
<1>1. /\ pc = "idle" /\ source # target /\ WellLinked(m_adj, m_out_degree)
      /\ Matched(m_adj, edges) /\ edges \in [Edge -> Nat]
      /\ edges' = [edges EXCEPT ![{source, target}] = @ + 1]
      /\ SearchInv /\ SearchMarks
  BY DEF handleInsertion, Inv, ListsInv
<1>2. PICK s \in Node, t \in Node :
        /\ s # t /\ {s, t} = {source, target}
        /\ insertion_strong_opt_dfs(s, t) \/ insertion_improved_opt_dfs(s, t)
  <2>1. {target, source} = {source, target}
    OBVIOUS
  <2>2. CASE m_out_degree[source] > m_out_degree[target]
    <3>1. insertion_strong_opt_dfs(target, source) \/ insertion_improved_opt_dfs(target, source)
      BY <1>1, <2>2 DEF handleInsertion
    <3>2. QED
      BY <1>1, <2>1, <3>1
  <2>3. CASE ~(m_out_degree[source] > m_out_degree[target])
    <3>1. insertion_strong_opt_dfs(source, target) \/ insertion_improved_opt_dfs(source, target)
      BY <1>1, <2>3 DEF handleInsertion
    <3>2. QED
      BY <1>1, <3>1
  <2>4. QED
    BY <2>2, <2>3
<1>3. /\ m_adj' = ArcInserted(m_adj, m_out_degree, s, t)
      /\ m_out_degree' = [m_out_degree EXCEPT ![s] = @ + 1]
  BY <1>2 DEF insertion_strong_opt_dfs, insertion_improved_opt_dfs, insertArc
<1>4. edges' = [edges EXCEPT ![{s, t}] = @ + 1]
  BY <1>1, <1>2
<1>5. WellLinked(m_adj', m_out_degree') /\ Matched(m_adj', edges') /\ edges' \in [Edge -> Nat]
  BY ONLY <1>1, <1>2, <1>3, <1>4, ListsInserted
<1>6. startSearch("forward", s, "insertion") \/ noSearch
  BY <1>2 DEF insertion_strong_opt_dfs, insertion_improved_opt_dfs
<1>7. SearchInv' /\ SearchMarks' /\ pc' \in {"idle", "search"}
  <2>1. CASE startSearch("forward", s, "insertion")
    <3>1. m_out_degree' \in [Node -> Nat]
      BY <1>5 DEF WellLinked, ListsOK
    <3>2. QED
      BY <1>1, <2>1, <3>1, SearchStarts
  <2>2. CASE noSearch
    BY <1>1, <2>2, Unsearched DEF noSearch
  <2>3. QED
    BY <1>6, <2>1, <2>2
<1>8. ListsInv'
  BY <1>5, <1>7 DEF ListsInv
<1>9. QED
  BY <1>7, <1>8 DEF Inv

LEMMA DecrementedIsEnd ==
  ASSUME NEW source \in Node, NEW target \in Node
  PROVE  decremented(source, target) \in Node
BY DEF decremented

LEMMA LowerIfNoneReturns ==
  ASSUME NEW count, lowerIfNone(count)
  PROVE  pc' \in {"idle", "find_optimal"}
BY DEF lowerIfNone

LEMMA DeletionStep ==
  ASSUME Inv, NEW source \in Node, NEW target \in Node, handleDeletion(source, target)
  PROVE  Inv'
<1>1. /\ pc = "idle" /\ source # target /\ WellLinked(m_adj, m_out_degree)
      /\ Matched(m_adj, edges) /\ edges \in [Edge -> Nat] /\ edges[{source, target}] > 0
      /\ edges' = [edges EXCEPT ![{source, target}] = @ - 1]
      /\ SearchInv /\ SearchMarks
  BY DEF handleDeletion, Inv, ListsInv
<1>2. deletion_strong_opt_dfs(source, target) \/ deletion_improved_opt_dfs(source, target)
  BY DEF handleDeletion
<1>3. removeEdge(source, target)
  BY <1>2 DEF deletion_strong_opt_dfs, deletion_improved_opt_dfs
<1>4. PICK one : one = EntryRemoved(m_adj, m_out_degree, source,
                                    FirstEntry(m_adj, source, target))
  OBVIOUS
<1>5. PICK d1 : d1 = DegreeAfter(m_out_degree, source, FirstEntry(m_adj, source, target))
  OBVIOUS
<1>6. PICK k : k = m_adj[source][FirstEntry(m_adj, source, target)].second
  OBVIOUS
<1>7. /\ m_adj' = EntryRemoved(one, d1, target, k)
      /\ m_out_degree' = DegreeAfter(d1, target, k)
  BY <1>3, <1>4, <1>5, <1>6 DEF removeEdge
<1>8. WellLinked(m_adj', m_out_degree') /\ Matched(m_adj', edges') /\ edges' \in [Edge -> Nat]
  BY ONLY <1>1, <1>4, <1>5, <1>6, <1>7, ListsDeleted, source \in Node, target \in Node
<1>9. \/ startSearch("backward", decremented(source, target), "deletion")
      \/ lowerIfNone(max_node_count') /\ UNCHANGED <<search, walk>>
  BY <1>2 DEF deletion_strong_opt_dfs, deletion_improved_opt_dfs
<1>10. SearchInv' /\ SearchMarks' /\ pc' \in {"idle", "search", "find_optimal"}
  <2>1. CASE startSearch("backward", decremented(source, target), "deletion")
    <3>1. m_out_degree' \in [Node -> Nat]
      BY <1>8 DEF WellLinked, ListsOK
    <3>2. QED
      BY <1>1, <2>1, <3>1, SearchStarts, DecrementedIsEnd
  <2>2. CASE lowerIfNone(max_node_count') /\ UNCHANGED <<search, walk>>
    BY <1>1, <2>2, LowerIfNoneReturns, Unsearched
  <2>3. QED
    BY <1>9, <2>1, <2>2
<1>11. ListsInv'
  BY <1>8, <1>10 DEF ListsInv
<1>12. QED
  BY <1>10, <1>11 DEF Inv

(****************************************************************************)
(* What both searches do: they find nodes over entries of one node, and     *)
(* those that the search does not end at can be expanded in turn.           *)
(****************************************************************************)
\* The search has gone from node over valid entries: to found, from where it will go on, or to
\* a node at which it ends.
Discovery(nodes, node, found) ==
  /\ found \cap nodes = {}
  /\ m_parent' = [v \in Node |-> m_parent'[v]]
  /\ \A v \in Node \ found : m_parent'[v] = m_parent[v]
  /\ \A v \in found : m_parent'[v][1] = node /\ StepValid(node, m_parent'[v][2], v)
  /\ \/ /\ pc' = "search" /\ visited \cup found \subseteq visited'
        /\ open' \in Seq(nodes \cup found)
        /\ \A v \in found : ~ends(v)
     \/ pc' = "trace" /\ curNode' \in found /\ ends(curNode')

LEMMA Advances ==
  ASSUME SearchInv, pc = "search", NEW nodes \in SUBSET Node, NEW rank,
         Tree(nodes, rank), Searching(nodes),
         NEW node \in nodes, NEW found \in SUBSET Node, Discovery(nodes, node, found),
         m_adj' = m_adj, m_out_degree' = m_out_degree, direction' = direction,
         m_max_degree' = m_max_degree, path' = path, visited' \in SUBSET Node
  PROVE  SearchInv'
<1>1. UNCHANGED lists /\ UNCHANGED direction
  BY DEF lists
<1> USE DEF Discovery
<1>2. path = <<>> /\ path' = <<>>
  BY DEF SearchInv
<1>3. \A v \in nodes : m_parent'[v] = m_parent[v]
  OBVIOUS
<1>4. PICK later : Tree(nodes \cup found, later)'
  BY <1>1, <1>3, TreeGrows
<1>5. PICK after \in SUBSET Node : after = nodes \cup found
  OBVIOUS
<1>6. ASSUME pc' = "search" PROVE Searching(after)'
  <2>1. nodes \in SUBSET visited /\ \A v \in nodes : ~ends(v)
    BY DEF Searching
  <2>2. \A v \in after : ~ends(v) /\ ends(v)' = ends(v)
    BY <1>5, <1>6, <2>1 DEF ends
  <2>3. after \in SUBSET visited' /\ open' \in Seq(after)
    BY <1>5, <1>6, <2>1
  <2>4. QED
    BY <2>2, <2>3 DEF Searching
<1>7. ASSUME pc' = "trace" PROVE WalkedDown(after, later)'
  BY <1>2, <1>5, <1>7 DEF WalkedDown
<1>8. PathValid'
  BY <1>2 DEF PathValid
<1>9. QED
  BY <1>2, <1>4, <1>5, <1>6, <1>7, <1>8 DEF SearchInv

LEMMA FirstIsLeast ==
  ASSUME NEW S \in SUBSET Nat, S # {}
  PROVE  First(S) \in S /\ \A e \in S : First(S) <= e
BY LeastNatural DEF First

\* The entries a search goes through are valid steps.
LEMMA ScannedFacts ==
  ASSUME WellLinked(m_adj, m_out_degree), NEW node \in Node
  PROVE  /\ Len(m_adj[node]) \in Nat /\ scanned(node) \in SUBSET (1..Len(m_adj[node]))
         /\ \A e \in scanned(node) : /\ m_adj[node][e].first \in Node
                                     /\ StepValid(node, e, m_adj[node][e].first)
<1>1. /\ m_adj \in [Node -> Seq(Entry)] /\ m_out_degree[node] \in Nat
      /\ m_out_degree[node] <= Len(m_adj[node]) /\ Len(m_adj[node]) \in Nat
  BY DEF WellLinked, ListsOK
<1>2. scanned(node) \in SUBSET (1..Len(m_adj[node]))
  BY <1>1 DEF scanned
<1>3. ASSUME NEW e \in scanned(node)
      PROVE  m_adj[node][e].first \in Node /\ StepValid(node, e, m_adj[node][e].first)
  <2>1. e \in 1..Len(m_adj[node])
    BY <1>2
  <2>2. e <= m_out_degree[node] <=> direction = "forward"
    BY <1>1, <1>3, <2>1 DEF scanned
  <2>3. m_adj[node][e].first \in Node
    BY <1>1, <2>1, EntryFields
  <2>4. QED
    BY <2>1, <2>2, <2>3 DEF StepValid
<1>4. QED
  BY <1>1, <1>2, <1>3

(****************************************************************************)
(* Depth-first search; first the local definitions of expandTop.            *)
(****************************************************************************)
Top == Last(open)

Below(e) == m_adj[Top][e].first

Looked == IF child_index[Top] = 0 THEN {e \in scanned(Top) : ends(Below(e))} ELSE {}

Remaining == following(Top)

Border(v) == IF direction = "forward" THEN 0 ELSE m_out_degree[v]

Index == IF Remaining # {} THEN First(Remaining) - Border(Top)
         ELSE IF child_index[Top] < Cardinality(scanned(Top)) THEN Cardinality(scanned(Top))
                                                              ELSE child_index[Top]

Down == Remaining # {} /\ ~ends(Below(First(Remaining)))

Finals == (IF Remaining = {} \/ Down THEN {} ELSE {First(Remaining)})
            \cup (IF Looked = {} THEN {} ELSE {First(Looked)})

Ways == IF Remaining = {} THEN Finals ELSE Finals \cup {First(Remaining)}

LEMMA ExpandTopNamed ==
  ASSUME expandTop
  PROVE  /\ pc = "search" /\ open # <<>>
         /\ child_index' = [child_index EXCEPT ![Top] = Index]
         /\ m_parent' = [v \in Node |->
              IF \E e \in Ways : Below(e) = v
                THEN <<Top, First({e \in Ways : Below(e) = v})>> ELSE m_parent[v]]
         /\ IF Down THEN /\ visited' = visited \cup {Below(First(Remaining))}
                         /\ touched' = touched \cup {Below(First(Remaining))}
                    ELSE UNCHANGED <<visited, touched>>
         /\ IF Finals # {}
              THEN /\ pc' = "trace" /\ open' = <<>>
                   /\ curNode' = IF Remaining = {} \/ Down THEN Below(First(Looked))
                                                           ELSE Below(First(Remaining))
              ELSE /\ open' = IF Down THEN Append(open, Below(First(Remaining))) ELSE Front(open)
                   /\ UNCHANGED <<pc, curNode>>
         /\ UNCHANGED <<edges, lists, direction, m_max_degree, path>>
<1>2. child_index' = [child_index EXCEPT ![Top] = Index]
  BY Zenon DEF expandTop, Top, Remaining, Index, Border
<1>3. pc = "search" /\ open # <<>>
  BY DEF expandTop
<1>4. m_parent' = [v \in Node |->
              IF \E e \in Ways : Below(e) = v
                THEN <<Top, First({e \in Ways : Below(e) = v})>> ELSE m_parent[v]]
  BY Zenon DEF expandTop, Top, Below, Looked, Remaining, Down, Finals, Ways
<1>5. /\ IF Down THEN /\ visited' = visited \cup {Below(First(Remaining))}
                      /\ touched' = touched \cup {Below(First(Remaining))}
                 ELSE UNCHANGED <<visited, touched>>
      /\ UNCHANGED <<edges, lists, direction, m_max_degree, path>>
  BY Zenon DEF expandTop, Top, Below, Remaining, Down
<1>6. IF Finals # {}
        THEN /\ pc' = "trace" /\ open' = <<>>
             /\ curNode' = IF Remaining = {} \/ Down THEN Below(First(Looked))
                                                     ELSE Below(First(Remaining))
        ELSE /\ open' = IF Down THEN Append(open, Below(First(Remaining))) ELSE Front(open)
             /\ UNCHANGED <<pc, curNode>>
  BY Zenon DEF expandTop, Top, Below, Looked, Remaining, Down, Finals
<1>7. QED
  BY <1>2, <1>3, <1>4, <1>5, <1>6

\* Where the entries that are followed lead, and that there is one if the search ends.
LEMMA WaysFacts ==
  ASSUME WellLinked(m_adj, m_out_degree), Top \in Node
  PROVE  /\ Ways \in SUBSET scanned(Top) /\ scanned(Top) \in SUBSET Nat
         /\ Remaining # {} => /\ First(Remaining) \in Ways
                              /\ Below(First(Remaining)) \notin visited
         /\ \A e \in Ways : (Remaining # {} /\ e = First(Remaining)) \/ ends(Below(e))
         /\ Finals # {} /\ (Remaining = {} \/ Down) =>
              First(Looked) \in Ways /\ ends(Below(First(Looked)))
         /\ Finals = {} => \A e \in Ways : Down /\ e = First(Remaining)
<1>1. scanned(Top) \in SUBSET Nat
  <2>1. Len(m_adj[Top]) \in Nat /\ scanned(Top) \in SUBSET (1..Len(m_adj[Top]))
    BY ScannedFacts
  <2>2. QED
    BY <2>1
<1>2. Remaining \in SUBSET scanned(Top) /\ \A e \in Remaining : Below(e) \notin visited
  BY DEF Remaining, following, Below
<1>3. Remaining # {} => First(Remaining) \in Remaining
  <2>1. Remaining \in SUBSET Nat
    BY <1>1, <1>2
  <2>2. QED
    BY <2>1, FirstIsLeast
<1>4. Looked \in SUBSET scanned(Top) /\ \A e \in Looked : ends(Below(e))
  BY DEF Looked
<1>5. Looked # {} => First(Looked) \in Looked
  <2>1. Looked \in SUBSET Nat
    BY <1>1, <1>4
  <2>2. QED
    BY <2>1, FirstIsLeast
<1>6. Down => Remaining # {}
  BY DEF Down
<1>7. Ways \in SUBSET scanned(Top)
  BY <1>2, <1>3, <1>4, <1>5 DEF Ways, Finals
<1>8. \A e \in Ways : (Remaining # {} /\ e = First(Remaining)) \/ ends(Below(e))
  BY <1>4, <1>5 DEF Ways, Finals
<1>9. Finals # {} /\ (Remaining = {} \/ Down) =>
        First(Looked) \in Ways /\ ends(Below(First(Looked)))
  BY <1>4, <1>5 DEF Ways, Finals
<1>10. Finals = {} => \A e \in Ways : Down /\ e = First(Remaining)
  BY DEF Ways, Finals
<1>11. Remaining # {} => First(Remaining) \in Ways /\ Below(First(Remaining)) \notin visited
  BY <1>2, <1>3 DEF Ways
<1>12. QED
  BY <1>1, <1>7, <1>8, <1>9, <1>10, <1>11

LEMMA StackTop ==
  ASSUME NEW S, NEW s \in Seq(S), s # <<>>
  PROVE  Last(s) \in S /\ Front(s) \in Seq(S)
<1>1. Len(s) \in Nat /\ Len(s) >= 1
  OBVIOUS
<1>2. Last(s) \in S
  BY <1>1 DEF Last
<1>3. Front(s) \in Seq(S)
  BY <1>1 DEF Front
<1>4. QED
  BY <1>2, <1>3

LEMMA ExpandTopFinds ==
  ASSUME Inv, expandTop, NEW nodes \in SUBSET Node, Searching(nodes)
  PROVE  Top \in nodes /\ \E found \in SUBSET Node : Discovery(nodes, Top, found)
<1>1. pc = "search" /\ WellLinked(m_adj, m_out_degree) /\ visited \subseteq Node
  BY ExpandTopNamed DEF Inv, ListsInv, SearchInv
<1>2. nodes \in SUBSET visited /\ open \in Seq(nodes)
  BY DEF Searching
<1>3. Top \in nodes /\ Front(open) \in Seq(nodes)
  BY <1>2, ExpandTopNamed, StackTop DEF Top
<1>4. Top \in Node /\ Top \in visited
  BY <1>2, <1>3
<1>5. PICK found : found = {Below(e) : e \in Ways}
  OBVIOUS
<1>7. /\ Ways \in SUBSET scanned(Top) /\ scanned(Top) \in SUBSET Nat
      /\ \A e \in scanned(Top) : Below(e) \in Node /\ StepValid(Top, e, Below(e))
  BY <1>1, <1>4, WaysFacts, ScannedFacts DEF Below
<1>8. found \in SUBSET Node
  BY <1>5, <1>7
<1>9. found \cap nodes = {}
  <2>1. ASSUME NEW e \in Ways PROVE Below(e) \notin nodes
    BY <1>1, <1>2, <1>4, <2>1, WaysFacts DEF Searching
  <2>2. QED
    BY <1>5, <2>1
<1>10. /\ m_parent' = [v \in Node |-> m_parent'[v]]
       /\ \A v \in Node \ found : m_parent'[v] = m_parent[v]
  BY <1>5, ExpandTopNamed
<1>11. ASSUME NEW v \in found
       PROVE  m_parent'[v][1] = Top /\ StepValid(Top, m_parent'[v][2], v)
  <2>1. PICK over : over = {e \in Ways : Below(e) = v}
    OBVIOUS
  <2>2. over \in SUBSET Nat /\ over # {} /\ over \in SUBSET Ways
    BY <1>5, <1>7, <1>11, <2>1
  <2>3. First(over) \in over
    BY <2>2, FirstIsLeast
  <2>4. m_parent'[v] = <<Top, First(over)>>
    BY <1>5, <1>8, <1>11, <2>1, ExpandTopNamed
  <2>5. StepValid(Top, First(over), v)
    BY <1>7, <2>1, <2>2, <2>3
  <2>6. QED
    BY <2>4, <2>5
<1>12. \/ /\ pc' = "search" /\ visited \cup found \subseteq visited'
          /\ open' \in Seq(nodes \cup found)
          /\ \A v \in found : ~ends(v)
       \/ pc' = "trace" /\ curNode' \in found /\ ends(curNode')
  <2>1. CASE Finals = {}
    <3>1. pc' = "search"
      BY <1>1, <2>1, ExpandTopNamed
    <3>2. CASE Down
      <4>1. Remaining # {} /\ ~ends(Below(First(Remaining)))
        BY <3>2 DEF Down
      <4>2. found = {Below(First(Remaining))}
        BY <1>1, <1>4, <1>5, <2>1, <4>1, WaysFacts
      <4>3. visited' = visited \cup found
        BY <3>2, <4>2, ExpandTopNamed
      <4>4. open' = Append(open, Below(First(Remaining)))
        BY <2>1, <3>2, ExpandTopNamed
      <4>5. open \in Seq(nodes \cup found) /\ Below(First(Remaining)) \in nodes \cup found
        BY <1>2, <4>2 
      <4>6. open' \in Seq(nodes \cup found)
        BY <4>4, <4>5
      <4>7. QED
        BY <3>1, <4>1, <4>2, <4>3, <4>6
    <3>3. CASE ~Down
      <4>1. found = {}
        BY <1>1, <1>4, <1>5, <2>1, <3>3, WaysFacts
      <4>2. visited' = visited /\ open' = Front(open)
        BY <2>1, <3>3, ExpandTopNamed
      <4>3. nodes \cup found = nodes
        BY <4>1
      <4>4. QED
        BY <1>3, <3>1, <4>1, <4>2, <4>3
    <3>4. QED
      BY <3>2, <3>3
  <2>2. CASE Finals # {}
    <3>1. pc' = "trace"
      BY <2>2, ExpandTopNamed
    <3>2. PICK e \in Ways : curNode' = Below(e) /\ ends(Below(e))
      <4>1. CASE Remaining = {} \/ Down
        BY <1>1, <1>4, <2>2, <4>1, ExpandTopNamed, WaysFacts
      <4>2. CASE ~(Remaining = {} \/ Down)
        BY <1>1, <1>4, <2>2, <4>2, ExpandTopNamed, WaysFacts DEF Down
      <4>3. QED
        BY <4>1, <4>2
    <3>3. QED
      BY <1>5, <3>1, <3>2
  <2>3. QED
    BY <2>1, <2>2
<1>13. QED
  BY <1>3, <1>8, <1>9, <1>10, <1>11, <1>12 DEF Discovery

\* The entries that remain lie behind those looked at, and the index is that of the first.
LEMMA IndexFacts ==
  ASSUME WellLinked(m_adj, m_out_degree), Top \in Node, child_index \in [Node -> Nat]
  PROVE  /\ Border(Top) \in Nat /\ Index \in Nat
         /\ Remaining # {} => First(Remaining) = Border(Top) + Index
<1>1. Border(Top) \in Nat
  BY DEF Border, WellLinked, ListsOK
<1>2. child_index[Top] \in Nat
  OBVIOUS
<1>3. PICK N \in Nat : scanned(Top) \in SUBSET (1..N)
  BY ScannedFacts
<1>4. Cardinality(scanned(Top)) \in Nat
  BY <1>3, InOrderFacts
<1>5. CASE Remaining # {}
  <2>1. \A e \in Remaining : e \in Nat /\ e > Border(Top) + child_index[Top]
    <3>1. \A e \in scanned(Top) : e \in Nat
      BY <1>3
    <3>2. QED
      BY <3>1 DEF Remaining, following, Border
  <2>2. First(Remaining) \in Remaining
    <3>1. Remaining \in SUBSET Nat
      BY <2>1
    <3>2. QED
      BY <1>5, <3>1, FirstIsLeast
  <2>3. First(Remaining) \in Nat /\ First(Remaining) > Border(Top) + child_index[Top]
    BY <2>1, <2>2
  <2>4. Index = First(Remaining) - Border(Top)
    BY <1>5 DEF Index
  <2>5. QED
    BY <1>1, <1>2, <2>3, <2>4
<1>6. CASE Remaining = {}
  BY <1>1, <1>2, <1>4, <1>6 DEF Index
<1>7. QED
  BY <1>5, <1>6

LEMMA ExpandTopStep ==
  ASSUME Inv, expandTop
  PROVE  Inv'
<1>1. /\ pc = "search" /\ WellLinked(m_adj, m_out_degree) /\ SearchInv /\ SearchMarks
      /\ visited \subseteq Node
  BY ExpandTopNamed DEF Inv, ListsInv, SearchInv
<1>2. PICK nodes \in SUBSET Node : \E rank : Tree(nodes, rank) /\ Searching(nodes)
  BY <1>1 DEF SearchInv
<1> PICK rank : Tree(nodes, rank) /\ Searching(nodes)
  BY <1>2
<1>3. Top \in nodes
  BY <1>2, ExpandTopFinds
<1>4. Top \in Node /\ Top \in visited
  BY <1>2, <1>3 DEF Searching
<1>5. PICK found \in SUBSET Node : Discovery(nodes, Top, found)
  BY <1>2, ExpandTopFinds
<1>6. ListsStay /\ UNCHANGED direction /\ UNCHANGED m_max_degree /\ UNCHANGED path
  BY ExpandTopNamed DEF ListsStay, lists
<1>7. Ways \in SUBSET scanned(Top) /\ \A e \in scanned(Top) : Below(e) \in Node
  BY <1>1, <1>4, WaysFacts, ScannedFacts DEF Below
<1>13. visited' \in SUBSET Node /\ visited' \subseteq touched' /\ touched \subseteq touched'
  <2>1. CASE Down
    <3>1. Below(First(Remaining)) \in Node
      <4>1. First(Remaining) \in Ways
        BY <1>1, <1>4, <2>1, WaysFacts DEF Down
      <4>2. QED
        BY <1>7, <4>1
    <3>2. QED
      BY <1>1, <2>1, <3>1, ExpandTopNamed DEF SearchMarks
  <2>2. CASE ~Down
    BY <1>1, <2>2, ExpandTopNamed DEF SearchMarks
  <2>3. QED
    BY <2>1, <2>2
<1>14. SearchInv'
  <2>1. m_adj' = m_adj /\ m_out_degree' = m_out_degree
    BY <1>6 DEF ListsStay
  <2>2. QED
    BY <1>1, <1>2, <1>3, <1>5, <1>6, <1>13, <2>1, Advances
<1>15. SearchMarks'
  <2>1. child_index' = [child_index EXCEPT ![Top] = Index]
    BY ExpandTopNamed
  <2>2. child_index' \in [Node -> Nat]
    <3>1. Index \in Nat /\ child_index \in [Node -> Nat]
      BY <1>1, <1>4, IndexFacts DEF SearchMarks
    <3>2. QED
      BY <2>1, <3>1
  <2>3. \A v \in Node \ touched' : child_index'[v] = 0
    <3>1. Top \in touched'
      BY <1>1, <1>4, <1>13 DEF SearchMarks
    <3>2. QED
      BY <1>1, <1>13, <2>1, <3>1 DEF SearchMarks
  <2>4. pc' # "idle"
    BY <1>5 DEF Discovery
  <2>5. QED
    BY <1>13, <2>2, <2>3, <2>4 DEF SearchMarks
<1>16. ListsInv'
  BY <1>5, <1>6, ListsKept DEF Inv, Discovery
<1>17. QED
  BY <1>14, <1>15, <1>16 DEF Inv

(****************************************************************************)
(* Breadth-first search; first the local definitions of bfs.                *)
(****************************************************************************)
Beyond(e) == m_adj[Head(open)][e].first

Fresh == {e \in scanned(Head(open)) :
            /\ Beyond(e) \notin visited /\ admitted(Beyond(e))
            /\ \A f \in scanned(Head(open)) : f < e => Beyond(f) # Beyond(e)}

Final == {e \in Fresh : ends(Beyond(e))}

Taken == {e \in Fresh : \A f \in Final : e <= f}

Order == InOrder(Taken)

Found == {Beyond(e) : e \in Taken}

Over(v) == CHOOSE e \in Taken : Beyond(e) = v

LEMMA BfsNamed ==
  ASSUME bfs
  PROVE  /\ pc = "search" /\ open # <<>>
         /\ visited' = visited \cup Found /\ touched' = touched \cup Found
         /\ m_parent' = [v \in Node |-> IF v \in Found THEN <<Head(open), Over(v)>>
                                                       ELSE m_parent[v]]
         /\ IF Final = {}
              THEN /\ open' = Tail(open) \o [k \in DOMAIN Order |-> Beyond(Order[k])]
                   /\ UNCHANGED <<pc, curNode>>
              ELSE open' = <<>> /\ pc' = "trace" /\ curNode' = Beyond(Last(Order))
         /\ UNCHANGED <<edges, lists, direction, m_max_degree, child_index, path>>
<1>1. /\ pc = "search" /\ open # <<>>
      /\ visited' = visited \cup Found /\ touched' = touched \cup Found
      /\ m_parent' = [v \in Node |-> IF v \in Found THEN <<Head(open), Over(v)>>
                                                    ELSE m_parent[v]]
  BY Zenon DEF bfs, Beyond, Fresh, Final, Taken, Found, Over
<1>2. IF Final = {}
        THEN /\ open' = Tail(open) \o [k \in DOMAIN Order |-> Beyond(Order[k])]
             /\ UNCHANGED <<pc, curNode>>
        ELSE open' = <<>> /\ pc' = "trace" /\ curNode' = Beyond(Last(Order))
  BY Zenon DEF bfs, Beyond, Fresh, Final, Taken, Order
<1>3. UNCHANGED <<edges, lists, direction, m_max_degree, child_index, path>>
  BY DEF bfs
<1>4. QED
  BY <1>1, <1>2, <1>3

LEMMA TakenFacts ==
  ASSUME WellLinked(m_adj, m_out_degree), Head(open) \in Node
  PROVE  /\ Taken \in SUBSET scanned(Head(open)) /\ scanned(Head(open)) \in SUBSET Nat
         /\ \A e \in Taken : Beyond(e) \notin visited
         /\ Final = {} => \A e \in Taken : ~ends(Beyond(e))
         /\ Final # {} => Taken # {}
         /\ Cardinality(Taken) \in Nat /\ (Taken # {} => Cardinality(Taken) # 0)
         /\ Order \in [1..Cardinality(Taken) -> Taken]
<1>1. /\ Len(m_adj[Head(open)]) \in Nat
      /\ scanned(Head(open)) \in SUBSET (1..Len(m_adj[Head(open)]))
  BY ScannedFacts
<1>2. Fresh \in SUBSET scanned(Head(open)) /\ Final \in SUBSET Fresh /\ Taken \in SUBSET Fresh
  BY DEF Fresh, Final, Taken
<1>3. \A e \in Fresh : Beyond(e) \notin visited
  BY DEF Fresh
<1>4. Final = {} => \A e \in Taken : ~ends(Beyond(e))
  BY <1>2 DEF Final
<1>5. Final # {} => Taken # {}
  <2> SUFFICES ASSUME Final # {} PROVE Taken # {}
    OBVIOUS
  <2>1. Final \in SUBSET Nat
    BY <1>1, <1>2
  <2>2. PICK e \in Final : \A f \in Final : e <= f
    BY <2>1, LeastNatural
  <2>3. e \in Taken
    BY <1>2, <2>2 DEF Taken
  <2>4. QED
    BY <2>3
<1>6. PICK N \in Nat : Taken \in SUBSET (1..N)
  BY <1>1, <1>2
<1>7. /\ Cardinality(Taken) \in Nat /\ (Taken # {} => Cardinality(Taken) # 0)
      /\ Order \in [1..Cardinality(Taken) -> Taken]
  BY <1>6, InOrderFacts DEF Order
<1>8. scanned(Head(open)) \in SUBSET Nat
  BY <1>1
<1>9. QED
  BY <1>2, <1>3, <1>4, <1>5, <1>7, <1>8

\* The greatest of the positions is the last one in their order.
LEMMA InOrderLast ==
  ASSUME NEW N \in Nat, NEW T \in SUBSET (1..N), NEW p \in T, \A r \in T : r <= p
  PROVE  Last(InOrder(T)) = p
<1> PICK n, order : n = Cardinality(T) /\ order = InOrder(T)
  OBVIOUS
<1>1. /\ n \in Nat /\ n # 0 /\ order \in [1..n -> T] /\ Increasing(order, n)
      /\ \E k \in 1..n : order[k] = p
  BY InOrderFacts
<1>2. n \in 1..n /\ Last(order) = order[n] /\ order[n] \in T
  BY <1>1 DEF Last
<1>3. PICK k \in 1..n : order[k] = p
  BY <1>1
<1>4. CASE k # n
  <2>1. order[k] < order[n]
    BY <1>1, <1>2, <1>3, <1>4 DEF Increasing
  <2>2. order[n] <= p /\ p \in Nat /\ order[n] \in Nat
    <3>1. \A r \in T : r \in Nat
      OBVIOUS
    <3>2. QED
      BY <1>2, <3>1
  <2>3. QED
    BY <1>3, <2>1, <2>2
<1>5. QED
  BY <1>2, <1>3, <1>4

LEMMA BfsEnds ==
  ASSUME WellLinked(m_adj, m_out_degree), Head(open) \in Node, Final # {}
  PROVE  Last(Order) \in Final /\ Last(Order) \in Taken
<1>1. PICK N \in Nat : scanned(Head(open)) \in SUBSET (1..N)
  BY ScannedFacts
<1>2. Fresh \in SUBSET scanned(Head(open)) /\ Final \in SUBSET Fresh /\ Taken \in SUBSET Fresh
  BY DEF Fresh, Final, Taken
<1>3. Final \in SUBSET Nat
  BY <1>1, <1>2
<1>4. PICK p \in Final : \A f \in Final : p <= f
  BY <1>3, LeastNatural
<1>5. p \in Taken /\ \A r \in Taken : r <= p
  BY <1>2, <1>4 DEF Taken
<1>6. Last(Order) = p
  BY <1>1, <1>2, <1>5, InOrderLast DEF Order
<1>7. QED
  BY <1>4, <1>5, <1>6

LEMMA BfsFinds ==
  ASSUME Inv, bfs, NEW nodes \in SUBSET Node, Searching(nodes)
  PROVE  Head(open) \in nodes /\ Found \in SUBSET Node /\ Discovery(nodes, Head(open), Found)
<1>1. /\ pc = "search" /\ WellLinked(m_adj, m_out_degree) /\ open # <<>>
  BY BfsNamed DEF Inv, ListsInv
<1>3. PICK node : node = Head(open)
  OBVIOUS
<1>4. node \in nodes /\ Tail(open) \in Seq(nodes) /\ node \in Node
  BY <1>1, <1>3 DEF Searching
<1>5. PICK found : found = Found
  OBVIOUS
<1>7. /\ \A e \in Taken : Beyond(e) \in Node /\ StepValid(node, e, Beyond(e))
      /\ \A e \in Taken : Beyond(e) \notin visited
      /\ Final = {} => \A e \in Taken : ~ends(Beyond(e))
      /\ Final # {} => Taken # {}
      /\ Cardinality(Taken) \in Nat /\ (Taken # {} => Cardinality(Taken) # 0)
      /\ Order \in [1..Cardinality(Taken) -> Taken]
  <2>1. \A e \in scanned(node) : Beyond(e) \in Node /\ StepValid(node, e, Beyond(e))
    BY <1>1, <1>3, <1>4, ScannedFacts DEF Beyond
  <2>2. QED
    BY <1>1, <1>3, <1>4, <2>1, TakenFacts
<1>8. found \in SUBSET Node
  BY <1>5, <1>7 DEF Found
<1>9. found \cap nodes = {}
  BY <1>5, <1>7 DEF Found, Searching
<1>10. /\ m_parent' = [v \in Node |-> m_parent'[v]]
       /\ \A v \in Node \ found : m_parent'[v] = m_parent[v]
  BY <1>5, BfsNamed
<1>11. ASSUME NEW v \in found
       PROVE  m_parent'[v][1] = node /\ StepValid(node, m_parent'[v][2], v)
  <2>1. Over(v) \in Taken /\ Beyond(Over(v)) = v
    BY <1>5, <1>11 DEF Found, Over
  <2>2. m_parent'[v] = <<node, Over(v)>>
    BY <1>3, <1>5, <1>8, <1>11, BfsNamed
  <2>3. QED
    BY <1>7, <2>1, <2>2
<1>12. \/ /\ pc' = "search" /\ visited \cup found \subseteq visited'
          /\ open' \in Seq(nodes \cup found)
          /\ \A v \in found : ~ends(v)
       \/ pc' = "trace" /\ curNode' \in found /\ ends(curNode')
  <2>1. CASE Final = {}
    <3>1. PICK new : new = [k \in DOMAIN Order |-> Beyond(Order[k])]
      OBVIOUS
    <3>2. new \in Seq(found)
      <4>1. new = [k \in 1..Cardinality(Taken) |-> Beyond(Order[k])]
        BY <1>7, <3>1
      <4>2. \A k \in 1..Cardinality(Taken) : Beyond(Order[k]) \in found
        BY <1>5, <1>7 DEF Found
      <4>3. QED
        BY <1>7, <4>1, <4>2
    <3>3. open' = Tail(open) \o new /\ pc' = "search" /\ visited' = visited \cup found
      BY <1>1, <1>5, <2>1, <3>1, BfsNamed
    <3>4. new \in Seq(nodes \cup found) /\ Tail(open) \in Seq(nodes \cup found)
      BY <1>4, <3>2
    <3>5. open' \in Seq(nodes \cup found)
      BY <3>3, <3>4
    <3>6. \A v \in found : ~ends(v)
      BY <1>5, <1>7, <2>1 DEF Found
    <3>7. QED
      BY <3>3, <3>5, <3>6
  <2>2. CASE Final # {}
    <3>1. pc' = "trace" /\ curNode' = Beyond(Last(Order))
      BY <2>2, BfsNamed
    <3>2. Last(Order) \in Taken /\ ends(Beyond(Last(Order)))
      BY <1>1, <1>3, <1>4, <2>2, BfsEnds DEF Final
    <3>3. QED
      BY <1>5, <3>1, <3>2 DEF Found
  <2>3. QED
    BY <2>1, <2>2
<1>13. QED
  BY <1>3, <1>4, <1>5, <1>8, <1>9, <1>10, <1>11, <1>12 DEF Discovery

LEMMA BfsStep ==
  ASSUME Inv, bfs
  PROVE  Inv'
<1>1. /\ pc = "search" /\ SearchInv /\ SearchMarks /\ visited \subseteq Node
  BY BfsNamed DEF Inv, SearchInv
<1>2. PICK nodes \in SUBSET Node : \E rank : Tree(nodes, rank) /\ Searching(nodes)
  BY <1>1 DEF SearchInv
<1> PICK rank : Tree(nodes, rank) /\ Searching(nodes)
  BY <1>2
<1>3. PICK node \in nodes, found \in SUBSET Node :
        node = Head(open) /\ found = Found /\ Discovery(nodes, node, found)
  BY BfsFinds
<1>4. ListsStay /\ UNCHANGED direction /\ UNCHANGED m_max_degree /\ UNCHANGED path
  BY BfsNamed DEF ListsStay, lists
<1>5. /\ visited' \in SUBSET Node /\ visited' \subseteq touched' /\ touched \subseteq touched'
      /\ child_index' = child_index
  BY <1>1, <1>3, BfsNamed DEF SearchMarks
<1>6. SearchInv'
  <2>1. m_adj' = m_adj /\ m_out_degree' = m_out_degree
    BY <1>4 DEF ListsStay
  <2>2. QED
    BY <1>1, <1>2, <1>3, <1>4, <1>5, <2>1, Advances
<1>7. pc' \in {"search", "trace"}
  BY <1>3 DEF Discovery
<1>8. SearchMarks'
  BY <1>1, <1>5, <1>7 DEF SearchMarks
<1>9. ListsInv'
  BY <1>4, <1>7, ListsKept DEF Inv
<1>10. QED
  BY <1>6, <1>8, <1>9 DEF Inv

(****************************************************************************)
(* The walk back and the flips.                                             *)
(****************************************************************************)
LEMMA TraceStep ==
  ASSUME Inv, trace
  PROVE  Inv'
<1>1. /\ pc = "trace" /\ walkBack /\ UNCHANGED lists /\ UNCHANGED edges
      /\ UNCHANGED m_parent /\ UNCHANGED touched /\ UNCHANGED child_index
      /\ visited' \subseteq visited
  BY DEF trace, walkBack
<1>2. /\ PathValid /\ m_adj \in [Node -> Seq(Entry)] /\ SearchInv /\ SearchMarks
  BY DEF Inv, ListsInv, SearchInv, WellLinked, ListsOK
<1>3. PICK nodes \in SUBSET Node : \E rank : Tree(nodes, rank) /\ WalkedDown(nodes, rank)
  BY <1>1, <1>2 DEF SearchInv
<1>4. PICK rank : Tree(nodes, rank) /\ WalkedDown(nodes, rank)
  BY <1>3
<1>5. /\ PathValid' /\ pc' \in {"trace", "flip"}
      /\ Tree(nodes, rank)' /\ (pc' = "trace" => WalkedDown(nodes, rank)')
  BY <1>1, <1>2, <1>4, WalkBackKeeps
<1>6. SearchInv'
  BY <1>1, <1>2, <1>5 DEF SearchInv
<1>7. SearchMarks'
  BY <1>1, <1>2, <1>5 DEF SearchMarks
<1>8. ListsInv'
  BY <1>1, <1>5, ListsKept DEF Inv, ListsStay, lists
<1>9. QED
  BY <1>6, <1>7, <1>8 DEF Inv

LEMMA FlipStep ==
  ASSUME Inv, flip_active_edge \/ flip_reverse_edge
  PROVE  Inv'
<1>1. /\ pc = "flip" /\ pc' = "flip" /\ flipNext /\ UNCHANGED edges /\ UNCHANGED visited
      /\ UNCHANGED m_parent /\ UNCHANGED touched /\ UNCHANGED child_index
  BY DEF flip_active_edge, flip_reverse_edge, flipNext, otherThanFlips
<1>2. /\ WellLinked(m_adj, m_out_degree) /\ Matched(m_adj, edges) /\ edges \in [Edge -> Nat]
      /\ PathValid /\ SearchInv /\ SearchMarks
  BY DEF Inv, ListsInv, SearchInv
<1>3. WellLinked(m_adj', m_out_degree') /\ SameCopies(m_adj', m_adj) /\ PathValid'
  BY <1>1, <1>2, FlipNextKeeps
<1>4. Matched(m_adj', edges')
  BY <1>1, <1>2, <1>3 DEF Matched, SameCopies
<1>5. ListsInv'
  BY <1>1, <1>2, <1>3, <1>4 DEF ListsInv
<1>6. SearchInv'
  BY <1>1, <1>2, <1>3 DEF SearchInv
<1>7. SearchMarks'
  BY <1>1, <1>2 DEF SearchMarks
<1>8. QED
  BY <1>5, <1>6, <1>7 DEF Inv

(****************************************************************************)
(* The search returns, and the rounds of find_optimal.                      *)
(****************************************************************************)
LEMMA ResetMarks ==
  ASSUME SearchMarks, resetTouched
  PROVE  SearchMarks'
BY DEF SearchMarks, resetTouched

LEMMA Closed ==
  ASSUME Inv, pc = "find_optimal" \/ failed \/ succeeded, closeSearch,
         pc' \in {"idle", "find_optimal"},
         \/ resetTouched
         \/ pc' = "find_optimal" /\ UNCHANGED <<visited, child_index, touched>>
  PROVE  Inv'
<1>1. /\ SearchInv /\ SearchMarks /\ visited \subseteq Node
      /\ path = <<>> /\ path' = <<>> /\ m_parent' = m_parent
  BY DEF Inv, SearchInv, failed, succeeded, closeSearch, walk
<1>2. ListsInv'
  BY ListsKept DEF Inv, ListsStay, closeSearch, lists
<1>3. visited' \subseteq Node
  BY <1>1 DEF resetTouched
<1>4. SearchInv'
  BY <1>1, <1>3, NoSearch
<1>5. SearchMarks'
  <2>1. CASE resetTouched
    BY <1>1, <2>1, ResetMarks
  <2>2. CASE pc' = "find_optimal" /\ UNCHANGED <<visited, child_index, touched>>
    BY <1>1, <2>2 DEF SearchMarks
  <2>3. QED
    BY <2>1, <2>2
<1>6. QED
  BY <1>2, <1>4, <1>5 DEF Inv

LEMMA ReturnSteps ==
  ASSUME Inv, \/ returnFromInsertion \/ returnFromDeletion \/ returnFromRound
  PROVE  Inv'
<1>1. CASE returnFromInsertion
  BY <1>1, Closed DEF returnFromInsertion
<1>2. CASE returnFromDeletion
  <2>1. pc' \in {"idle", "find_optimal"}
    BY <1>2, LowerIfNoneReturns DEF returnFromDeletion
  <2>2. QED
    BY <1>2, <2>1, Closed DEF returnFromDeletion
<1>3. CASE returnFromRound
  <2>1. \/ resetTouched
        \/ pc' = "find_optimal" /\ UNCHANGED <<visited, child_index, touched>>
    BY <1>3 DEF returnFromRound
  <2>2. QED
    BY <1>3, <2>1, Closed DEF returnFromRound
<1>4. QED
  BY <1>1, <1>2, <1>3

LEMMA EndRoundStep ==
  ASSUME Inv, endRound
  PROVE  Inv'
<1>1. pc = "find_optimal" /\ pc' \in {"idle", "find_optimal"} /\ resetTouched /\ closeSearch
  BY DEF endRound
<1>2. QED
  BY <1>1, Closed

LEMMA TryNodeStep ==
  ASSUME Inv, tryNode
  PROVE  Inv'
<1>1. /\ pc = "find_optimal" /\ ahead # {} /\ ListsStay
      /\ WellLinked(m_adj, m_out_degree) /\ SearchInv /\ SearchMarks
  BY DEF tryNode, Inv, ListsInv, ListsStay, lists
<1>2. First(ahead) \in Node
  <2>1. ahead \in SUBSET Nat /\ ahead \in SUBSET Node
    <3>1. Cardinality(Node) \in Nat
      BY NodeAssumption, FS_CardinalityType
    <3>2. Node \in SUBSET Nat
      BY <3>1, NumberedAssumption
    <3>3. QED
      BY <3>2 DEF ahead
  <2>2. QED
    BY <1>1, <2>1, FirstIsLeast
<1>3. CASE startSearch("forward", First(ahead), "find_optimal")
  <2>1. m_out_degree' \in [Node -> Nat]
    BY <1>1 DEF ListsStay, WellLinked, ListsOK
  <2>2. SearchInv' /\ SearchMarks' /\ pc' = "search"
    BY <1>1, <1>2, <1>3, <2>1, SearchStarts
  <2>3. ListsInv'
    BY <1>1, <2>2, ListsKept DEF Inv
  <2>4. QED
    BY <2>2, <2>3 DEF Inv
<1>4. CASE noSearch
  <2>1. /\ pc' = "find_optimal" /\ UNCHANGED visited /\ UNCHANGED touched
        /\ UNCHANGED child_index /\ UNCHANGED m_parent /\ UNCHANGED path
    BY <1>1, <1>4 DEF noSearch, search, walk
  <2>2. path = <<>> /\ path' = <<>> /\ visited' \subseteq Node
    BY <1>1, <2>1 DEF SearchInv
  <2>3. SearchInv'
    BY <1>1, <2>1, <2>2, NoSearch
  <2>4. SearchMarks'
    BY <1>1, <2>1 DEF SearchMarks
  <2>5. ListsInv'
    BY <1>1, <2>1, ListsKept DEF Inv
  <2>6. QED
    BY <2>3, <2>4, <2>5 DEF Inv
<1>5. QED
  BY <1>3, <1>4 DEF tryNode

(****************************************************************************)
(* The invariant holds.                                                     *)
(****************************************************************************)
LEMMA StutterStep ==
  ASSUME Inv, UNCHANGED vars
  PROVE  Inv'
<1>1. /\ ListsStay /\ UNCHANGED lists /\ UNCHANGED direction /\ UNCHANGED pc
      /\ UNCHANGED visited /\ UNCHANGED open /\ UNCHANGED m_parent /\ UNCHANGED touched
      /\ UNCHANGED child_index /\ UNCHANGED curNode /\ UNCHANGED path
      /\ UNCHANGED m_out_degree /\ UNCHANGED m_max_degree
  BY DEF vars, search, walk, lists, ListsStay
<1>2. SearchInv /\ SearchMarks
  BY DEF Inv
<1>3. ListsInv'
  BY <1>1, ListsKept DEF Inv, ListsInv
<1>4. PathValid'
  BY <1>1, <1>2, PathKept DEF SearchInv
<1>5. \A v : ends(v)' = ends(v)
  BY <1>1 DEF ends
<1>6. ASSUME pc = "search"
      PROVE  \E nodes \in SUBSET Node : \E rank : Tree(nodes, rank)' /\ Searching(nodes)'
  <2>1. PICK nodes \in SUBSET Node : \E rank : Tree(nodes, rank) /\ Searching(nodes)
    BY <1>2, <1>6 DEF SearchInv
  <2>2. PICK rank : Tree(nodes, rank) /\ Searching(nodes)
    BY <2>1
  <2>3. Tree(nodes, rank)'
    BY <1>1, <2>2, TreeKept
  <2>4. Searching(nodes)'
    BY <1>1, <1>5, <2>2 DEF Searching
  <2>5. QED
    BY <2>3, <2>4
<1>7. ASSUME pc = "trace"
      PROVE  \E nodes \in SUBSET Node : \E rank : Tree(nodes, rank)' /\ WalkedDown(nodes, rank)'
  <2>1. PICK nodes \in SUBSET Node : \E rank : Tree(nodes, rank) /\ WalkedDown(nodes, rank)
    BY <1>2, <1>7 DEF SearchInv
  <2>2. PICK rank : Tree(nodes, rank) /\ WalkedDown(nodes, rank)
    BY <2>1
  <2>3. Tree(nodes, rank)'
    BY <1>1, <2>2, TreeKept
  <2>4. WalkedDown(nodes, rank)'
    BY <1>1, <2>2 DEF WalkedDown
  <2>5. QED
    BY <2>3, <2>4
<1>8. SearchInv'
  BY <1>1, <1>2, <1>4, <1>6, <1>7 DEF SearchInv
<1>9. SearchMarks'
  BY <1>1, <1>2 DEF SearchMarks
<1>10. QED
  BY <1>3, <1>8, <1>9 DEF Inv

LEMMA InvStep == Inv /\ [Next]_vars => Inv'
<1> SUFFICES ASSUME Inv, [Next]_vars PROVE Inv'
  OBVIOUS
<1>1. CASE dfs_forward_correct_2 \/ dfs_backward_correct_2 \/ dfs_forward_shared_visited_correct_2
  BY <1>1, ExpandTopStep
     DEF dfs_forward_correct_2, dfs_backward_correct_2, dfs_forward_shared_visited_correct_2
<1>2. CASE bfs \/ trace \/ flip_active_edge \/ flip_reverse_edge
  BY <1>2, BfsStep, TraceStep, FlipStep
<1>3. CASE returnFromInsertion \/ returnFromDeletion \/ returnFromRound
  BY <1>3, ReturnSteps
<1>4. CASE tryNode \/ endRound
  BY <1>4, TryNodeStep, EndRoundStep
<1>5. CASE \E source, target \in Node : \/ handleInsertion(source, target)
                                        \/ handleDeletion(source, target)
  BY <1>5, InsertionStep, DeletionStep
<1>6. QED
  BY <1>1, <1>2, <1>3, <1>4, <1>5, StutterStep DEF Next, handlerStep

LEMMA InvAlways == Spec => []Inv
BY InvInitially, InvStep, PTL DEF Spec

\* Whichever search found it, depth-first or breadth-first, and whatever other searches of
\* its round have marked, the path is flipped over the entries that were meant: the
\* positions that the search recorded are valid when their turn comes.
THEOREM PathAlwaysValid == Spec => []PathStaysValid
<1>1. Inv => PathStaysValid
  BY ValidPathStays DEF Inv, ListsInv, SearchInv, WellLinked, ListsOK
<1>2. QED
  BY <1>1, InvAlways, PTL

LEMMA LinkedAndMatched ==
  ASSUME Inv
  PROVE  /\ MirrorsAgree(m_adj) /\ OneSideActive(m_adj, m_out_degree)
         /\ Matched(m_adj, edges)
<1>1. PICK entries, degree : entries = m_adj /\ degree = m_out_degree
  OBVIOUS
<1>2. WellLinked(entries, degree) /\ Matched(m_adj, edges)
  BY <1>1 DEF Inv, ListsInv
<1>3. QED
  BY <1>1, <1>2, LinkedThroughout

\* The links between the two entries of an edge are never broken, not between the flips of
\* a path and not between the rounds of find_optimal either, and the lists hold as many
\* entries for an edge as the graph has copies of it.
THEOREM ListsAlwaysMatch ==
  Spec => [](/\ MirrorsAgree(m_adj) /\ OneSideActive(m_adj, m_out_degree)
             /\ Matched(m_adj, edges))
<1>1. Inv => /\ MirrorsAgree(m_adj) /\ OneSideActive(m_adj, m_out_degree)
             /\ Matched(m_adj, edges)
  BY LinkedAndMatched
<1>2. QED
  BY <1>1, InvAlways, PTL

\* When a handler has returned, the lists are linked and no search has left a node marked
\* as visited or an index into its entries: not even the searches of find_optimal, which
\* share both during a round and take inner nodes of the paths out of them again.
THEOREM SearchStateAlwaysClean == Spec => []SearchStateClean
<1>1. ASSUME Inv PROVE SearchStateClean
  <2>1. MirrorsAgree(m_adj) /\ OneSideActive(m_adj, m_out_degree)
    BY <1>1, LinkedAndMatched
  <2>2. pc = "idle" => /\ visited = {} /\ touched = {}
                       /\ child_index = [v \in Node |-> 0]
    BY <1>1 DEF Inv, SearchMarks
  <2>3. QED
    BY <2>1, <2>2 DEF SearchStateClean
<1>2. QED
  BY <1>1, InvAlways, PTL

(****************************************************************************)
(* The counters and the optimality: CoreInv says what the lists and the     *)
(* search hold between the steps as long as find_optimal has not been       *)
(* skipped.  Between the handlers strong_opt_dfs leaves no gap, and the     *)
(* others a core, which shows that the maximum they count is needed.        *)
(****************************************************************************)
\* What a round knows of counts c, d: some nodes of the maximum have nowhere to hand an arc
\* to, so a round does not end with every search successful.
RoundLevel(c, d, coming) ==
  /\ max_out_degree \in Nat /\ max_out_degree > 1 /\ max_node_count = 0
  /\ AtMost(d, max_out_degree)
  /\ \E P : Plateau(c, d, max_out_degree, P) /\ (all_path_improved => P \subseteq coming)

\* What it knows of the nodes that it has tried, until a search succeeds.
RoundTried(c, d, coming) ==
  ~path_improved =>
    \E T : Tried(c, d, max_out_degree, T) /\ AtLevel(d, max_out_degree) \ coming \subseteq T

Coming == {v \in Node : v >= i}

\* The marks that searches share are those of searches that have failed.
MarksClosed ==
  ~path_improved => /\ Tried(Counts, m_out_degree, max_out_degree, visited)
                    /\ \A v \in Node \ visited : child_index[v] = 0

CoreIdle ==
  IF algorithm = "STRONG_OPT_DFS"
    THEN NoGap(Counts, m_out_degree)
    ELSE Known(Counts, m_out_degree, max_out_degree, max_node_count)

CoreRound ==
  /\ algorithm # "STRONG_OPT_DFS"
  /\ RoundLevel(Counts, m_out_degree, Coming) /\ RoundTried(Counts, m_out_degree, Coming)
  /\ MarksClosed

\* The search from s after an update.
UpdateSearch(s) ==
  /\ caller \in {"insertion", "deletion"}
  /\ direction = (IF caller = "insertion" THEN "forward" ELSE "backward")
  /\ \E c0, d0, t :
       /\ Update(direction, m_max_degree, c0, d0, s, t, Counts, m_out_degree)
       /\ IF algorithm = "STRONG_OPT_DFS"
            THEN NoGap(c0, d0)
            ELSE /\ Certified(c0, d0, max_out_degree, max_node_count)
                 /\ \/ m_max_degree + 1 = max_out_degree
                    \/ caller = "insertion" /\ m_max_degree = max_out_degree

\* The search from s in a round.
RoundSearch(s) ==
  /\ caller = "find_optimal" /\ algorithm # "STRONG_OPT_DFS" /\ direction = "forward"
  /\ m_max_degree \in Nat /\ m_max_degree + 1 = max_out_degree
  /\ m_out_degree[s] = max_out_degree
  /\ RoundLevel(Counts, m_out_degree, Coming \cup {s})
  /\ RoundTried(Counts, m_out_degree, Coming \cup {s})

Ready(s) == UpdateSearch(s) \/ RoundSearch(s)

\* An entry that the search has looked at leads to a node found, or to one it may not enter.
Passed(v, e) == m_adj[v][e].first \in visited \/ ~admitted(m_adj[v][e].first)

\* What lies beyond the nodes found has been looked at, or their turn will come.
Swept(s) ==
  /\ \A v \in visited : ~ends(v)
  /\ caller # "find_optimal" => \A v \in visited \ {s} : m_out_degree[v] = m_max_degree
  /\ \A v \in visited, w \in Node :
       Leads(direction, Counts, v, w) => \/ w \in visited
                                         \/ ~admitted(w)
                                         \/ \E k \in 1..Len(open) : open[k] = v
  /\ \A v \in visited : \A e \in scanned(v) : e <= Border(v) + child_index[v] => Passed(v, e)
  /\ \A v \in Node \ visited : child_index[v] = 0

\* A round in which a search has succeeded goes on without a claim about its marks.
Careless == caller = "find_optimal" /\ path_improved

\* The search goes over nodes, from s.
Rooted(nodes, s) == RootIs(nodes, s) /\ Reached(direction, Counts, nodes, s)

SearchFrom(s) ==
  /\ Ready(s)
  /\ \E nodes \in SUBSET Node : \E rank :
       Tree(nodes, rank) /\ Searching(nodes) /\ Rooted(nodes, s)
  /\ Careless \/ Swept(s)

WalkFrom(s) ==
  /\ Ready(s)
  /\ \E nodes \in SUBSET Node : \E rank :
       /\ Tree(nodes, rank) /\ WalkedDown(nodes, rank) /\ Rooted(nodes, s)
       /\ Walked(nodes, s)

\* What will be known of counts c, d when the path is turned.
Repaired(c, d) ==
  IF caller = "find_optimal"
    THEN algorithm # "STRONG_OPT_DFS" /\ RoundLevel(c, d, Coming)
    ELSE IF algorithm = "STRONG_OPT_DFS"
      THEN NoGap(c, d)
      ELSE IF caller = "insertion"
        THEN /\ max_node_count \in Nat
             /\ Certified(c, d, max_out_degree, IF m_max_degree + 1 = max_out_degree
                                                   THEN max_node_count ELSE max_node_count + 1)
        ELSE Thinned(c, d, max_out_degree, max_node_count - 1)

CoreFlip ==
  \E c, d, last : Turning(direction, path, Counts, m_out_degree, c, d, last) /\ Repaired(c, d)

CoreInv ==
  /\ algorithm \in Algorithms
  /\ ~lapsed => /\ pc = "idle" => CoreIdle
                /\ pc = "search" => \E s \in Node : SearchFrom(s)
                /\ pc = "trace" => \E s \in Node : WalkFrom(s)
                /\ pc = "flip" => CoreFlip
                /\ pc = "find_optimal" => CoreRound

LEMMA CoreInitially == Init => CoreInv
<1> SUFFICES ASSUME Init PROVE CoreInv
  OBVIOUS
<1>1. /\ algorithm \in Algorithms /\ pc = "idle" /\ m_out_degree = [v \in Node |-> 0]
      /\ max_out_degree = 0 /\ max_node_count = 0
  BY DEF Init
<1>2. NoGap(Counts, m_out_degree)
  BY <1>1, NothingNoGap DEF Counts
<1>3. Known(Counts, m_out_degree, max_out_degree, max_node_count)
  BY <1>1 DEF Known
<1>4. QED
  BY <1>1, <1>2, <1>3 DEF CoreInv, CoreIdle

\* A step of the search, or of the walk back.
Steady ==
  UNCHANGED <<algorithm, counters, lists, caller, direction, m_max_degree, loop, lapsed>>

LEMMA SteadyFacts ==
  ASSUME Steady
  PROVE  /\ UNCHANGED algorithm /\ UNCHANGED max_out_degree /\ UNCHANGED max_node_count
         /\ UNCHANGED m_adj /\ UNCHANGED m_out_degree /\ UNCHANGED direction
         /\ UNCHANGED m_max_degree /\ UNCHANGED caller
         /\ UNCHANGED i /\ UNCHANGED path_improved /\ UNCHANGED all_path_improved
         /\ UNCHANGED lapsed /\ UNCHANGED lists /\ Counts' = Counts /\ Coming' = Coming
         /\ Careless' = Careless
BY DEF Steady, lists, counters, loop, Counts, Coming, Careless

LEMMA KnowledgeKept ==
  ASSUME Steady, NEW c, NEW d, NEW coming
  PROVE  /\ RoundLevel(c, d, coming) => RoundLevel(c, d, coming)'
         /\ RoundTried(c, d, coming) => RoundTried(c, d, coming)'
         /\ Repaired(c, d) => Repaired(c, d)'
<1>1. RoundLevel(c, d, coming) => RoundLevel(c, d, coming)'
  BY SteadyFacts DEF RoundLevel
<1>2. RoundTried(c, d, coming) => RoundTried(c, d, coming)'
  BY SteadyFacts DEF RoundTried
<1>3. RoundLevel(c, d, Coming) => RoundLevel(c, d, Coming)'
  BY SteadyFacts DEF RoundLevel
<1>4. Repaired(c, d) => Repaired(c, d)'
  BY <1>3, SteadyFacts DEF Repaired
<1>5. QED
  BY <1>1, <1>2, <1>4

LEMMA ReadyKept ==
  ASSUME Steady, NEW s, Ready(s)
  PROVE  Ready(s)'
<1>1. CASE UpdateSearch(s)
  <2>1. PICK c0, d0, t :
       /\ Update(direction, m_max_degree, c0, d0, s, t, Counts, m_out_degree)
       /\ IF algorithm = "STRONG_OPT_DFS"
            THEN NoGap(c0, d0)
            ELSE /\ Certified(c0, d0, max_out_degree, max_node_count)
                 /\ \/ m_max_degree + 1 = max_out_degree
                    \/ caller = "insertion" /\ m_max_degree = max_out_degree
    BY <1>1 DEF UpdateSearch
  <2>2. /\ Update(direction', m_max_degree', c0, d0, s, t, Counts', m_out_degree')
        /\ IF algorithm' = "STRONG_OPT_DFS"
             THEN NoGap(c0, d0)
             ELSE /\ Certified(c0, d0, max_out_degree', max_node_count')
                  /\ \/ m_max_degree' + 1 = max_out_degree'
                     \/ caller' = "insertion" /\ m_max_degree' = max_out_degree'
    BY <2>1, SteadyFacts
  <2>3. UpdateSearch(s)'
    BY <1>1, <2>2, SteadyFacts DEF UpdateSearch
  <2>4. QED
    BY <2>3 DEF Ready
<1>2. CASE RoundSearch(s)
  <2>1. PICK c, d, coming : c = Counts /\ d = m_out_degree /\ coming = Coming \cup {s}
    OBVIOUS
  <2>2. RoundLevel(c, d, coming)' /\ RoundTried(c, d, coming)'
    BY <1>2, <2>1, KnowledgeKept DEF RoundSearch
  <2>3. RoundSearch(s)'
    BY <1>2, <2>1, <2>2, SteadyFacts DEF RoundSearch
  <2>4. QED
    BY <2>3 DEF Ready
<1>3. QED
  BY <1>1, <1>2 DEF Ready

LEMMA CoreStutter ==
  ASSUME CoreInv, UNCHANGED vars
  PROVE  CoreInv'
<1>1. /\ Steady /\ UNCHANGED visited /\ UNCHANGED open /\ UNCHANGED pc
      /\ UNCHANGED m_parent /\ UNCHANGED curNode /\ UNCHANGED path /\ UNCHANGED child_index
  BY DEF vars, search, walk, lists, counters, Steady
<1>2. /\ UNCHANGED algorithm /\ UNCHANGED lapsed
      /\ UNCHANGED m_adj /\ UNCHANGED m_out_degree /\ Counts' = Counts /\ Coming' = Coming
      /\ UNCHANGED max_out_degree /\ UNCHANGED max_node_count /\ UNCHANGED path_improved
      /\ UNCHANGED direction /\ UNCHANGED m_max_degree /\ UNCHANGED caller
  BY <1>1, SteadyFacts
<1>3. CoreIdle => CoreIdle'
  BY <1>2 DEF CoreIdle
<1>4. CoreRound => CoreRound'
  <2>1. PICK c, d, coming : c = Counts /\ d = m_out_degree /\ coming = Coming
    OBVIOUS
  <2>2. CoreRound => RoundLevel(c, d, coming)' /\ RoundTried(c, d, coming)'
    BY <1>1, <2>1, KnowledgeKept DEF CoreRound
  <2>3. MarksClosed => MarksClosed'
    BY <1>1, <1>2 DEF MarksClosed
  <2>4. QED
    BY <1>2, <2>1, <2>2, <2>3 DEF CoreRound
<1>5. CoreFlip => CoreFlip'
  <2> SUFFICES ASSUME CoreFlip PROVE CoreFlip'
    OBVIOUS
  <2>1. PICK c, d, last :
          Turning(direction, path, Counts, m_out_degree, c, d, last) /\ Repaired(c, d)
    BY DEF CoreFlip
  <2>2. Turning(direction', path', Counts', m_out_degree', c, d, last)
    BY <1>1, <1>2, <2>1
  <2>3. Repaired(c, d)'
    BY <1>1, <2>1, KnowledgeKept
  <2>4. QED
    BY <2>2, <2>3 DEF CoreFlip
<1>6. ASSUME NEW nodes, NEW rank, NEW s
      PROVE  /\ Tree(nodes, rank) => Tree(nodes, rank)'
             /\ Searching(nodes) => Searching(nodes)'
             /\ WalkedDown(nodes, rank) => WalkedDown(nodes, rank)'
             /\ Rooted(nodes, s) => Rooted(nodes, s)'
             /\ Walked(nodes, s) => Walked(nodes, s)'
  <2>1. Tree(nodes, rank) => Tree(nodes, rank)'
    <3>1. UNCHANGED lists /\ UNCHANGED direction /\ \A v \in nodes : m_parent'[v] = m_parent[v]
      BY <1>1, SteadyFacts
    <3>2. QED
      BY <1>1, <1>2, <3>1 DEF Tree, StepValid
  <2>2. Searching(nodes) => Searching(nodes)'
    BY <1>1, <1>2 DEF Searching, ends
  <2>3. WalkedDown(nodes, rank) => WalkedDown(nodes, rank)'
    BY <1>1 DEF WalkedDown
  <2>4. Rooted(nodes, s) => Rooted(nodes, s)'
    BY <1>1, <1>2 DEF Rooted, RootIs
  <2>5. Walked(nodes, s) => Walked(nodes, s)'
    BY <1>1, <1>2 DEF Walked
  <2>6. QED
    BY <2>1, <2>2, <2>3, <2>4, <2>5
<1>7. ASSUME NEW s \in Node, SearchFrom(s) PROVE SearchFrom(s)'
  <2>1. Ready(s)'
    BY <1>1, <1>7, ReadyKept DEF SearchFrom
  <2>2. \E nodes \in SUBSET Node : \E rank :
          (Tree(nodes, rank) /\ Searching(nodes) /\ Rooted(nodes, s))'
    BY <1>6, <1>7 DEF SearchFrom
  <2>3. (Careless \/ Swept(s))'
    BY <1>1, <1>2, <1>7 DEF SearchFrom, Careless, Swept, ends, admitted, scanned, Border, Passed
  <2>4. QED
    BY <2>1, <2>2, <2>3 DEF SearchFrom
<1>8. ASSUME NEW s \in Node, WalkFrom(s) PROVE WalkFrom(s)'
  <2>1. Ready(s)'
    BY <1>1, <1>8, ReadyKept DEF WalkFrom
  <2>2. \E nodes \in SUBSET Node : \E rank :
          (Tree(nodes, rank) /\ WalkedDown(nodes, rank) /\ Rooted(nodes, s) /\ Walked(nodes, s))'
    BY <1>6, <1>8 DEF WalkFrom
  <2>3. QED
    BY <2>1, <2>2 DEF WalkFrom
<1>9. QED
  BY <1>1, <1>2, <1>3, <1>4, <1>5, <1>7, <1>8 DEF CoreInv

(****************************************************************************)
(* The walk back and the flips.                                             *)
(****************************************************************************)
LEMMA ReadyDegrees ==
  ASSUME WellLinked(m_adj, m_out_degree), NEW s \in Node, Ready(s)
  PROVE  ~EndsAt(direction, m_out_degree, m_max_degree, s)
<1>1. \A v \in Node : m_out_degree[v] \in Nat
  BY DEF WellLinked, ListsOK
<1>2. CASE UpdateSearch(s)
  <2>1. PICK c0, d0, t :
          Update(direction, m_max_degree, c0, d0, s, t, Counts, m_out_degree)
    BY <1>2 DEF UpdateSearch
  <2>2. m_max_degree = d0[s] /\ d0[s] \in Nat
    BY <2>1 DEF Update, Counted
  <2>3. IF direction = "forward" THEN m_out_degree[s] = d0[s] + 1
                                 ELSE d0[s] = m_out_degree[s] + 1
    BY <2>1 DEF Update, DegMore
  <2>4. QED
    BY <1>1, <2>2, <2>3 DEF EndsAt
<1>3. CASE RoundSearch(s)
  <2>1. direction = "forward" /\ m_out_degree[s] = m_max_degree + 1 /\ m_max_degree \in Nat
    BY <1>3 DEF RoundSearch
  <2>2. QED
    BY <2>1 DEF EndsAt
<1>4. QED
  BY <1>2, <1>3 DEF Ready

\* The walk back is over: what the turned path will change.
LEMMA WalkTurns ==
  ASSUME WellLinked(m_adj, m_out_degree), m_parent[curNode][1] = curNode,
         NEW nodes \in SUBSET Node, NEW rank, WalkedDown(nodes, rank),
         NEW s \in Node, Ready(s), Rooted(nodes, s), Walked(nodes, s)
  PROVE  \E c, d, last, A, On : \E f \in Node :
           /\ EndsAt(direction, m_out_degree, m_max_degree, f)
           /\ Turning(direction, path, Counts, m_out_degree, c, d, last)
           /\ Crossing(direction, s, f, Counts, m_out_degree, A, On, c, d)
<1>1. curNode = s /\ Reached(direction, Counts, nodes, s)
  BY DEF RootIs, WalkedDown, Rooted
<1>2. PICK f \in nodes : /\ EndsAt(direction, m_out_degree, m_max_degree, f)
                         /\ PathFrom(direction, Counts, path, s, f, curNode)
                         /\ OnSteps(path) \subseteq nodes
  BY DEF Walked
<1>3. f # s
  BY <1>2, ReadyDegrees
<1> PICK dir, c1, d1, p : dir = direction /\ c1 = Counts /\ d1 = m_out_degree /\ p = path
  OBVIOUS
<1>4. /\ Counted(c1, d1) /\ Reached(dir, c1, nodes, s) /\ PathFrom(dir, c1, p, s, f, s)
      /\ OnSteps(p) \subseteq nodes
  BY <1>1, <1>2, CountsCounted
<1>5. \E c, d, last, A, On : /\ Turning(dir, p, c1, d1, c, d, last)
                             /\ Crossing(dir, s, f, c1, d1, A, On, c, d)
  BY ONLY <1>3, <1>4, s \in Node, nodes \in SUBSET Node, f \in nodes, PathTurns
<1>6. QED
  BY <1>2, <1>5

\* The core when an arc has been passed on after an update.
Mended(dir, m, k, n, c, d) ==
  /\ dir = "forward" /\ m + 1 = k => Certified(c, d, k, n)
  /\ dir = "forward" /\ m = k => Certified(c, d, k, n + 1)
  /\ dir # "forward" /\ m + 1 = k => Thinned(c, d, k, n - 1)

LEMMA UpdateRepairs ==
  ASSUME NEW k, NEW n, NEW m, NEW c0, NEW d0, NEW c1, NEW d1, NEW s \in Node, NEW t, NEW dir,
         Update(dir, m, c0, d0, s, t, c1, d1), Counted(c1, d1), Certified(c0, d0, k, n),
         NEW f \in Node, EndsAt(dir, d1, m, f), NEW A, NEW On, NEW c, NEW d,
         Crossing(dir, s, f, c1, d1, A, On, c, d)
  PROVE  Mended(dir, m, k, n, c, d)
<1>1. Counted(c0, d0) /\ t \in Node /\ m = d0[s] /\ m \in Nat /\ Turned(c, c1, A)
  BY DEF Update, Counted, Crossing
<1>2. k \in Nat /\ d1[f] \in Nat
  BY CertifiedFacts DEF Counted
<1>3. ASSUME dir = "forward"
      PROVE  /\ ArcMore(c1, c0, s, t) /\ DegMore(d1, d0, s) /\ d0[s] <= d0[t]
             /\ d1[f] < m /\ ThroughPath(c1, A, On, s, f) /\ DegTurned(d, d1, s, f)
  BY <1>3 DEF Update, EndsAt, Crossing
<1>4. ASSUME dir # "forward"
      PROVE  /\ ArcMore(c0, c1, s, t) /\ DegMore(d0, d1, s)
             /\ d1[f] > m /\ BackPath(c1, A, On, s, f) /\ DegTurned(d, d1, f, s)
  BY <1>4 DEF Update, EndsAt, Crossing
<1>5. ASSUME dir = "forward", m + 1 = k PROVE Certified(c, d, k, n)
  <2>1. d0[s] + 1 = k /\ d1[f] + 1 < k
    BY <1>1, <1>2, <1>3, <1>5
  <2>2. /\ ArcMore(c1, c0, s, t) /\ DegMore(d1, d0, s) /\ Certified(c0, d0, k, n)
        /\ ThroughPath(c1, A, On, s, f) /\ DegTurned(d, d1, s, f) /\ Counted(c1, d1)
    BY <1>3, <1>5
  <2>3. QED
    BY ONLY <1>1, <2>1, <2>2, s \in Node, f \in Node, CorePassed
<1>6. ASSUME dir = "forward", m = k PROVE Certified(c, d, k, n + 1)
  <2>1. d0[s] = k /\ d1[f] < k
    BY <1>1, <1>2, <1>3, <1>6
  <2>2. /\ ArcMore(c1, c0, s, t) /\ DegMore(d1, d0, s) /\ Certified(c0, d0, k, n)
        /\ ThroughPath(c1, A, On, s, f) /\ DegTurned(d, d1, s, f) /\ Counted(c1, d1)
        /\ d0[s] <= d0[t]
    BY <1>3, <1>6
  <2>3. QED
    BY ONLY <1>1, <2>1, <2>2, s \in Node, f \in Node, CoreFilled
<1>7. ASSUME dir # "forward", m + 1 = k PROVE Thinned(c, d, k, n - 1)
  <2>1. d0[s] + 1 = k /\ d1[f] + 1 > k
    BY <1>1, <1>2, <1>4, <1>7
  <2>2. /\ ArcMore(c0, c1, s, t) /\ DegMore(d0, d1, s) /\ Certified(c0, d0, k, n)
        /\ BackPath(c1, A, On, s, f) /\ DegTurned(d, d1, f, s) /\ Counted(c1, d1)
    BY <1>4, <1>7
  <2>3. QED
    BY ONLY <1>1, <2>1, <2>2, s \in Node, f \in Node, CoreYielded
<1>8. QED
  BY <1>5, <1>6, <1>7 DEF Mended

LEMMA WalkRepairs ==
  ASSUME WellLinked(m_adj, m_out_degree), m_parent[curNode][1] = curNode,
         NEW nodes \in SUBSET Node, NEW rank, WalkedDown(nodes, rank),
         NEW s \in Node, Ready(s), Rooted(nodes, s), Walked(nodes, s)
  PROVE  CoreFlip
<1>1. PICK c, d, last, A, On : \E f \in Node :
           /\ EndsAt(direction, m_out_degree, m_max_degree, f)
           /\ Turning(direction, path, Counts, m_out_degree, c, d, last)
           /\ Crossing(direction, s, f, Counts, m_out_degree, A, On, c, d)
  BY WalkTurns
<1>2. PICK f \in Node :
           /\ EndsAt(direction, m_out_degree, m_max_degree, f)
           /\ Turning(direction, path, Counts, m_out_degree, c, d, last)
           /\ Crossing(direction, s, f, Counts, m_out_degree, A, On, c, d)
  BY <1>1
<1>3. Counted(Counts, m_out_degree)
  BY CountsCounted
<1>4. CASE UpdateSearch(s) /\ algorithm = "STRONG_OPT_DFS"
  <2>1. caller \in {"insertion", "deletion"} /\ UpdatedAt(s)
    BY <1>4 DEF UpdateSearch, UpdatedAt, Changed
  <2>2. RootIs(nodes, s) /\ Reached(direction, Counts, nodes, s)
    BY DEF Rooted
  <2>3. Closing
    BY <2>1, <2>2, WalkIsOver
  <2>4. PICK cc, dd, ll : Flipping(direction, path, Counts, m_out_degree, cc, dd, ll)
    BY <2>3 DEF Closing
  <2>5. Repaired(cc, dd)
    BY <1>4, <2>1, <2>4 DEF Repaired, Flipping
  <2>6. QED
    BY <2>4, <2>5 DEF CoreFlip, Flipping
<1>5. CASE UpdateSearch(s) /\ algorithm # "STRONG_OPT_DFS"
  <2>1. PICK c0, d0, t :
          /\ Update(direction, m_max_degree, c0, d0, s, t, Counts, m_out_degree)
          /\ Certified(c0, d0, max_out_degree, max_node_count)
          /\ \/ m_max_degree + 1 = max_out_degree
             \/ caller = "insertion" /\ m_max_degree = max_out_degree
    BY <1>5 DEF UpdateSearch
  <2> PICK k, n, m, c1, d1, dir :
        /\ k = max_out_degree /\ n = max_node_count /\ m = m_max_degree /\ c1 = Counts
        /\ d1 = m_out_degree /\ dir = direction
    OBVIOUS
  <2>2. /\ Update(dir, m, c0, d0, s, t, c1, d1) /\ Certified(c0, d0, k, n) /\ Counted(c1, d1)
        /\ EndsAt(dir, d1, m, f) /\ Crossing(dir, s, f, c1, d1, A, On, c, d)
    BY <1>2, <1>3, <2>1
  <2>3. Mended(dir, m, k, n, c, d)
    BY ONLY <2>2, s \in Node, f \in Node, UpdateRepairs
  <2>4. /\ caller \in {"insertion", "deletion"}
        /\ direction = (IF caller = "insertion" THEN "forward" ELSE "backward")
    BY <1>5 DEF UpdateSearch
  <2>5. m = k => m + 1 # k
    BY <2>2, CertifiedFacts
  <2>6. CASE caller = "insertion"
    <3>1. dir = "forward" /\ (m + 1 = k \/ m = k)
      BY <2>1, <2>4, <2>6
    <3>2. Certified(c, d, k, IF m + 1 = k THEN n ELSE n + 1)
      BY <2>3, <2>5, <3>1 DEF Mended
    <3>3. n \in Nat
      BY <2>2, CertifiedFacts
    <3>4. Repaired(c, d)
      BY <1>5, <2>6, <3>2, <3>3 DEF Repaired
    <3>5. QED
      BY <1>2, <3>4 DEF CoreFlip
  <2>7. CASE caller = "deletion"
    <3>1. dir # "forward" /\ m + 1 = k
      BY <2>1, <2>4, <2>7
    <3>2. Thinned(c, d, k, n - 1)
      BY <2>3, <2>5, <3>1 DEF Mended
    <3>3. Repaired(c, d)
      BY <1>5, <2>7, <3>2 DEF Repaired
    <3>4. QED
      BY <1>2, <3>3 DEF CoreFlip
  <2>8. QED
    BY <2>4, <2>6, <2>7
<1>6. CASE RoundSearch(s)
  <2> PICK k, c1, d1, m, coming :
        /\ k = max_out_degree /\ c1 = Counts /\ d1 = m_out_degree /\ m = m_max_degree
        /\ coming = Coming
    OBVIOUS
  <2>1. /\ k \in Nat /\ k > 1 /\ max_node_count = 0 /\ AtMost(d1, k) /\ m + 1 = k /\ d1[s] = k
        /\ \E P : Plateau(c1, d1, k, P) /\ (all_path_improved => P \subseteq coming \cup {s})
        /\ caller = "find_optimal" /\ algorithm # "STRONG_OPT_DFS" /\ direction = "forward"
    BY <1>6 DEF RoundSearch, RoundLevel
  <2>2. PICK P : Plateau(c1, d1, k, P) /\ (all_path_improved => P \subseteq coming \cup {s})
    BY <2>1
  <2>3. /\ Counted(c1, d1) /\ AtMost(d1, k) /\ Plateau(c1, d1, k, P) /\ d1[s] = k
        /\ ThroughPath(c1, A, On, s, f) /\ Turned(c, c1, A) /\ DegTurned(d, d1, s, f)
    BY <1>2, <1>3, <2>1, <2>2 DEF Crossing
  <2>4. d1[f] + 1 < k
    <3>1. d1[f] < m /\ d1[f] \in Nat
      BY <1>2, <1>3, <2>1 DEF EndsAt, Counted
    <3>2. m \in Nat
      BY <1>6 DEF RoundSearch
    <3>3. QED
      BY <2>1, <3>1, <3>2
  <2>5. s \notin P /\ Plateau(c, d, k, P) /\ AtMost(d, k)
    BY ONLY <2>3, <2>4, s \in Node, f \in Node, PlateauMissed
  <2>6. all_path_improved => P \subseteq coming
    BY <2>2, <2>5
  <2>7. RoundLevel(c, d, Coming)
    BY <2>1, <2>5, <2>6 DEF RoundLevel
  <2>8. Repaired(c, d)
    BY <2>1, <2>7 DEF Repaired
  <2>9. QED
    BY <1>2, <2>8 DEF CoreFlip
<1>7. QED
  BY <1>4, <1>5, <1>6 DEF Ready

LEMMA CoreTrace ==
  ASSUME Inv, CoreInv, trace
  PROVE  CoreInv'
<1> SUFFICES ASSUME ~lapsed PROVE CoreInv'
  BY DEF trace, CoreInv
<1>1. /\ pc = "trace" /\ walkBack /\ Steady /\ UNCHANGED m_parent
      /\ WellLinked(m_adj, m_out_degree)
  BY DEF trace, walkBack, Inv, ListsInv, Steady, counters, lists, loop
<1>2. PICK s \in Node : WalkFrom(s)
  BY <1>1 DEF CoreInv
<1>3. PICK nodes \in SUBSET Node : \E rank :
        /\ Tree(nodes, rank) /\ WalkedDown(nodes, rank) /\ Rooted(nodes, s)
        /\ Walked(nodes, s)
  BY <1>2 DEF WalkFrom
<1>4. PICK rank : /\ Tree(nodes, rank) /\ WalkedDown(nodes, rank) /\ Rooted(nodes, s)
                  /\ Walked(nodes, s)
  BY <1>3
<1>5. Ready(s)
  BY <1>2 DEF WalkFrom
<1>6. /\ UNCHANGED algorithm /\ UNCHANGED lapsed /\ UNCHANGED direction /\ UNCHANGED lists
      /\ Counts' = Counts /\ m_out_degree' = m_out_degree
  BY <1>1, SteadyFacts
<1>7. CASE m_parent[curNode][1] = curNode
  <2>1. CoreFlip
    BY <1>1, <1>4, <1>5, <1>7, WalkRepairs
  <2>2. pc' = "flip" /\ path' = path
    BY <1>1, <1>7 DEF walkBack
  <2>3. PICK c, d, last :
          Turning(direction, path, Counts, m_out_degree, c, d, last) /\ Repaired(c, d)
    BY <2>1 DEF CoreFlip
  <2>4. Repaired(c, d)'
    BY <1>1, <2>3, KnowledgeKept
  <2>5. CoreFlip'
    BY <1>6, <2>2, <2>3, <2>4 DEF CoreFlip
  <2>6. QED
    BY <1>6, <2>2, <2>5 DEF CoreInv
<1>8. CASE m_parent[curNode][1] # curNode
  <2>1. PathValid /\ m_adj \in [Node -> Seq(Entry)] /\ RootIs(nodes, s)
    BY <1>4 DEF Inv, SearchInv, ListsInv, WellLinked, ListsOK, Rooted
  <2>2. Walked(nodes, s)'
    BY <1>1, <1>4, <1>8, <2>1, WalkGoesOn
  <2>3. pc' = "trace"
    BY <1>1, <1>8 DEF walkBack
  <2>4. Tree(nodes, rank)' /\ WalkedDown(nodes, rank)'
    BY <1>1, <1>4, <2>1, <2>3, WalkBackKeeps
  <2>5. Rooted(nodes, s)'
    BY <1>1, <1>4, <1>6 DEF Rooted, RootIs
  <2>6. Ready(s)'
    BY <1>1, <1>5, ReadyKept
  <2>7. WalkFrom(s)'
    BY <2>2, <2>4, <2>5, <2>6 DEF WalkFrom
  <2>8. QED
    BY <1>6, <2>3, <2>7 DEF CoreInv
<1>9. QED
  BY <1>7, <1>8

LEMMA CoreFlips ==
  ASSUME Inv, CoreInv, flip_active_edge \/ flip_reverse_edge
  PROVE  CoreInv'
<1> SUFFICES ASSUME ~lapsed PROVE CoreInv'
  BY DEF flip_active_edge, flip_reverse_edge, otherThanFlips, CoreInv
<1>1. /\ pc = "flip" /\ flipNext /\ pc' = "flip" /\ WellLinked(m_adj, m_out_degree) /\ PathValid
      /\ UNCHANGED algorithm /\ UNCHANGED max_out_degree /\ UNCHANGED max_node_count
      /\ UNCHANGED caller /\ UNCHANGED i /\ UNCHANGED all_path_improved
      /\ UNCHANGED m_max_degree /\ UNCHANGED lapsed
  BY DEF flip_active_edge, flip_reverse_edge, otherThanFlips, flipNext, Inv, ListsInv, SearchInv,
         counters, loop
<1>2. PICK c, d, last :
        Turning(direction, path, Counts, m_out_degree, c, d, last) /\ Repaired(c, d)
  BY <1>1 DEF CoreInv, CoreFlip
<1>3. Turning(direction', path', Counts', m_out_degree', c, d, last)
  BY <1>1, <1>2, FlipTurns
<1>4. Coming' = Coming
  BY <1>1 DEF Coming
<1>5. RoundLevel(c, d, Coming) => RoundLevel(c, d, Coming)'
  BY <1>1, <1>4 DEF RoundLevel
<1>6. Repaired(c, d)'
  BY <1>1, <1>2, <1>5 DEF Repaired
<1>7. CoreFlip'
  BY <1>3, <1>6 DEF CoreFlip
<1>8. QED
  BY <1>1, <1>7 DEF CoreInv

(****************************************************************************)
(* The search returns.                                                      *)
(****************************************************************************)
\* What is known of the core after a search that has failed.
Spared(dir, m, k, n, c, d) ==
  /\ dir = "forward" /\ m + 1 = k => Certified(c, d, k, n + 1)
  /\ dir = "forward" /\ m = k => Certified(c, d, k + 1, 1)
  /\ dir # "forward" /\ m + 1 = k => Certified(c, d, k, n)

\* The search from s over nodes with m arcs has found V, and from there nothing else.
Trapped(dir, m, c, d, s, V) ==
  /\ V \in SUBSET Node /\ s \in V /\ \A v \in V \ {s} : d[v] = m
  /\ \A v \in V, w \in Node :
       Leads(dir, c, v, w) => w \in V \/ ~(EndsAt(dir, d, m, w) \/ d[w] = m)

LEMMA UpdateFails ==
  ASSUME NEW k, NEW n, NEW m, NEW c0, NEW d0, NEW c1, NEW d1, NEW s \in Node, NEW t, NEW dir,
         Update(dir, m, c0, d0, s, t, c1, d1), Counted(c1, d1), Certified(c0, d0, k, n),
         NEW V, Trapped(dir, m, c1, d1, s, V)
  PROVE  Spared(dir, m, k, n, c1, d1)
<1>1. Counted(c0, d0) /\ t \in Node /\ m = d0[s] /\ m \in Nat /\ k \in Nat /\ AtMost(d0, k)
  BY CertifiedFacts DEF Update, Counted
<1>2. /\ V \in SUBSET Node /\ s \in V /\ \A v \in V \ {s} : d1[v] = m
      /\ \A v \in Node : d1[v] \in Nat
      /\ \A v \in V, w \in Node :
           Leads(dir, c1, v, w) => w \in V \/ ~(EndsAt(dir, d1, m, w) \/ d1[w] = m)
  BY DEF Trapped, Counted
<1>3. ASSUME dir = "forward"
      PROVE  /\ ArcMore(c1, c0, s, t) /\ DegMore(d1, d0, s) /\ d1[s] = m + 1
             /\ \A v \in V, w \in Node : c1[v][w] > 0 => w \in V \/ d1[w] > m
  <2>1. ArcMore(c1, c0, s, t) /\ DegMore(d1, d0, s)
    BY <1>3 DEF Update
  <2>2. d1[s] = m + 1
    BY <1>1, <2>1 DEF DegMore
  <2>3. ASSUME NEW v \in V, NEW w \in Node, c1[v][w] > 0
        PROVE  w \in V \/ d1[w] > m
    <3>1. w \in V \/ ~(d1[w] < m \/ d1[w] = m)
      BY <1>2, <1>3, <2>3 DEF Leads, EndsAt
    <3>2. d1[w] \in Nat
      BY <1>2
    <3>3. QED
      BY <1>1, <3>1, <3>2
  <2>4. QED
    BY <2>1, <2>2, <2>3
<1>4. ASSUME dir # "forward"
      PROVE  /\ ArcMore(c0, c1, s, t) /\ DegMore(d0, d1, s)
             /\ \A v \in V, w \in Node : c1[w][v] > 0 => w \in V \/ d1[w] < m
  <2>1. ArcMore(c0, c1, s, t) /\ DegMore(d0, d1, s)
    BY <1>4 DEF Update
  <2>2. ASSUME NEW v \in V, NEW w \in Node, c1[w][v] > 0
        PROVE  w \in V \/ d1[w] < m
    <3>1. w \in V \/ ~(d1[w] > m \/ d1[w] = m)
      BY <1>2, <1>4, <2>2 DEF Leads, EndsAt
    <3>2. d1[w] \in Nat
      BY <1>2
    <3>3. QED
      BY <1>1, <3>1, <3>2
  <2>3. QED
    BY <2>1, <2>2
<1>5. ASSUME dir = "forward", m + 1 = k PROVE Certified(c1, d1, k, n + 1)
  <2>1. /\ ArcMore(c1, c0, s, t) /\ DegMore(d1, d0, s) /\ d1[s] = k
        /\ V \in SUBSET Node /\ s \in V
    BY <1>2, <1>3, <1>5
  <2>2. \A v \in V : d1[v] + 1 >= k
    BY <1>1, <1>2, <1>3, <1>5
  <2>3. \A v \in V, w \in Node : c1[v][w] > 0 => w \in V \/ d1[w] >= k
    <3> SUFFICES ASSUME NEW v \in V, NEW w \in Node, c1[v][w] > 0, w \notin V PROVE d1[w] >= k
      OBVIOUS
    <3>1. d1[w] > m
      BY <1>3, <1>5
    <3>2. QED
      BY <1>1, <1>2, <1>5, <3>1
  <2>4. QED
    BY ONLY <1>1, <2>1, <2>2, <2>3, Certified(c0, d0, k, n), s \in Node, CoreJoined
<1>6. ASSUME dir = "forward", m = k PROVE Certified(c1, d1, k + 1, 1)
  <2>1. /\ ArcMore(c1, c0, s, t) /\ DegMore(d1, d0, s) /\ d0[s] = k
        /\ V \in SUBSET Node /\ s \in V
    BY <1>1, <1>2, <1>3, <1>6
  <2>2. \A v \in V : d1[v] >= k
    BY <1>1, <1>2, <1>3, <1>6
  <2>3. \A v \in V, w \in Node : c1[v][w] > 0 => w \in V \/ d1[w] > k
    BY <1>3, <1>6
  <2>4. QED
    BY ONLY <1>1, <2>1, <2>2, <2>3, s \in Node, CoreRisen
<1>7. ASSUME dir # "forward", m + 1 = k PROVE Certified(c1, d1, k, n)
  <2>1. /\ ArcMore(c0, c1, s, t) /\ DegMore(d0, d1, s) /\ d0[s] + 1 = k
        /\ V \in SUBSET Node /\ s \in V
    BY <1>1, <1>2, <1>4, <1>7
  <2>2. \A v \in V \ {s} : d1[v] + 1 = k
    BY <1>2, <1>7
  <2>3. \A v \in V, w \in Node : c1[w][v] > 0 => w \in V \/ d1[w] + 1 < k
    <3> SUFFICES ASSUME NEW v \in V, NEW w \in Node, c1[w][v] > 0, w \notin V
                 PROVE  d1[w] + 1 < k
      OBVIOUS
    <3>1. d1[w] < m
      BY <1>4, <1>7
    <3>2. QED
      BY <1>1, <1>2, <1>7, <3>1
  <2>4. Counted(c1, d1) /\ Certified(c0, d0, k, n)
    OBVIOUS
  <2>5. QED
    BY ONLY <1>1, <2>1, <2>2, <2>3, <2>4, s \in Node, CoreWithdrawn
<1>8. QED
  BY <1>5, <1>6, <1>7 DEF Spared

LEMMA SearchTrapped ==
  ASSUME visited \subseteq Node, open = <<>>, NEW s, Swept(s), caller # "find_optimal",
         s \in visited
  PROVE  Trapped(direction, m_max_degree, Counts, m_out_degree, s, visited)
<1>1. ~\E k \in 1..Len(open) : TRUE
  OBVIOUS
<1>2. \A v \in visited, w \in Node :
        Leads(direction, Counts, v, w) => w \in visited \/ ~admitted(w)
  BY <1>1 DEF Swept
<1>3. \A w : admitted(w) <=> EndsAt(direction, m_out_degree, m_max_degree, w)
                              \/ m_out_degree[w] = m_max_degree
  BY DEF admitted, ends, EndsAt
<1>4. \A v \in visited \ {s} : m_out_degree[v] = m_max_degree
  BY DEF Swept
<1>5. QED
  BY <1>2, <1>3, <1>4 DEF Trapped

\* The path has been turned.
LEMMA FlipsOver ==
  ASSUME WellLinked(m_adj, m_out_degree), path = <<>>, CoreFlip
  PROVE  Repaired(Counts, m_out_degree)
<1>1. PICK c, d, last :
        Turning(direction, path, Counts, m_out_degree, c, d, last) /\ Repaired(c, d)
  BY DEF CoreFlip
<1> PICK dir, c1, d1 : dir = direction /\ c1 = Counts /\ d1 = m_out_degree
  OBVIOUS
<1>2. Turning(dir, <<>>, c1, d1, c, d, last) /\ Counted(c1, d1)
  BY <1>1, CountsCounted
<1>3. c = c1 /\ d = d1
  BY ONLY <1>2, TurningOver
<1>4. QED
  BY <1>1, <1>3

\* The search after an update has failed.
LEMMA UpdateFailed ==
  ASSUME Inv, CoreInv, ~lapsed, failed, caller # "find_optimal"
  PROVE  /\ algorithm = "STRONG_OPT_DFS" => NoGap(Counts, m_out_degree)
         /\ algorithm # "STRONG_OPT_DFS" =>
              /\ Spared(direction, m_max_degree, max_out_degree, max_node_count, Counts,
                        m_out_degree)
              /\ max_out_degree \in Nat /\ max_node_count \in Nat
              /\ direction = (IF caller = "insertion" THEN "forward" ELSE "backward")
              /\ \/ m_max_degree + 1 = max_out_degree
                 \/ caller = "insertion" /\ m_max_degree = max_out_degree
<1>1. /\ pc = "search" /\ open = <<>> /\ WellLinked(m_adj, m_out_degree)
      /\ visited \subseteq Node
  BY DEF failed, Inv, ListsInv, SearchInv
<1>2. PICK s \in Node : SearchFrom(s)
  BY <1>1 DEF CoreInv
<1>3. UpdateSearch(s) /\ Swept(s)
  BY <1>2 DEF SearchFrom, Ready, RoundSearch, Careless
<1>4. s \in visited
  BY <1>2 DEF SearchFrom, Searching, Rooted, RootIs
<1>5. Trapped(direction, m_max_degree, Counts, m_out_degree, s, visited)
  BY <1>1, <1>3, <1>4, SearchTrapped
<1>6. PICK c0, d0, t :
        /\ Update(direction, m_max_degree, c0, d0, s, t, Counts, m_out_degree)
        /\ IF algorithm = "STRONG_OPT_DFS"
             THEN NoGap(c0, d0)
             ELSE /\ Certified(c0, d0, max_out_degree, max_node_count)
                  /\ \/ m_max_degree + 1 = max_out_degree
                     \/ caller = "insertion" /\ m_max_degree = max_out_degree
  BY <1>3 DEF UpdateSearch
<1> PICK dir, m, k, n, c1, d1, V :
      /\ dir = direction /\ m = m_max_degree /\ k = max_out_degree /\ n = max_node_count
      /\ c1 = Counts /\ d1 = m_out_degree /\ V = visited
  OBVIOUS
<1>7. /\ Update(dir, m, c0, d0, s, t, c1, d1) /\ Counted(c1, d1) /\ Trapped(dir, m, c1, d1, s, V)
  BY <1>1, <1>5, <1>6, CountsCounted
<1>8. ASSUME algorithm = "STRONG_OPT_DFS" PROVE NoGap(c1, d1)
  <2>1. Changed(dir, m, c0, d0, s, t, c1, d1)
    BY <1>6, <1>7, <1>8 DEF Changed
  <2>2. /\ V \in SUBSET Node /\ s \in V /\ \A v \in V \ {s} : d1[v] = m
        /\ \A v \in V, w \in Node :
             Leads(dir, c1, v, w) => w \in V \/ ~(EndsAt(dir, d1, m, w) \/ d1[w] = m)
    BY <1>7 DEF Trapped
  <2>3. QED
    BY ONLY <1>7, <2>1, <2>2, SearchFails
<1>9. ASSUME algorithm # "STRONG_OPT_DFS"
      PROVE  Spared(dir, m, k, n, c1, d1) /\ k \in Nat /\ n \in Nat
  <2>1. Certified(c0, d0, k, n)
    BY <1>6, <1>9
  <2>2. Spared(dir, m, k, n, c1, d1)
    BY ONLY <1>7, <2>1, s \in Node, UpdateFails
  <2>3. k \in Nat /\ n \in Nat
    BY <2>1, CertifiedFacts
  <2>4. QED
    BY <2>2, <2>3
<1>10. QED
  BY <1>3, <1>6, <1>8, <1>9 DEF UpdateSearch

\* Some search has succeeded.
LEMMA SearchSucceeded ==
  ASSUME Inv, CoreInv, ~lapsed, succeeded
  PROVE  Repaired(Counts, m_out_degree)
BY FlipsOver DEF succeeded, CoreInv, Inv, ListsInv

\* The handler returns, and the account of the core is right.
LEMMA CoreReturnInsertion ==
  ASSUME Inv, CoreInv, returnFromInsertion
  PROVE  CoreInv'
<1>1. /\ caller = "insertion"
      /\ failed \/ succeeded
      /\ pc' = "idle" /\ UNCHANGED lapsed /\ UNCHANGED algorithm
      /\ UNCHANGED m_adj /\ UNCHANGED m_out_degree
      /\ algorithm # "STRONG_OPT_DFS" => countRaised(m_max_degree + 1, succeeded)
  BY DEF returnFromInsertion, closeSearch, lists
<1> SUFFICES ASSUME ~lapsed PROVE CoreIdle'
  BY <1>1 DEF CoreInv
<1>2. Counts' = Counts
  BY <1>1 DEF Counts
<1>3. CASE algorithm = "STRONG_OPT_DFS"
  <2>1. NoGap(Counts, m_out_degree)
    BY <1>1, <1>3, UpdateFailed, SearchSucceeded DEF Repaired
  <2>2. QED
    BY <1>1, <1>2, <1>3, <2>1 DEF CoreIdle
<1>4. CASE algorithm # "STRONG_OPT_DFS" /\ failed
  <2>1. ~succeeded
    BY <1>4 DEF failed, succeeded
  <2>2. /\ Spared(direction, m_max_degree, max_out_degree, max_node_count, Counts,
                  m_out_degree)
        /\ max_out_degree \in Nat /\ max_node_count \in Nat
        /\ direction = "forward"
        /\ \/ m_max_degree + 1 = max_out_degree
           \/ m_max_degree = max_out_degree
    BY <1>1, <1>4, UpdateFailed
  <2>3. CASE m_max_degree + 1 = max_out_degree
    <3>1. max_node_count' = max_node_count + 1 /\ max_out_degree' = max_out_degree
      BY <1>1, <1>4, <2>1, <2>3 DEF countRaised
    <3>2. Certified(Counts, m_out_degree, max_out_degree, max_node_count + 1)
      BY <2>2, <2>3 DEF Spared
    <3>3. Certified(Counts', m_out_degree', max_out_degree', max_node_count')
      BY <1>1, <1>2, <3>1, <3>2
    <3>4. QED
      BY <1>1, <1>4, <3>3 DEF CoreIdle, Known
  <2>4. CASE m_max_degree = max_out_degree
    <3>1. max_node_count' = 1 /\ max_out_degree' = max_out_degree + 1
      BY <1>1, <1>4, <2>1, <2>2, <2>4 DEF countRaised
    <3>2. Certified(Counts, m_out_degree, max_out_degree + 1, 1)
      BY <2>2, <2>4 DEF Spared
    <3>3. Certified(Counts', m_out_degree', max_out_degree', max_node_count')
      BY <1>1, <1>2, <3>1, <3>2
    <3>4. QED
      BY <1>1, <1>4, <3>3 DEF CoreIdle, Known
  <2>5. QED
    BY <2>2, <2>3, <2>4
<1>5. CASE algorithm # "STRONG_OPT_DFS" /\ succeeded
  <2>1. /\ max_node_count \in Nat
        /\ Certified(Counts, m_out_degree, max_out_degree,
                     IF m_max_degree + 1 = max_out_degree
                       THEN max_node_count ELSE max_node_count + 1)
    <3>1. Repaired(Counts, m_out_degree) /\ caller = "insertion" /\ algorithm # "STRONG_OPT_DFS"
      BY <1>1, <1>5, SearchSucceeded
    <3>2. caller # "find_optimal"
      BY <3>1
    <3>3. QED
      BY ONLY <3>1, <3>2 DEF Repaired
  <2>2. max_out_degree' = max_out_degree
    BY <1>1, <1>5 DEF countRaised, counters
  <2>3. max_node_count' = IF m_max_degree + 1 = max_out_degree
                            THEN max_node_count + 0 ELSE max_node_count + 1
    BY <1>1, <1>5 DEF countRaised
  <2>4. QED
    BY <1>1, <1>2, <1>5, <2>1, <2>2, <2>3 DEF CoreIdle, Known
<1>6. QED
  BY <1>1, <1>3, <1>4, <1>5

\* The first round of find_optimal, if there is one, starts with what is known of the level
\* that has been given up.
LEMMA CoreLowers ==
  ASSUME Inv', ~lapsed', algorithm' \in Algorithms, algorithm' # "STRONG_OPT_DFS",
         lowerIfNone(max_node_count'),
         Thinned(Counts', m_out_degree', max_out_degree, max_node_count'),
         visited' = {}, \A v \in Node : child_index'[v] = 0
  PROVE  CoreInv'
<1> PICK c, d, k, n : /\ c = Counts' /\ d = m_out_degree' /\ k = max_out_degree
                      /\ n = max_node_count'
  OBVIOUS
<1>1. /\ WellLinked(m_adj', m_out_degree') /\ Matched(m_adj', edges')
      /\ edges' \in [Edge -> Nat]
  BY DEF Inv, ListsInv
<1>2. Counted(c, d)
  <2>1. m_out_degree' \in [Node -> Nat]
    BY <1>1 DEF WellLinked, ListsOK
  <2>2. ArcCounts(m_adj', m_out_degree') \in [Node -> [Node -> Nat]]
    BY <2>1, ArcCountsType
  <2>3. QED
    BY <2>1, <2>2 DEF Counted, Counts
<1>3. Thinned(c, d, k, n) /\ k \in Nat \ {0}
  BY DEF Thinned
<1>4. CASE n # 0
  <2>1. pc' = "idle" /\ max_out_degree' = k
    BY <1>4 DEF lowerIfNone
  <2>2. Known(Counts', m_out_degree', max_out_degree', max_node_count')
    BY <1>3, <1>4, <2>1 DEF Known, Certified
  <2>3. QED
    BY <2>1, <2>2 DEF CoreInv, CoreIdle
<1>5. CASE n = 0
  <2>1. AtMost(d, k - 1) /\ \E P : Plateau(c, d, k - 1, P)
    BY ONLY <1>2, <1>3, <1>5, CoreLevel
  <2>2. PICK P : Plateau(c, d, k - 1, P)
    BY <2>1
  <2>3. max_out_degree' = k - 1
    BY <1>5 DEF lowerIfNone
  <2>4. CASE max_out_degree' > 1
    <3>1. /\ pc' = "find_optimal" /\ i' = 0 /\ path_improved' = FALSE
          /\ all_path_improved' = TRUE
      BY <1>5, <2>4 DEF lowerIfNone, beginRound
    <3>2. Coming' = Node
      <4>1. Cardinality(Node) \in Nat
        BY NodeAssumption, FS_CardinalityType
      <4>2. \A v \in Node : v >= 0
        BY <4>1, NumberedAssumption
      <4>3. QED
        BY <3>1, <4>2 DEF Coming
    <3>3. P \in SUBSET Node
      BY <2>2 DEF Plateau
    <3>4. k - 1 \in Nat
      BY <1>3
    <3>5. RoundLevel(Counts, m_out_degree, Coming)'
      BY <1>5, <2>1, <2>2, <2>3, <2>4, <3>2, <3>3, <3>4 DEF RoundLevel
    <3>6. RoundTried(Counts, m_out_degree, Coming)'
      <4>1. Tried(c, d, k - 1, {}) /\ AtLevel(d, k - 1) \ Node \subseteq {}
        BY DEF Tried, AtLevel
      <4>2. QED
        BY <2>3, <3>2, <4>1 DEF RoundTried
    <3>7. MarksClosed'
      <4>1. Tried(c, d, k - 1, visited')
        BY DEF Tried
      <4>2. QED
        BY <2>3, <4>1 DEF MarksClosed
    <3>8. CoreRound'
      BY <3>5, <3>6, <3>7 DEF CoreRound
    <3>9. QED
      BY <3>1, <3>8 DEF CoreInv
  <2>5. CASE ~(max_out_degree' > 1)
    <3>1. pc' = "idle" /\ \A e \in Edge : ~(edges'[e] > 0)
      BY <1>5, <2>5 DEF lowerIfNone
    <3>2. \A e \in Edge : edges'[e] = 0
      BY <1>1, <3>1
    <3>3. \A v \in Node : d[v] = 0
      BY <1>1, <3>2, NoEdgesNoArcs
    <3>4. \E v \in Node : d[v] = k - 1
      BY <2>2 DEF Plateau
    <3>5. k - 1 = 0
      BY <3>3, <3>4
    <3>6. Known(Counts', m_out_degree', max_out_degree', max_node_count')
      BY <1>5, <2>3, <3>3, <3>5 DEF Known
    <3>7. QED
      BY <3>1, <3>6 DEF CoreInv, CoreIdle
  <2>6. QED
    BY <2>4, <2>5
<1>6. QED
  BY <1>4, <1>5

\* All the marks of a search are of nodes to reset.
LEMMA MarksReset ==
  ASSUME SearchMarks, resetTouched
  PROVE  visited' = {} /\ \A v \in Node : child_index'[v] = 0
<1>1. visited' = {}
  BY DEF SearchMarks, resetTouched
<1>2. \A v \in Node : child_index'[v] = 0
  BY DEF SearchMarks, resetTouched
<1>3. QED
  BY <1>1, <1>2

LEMMA CoreReturnDeletion ==
  ASSUME Inv, CoreInv, returnFromDeletion
  PROVE  CoreInv'
<1>1. /\ caller = "deletion"
      /\ failed \/ succeeded
      /\ resetTouched /\ UNCHANGED algorithm
      /\ UNCHANGED m_adj /\ UNCHANGED m_out_degree
      /\ IF algorithm = "STRONG_OPT_DFS"
           THEN pc' = "idle" /\ UNCHANGED <<counters, loop, lapsed>>
           ELSE /\ max_node_count' = max_node_count - (IF succeeded THEN 1 ELSE 0)
                /\ lowerIfNone(max_node_count')
  BY DEF returnFromDeletion, closeSearch, lists
<1>2. /\ algorithm' \in Algorithms /\ Counts' = Counts
      /\ visited' = {} /\ \A v \in Node : child_index'[v] = 0
  BY <1>1, MarksReset DEF Counts, CoreInv, Inv
<1>3. Inv'
  BY ReturnSteps
<1> SUFFICES ASSUME ~lapsed' PROVE CoreInv'
  BY <1>2 DEF CoreInv
<1>4. ~lapsed
  BY <1>1 DEF lowerIfNone
<1>5. CASE algorithm = "STRONG_OPT_DFS"
  <2>1. NoGap(Counts, m_out_degree)
    BY <1>1, <1>4, <1>5, UpdateFailed, SearchSucceeded DEF Repaired
  <2>2. QED
    BY <1>1, <1>2, <1>5, <2>1 DEF CoreInv, CoreIdle
<1>6. CASE algorithm # "STRONG_OPT_DFS" /\ failed
  <2>1. ~succeeded
    BY <1>6 DEF failed, succeeded
  <2>2. /\ Spared(direction, m_max_degree, max_out_degree, max_node_count, Counts,
                  m_out_degree)
        /\ max_out_degree \in Nat /\ max_node_count \in Nat
        /\ direction # "forward" /\ m_max_degree + 1 = max_out_degree
    BY <1>1, <1>4, <1>6, UpdateFailed
  <2>3. max_node_count' = max_node_count
    BY <1>1, <1>6, <2>1, <2>2
  <2>4. Certified(Counts, m_out_degree, max_out_degree, max_node_count)
    BY <2>2 DEF Spared
  <2>5. Thinned(Counts', m_out_degree', max_out_degree, max_node_count')
    BY <1>1, <1>2, <2>3, <2>4 DEF Certified
  <2>6. QED
    BY <1>1, <1>2, <1>3, <1>6, <2>5, CoreLowers
<1>7. CASE algorithm # "STRONG_OPT_DFS" /\ succeeded
  <2>1. Thinned(Counts, m_out_degree, max_out_degree, max_node_count - 1)
    BY <1>1, <1>4, <1>7, SearchSucceeded DEF Repaired
  <2>2. max_node_count' = max_node_count - 1
    BY <1>1, <1>7
  <2>3. Thinned(Counts', m_out_degree', max_out_degree, max_node_count')
    BY <1>1, <1>2, <2>1, <2>2
  <2>4. QED
    BY <1>1, <1>2, <1>3, <1>7, <2>3, CoreLowers
<1>8. QED
  BY <1>1, <1>5, <1>6, <1>7

\* What a search that has failed leaves behind leads only to the maximum.
LEMMA SearchTried ==
  ASSUME Inv, NEW s \in Node, RoundSearch(s), Swept(s), open = <<>>
  PROVE  Tried(Counts, m_out_degree, max_out_degree, visited)
<1>1. /\ visited \subseteq Node /\ m_out_degree \in [Node -> Nat]
  BY DEF Inv, ListsInv, SearchInv, WellLinked, ListsOK
<1>2. /\ direction = "forward" /\ m_max_degree \in Nat /\ m_max_degree + 1 = max_out_degree
      /\ AtMost(m_out_degree, max_out_degree)
  BY DEF RoundSearch, RoundLevel
<1>3. ~\E k \in 1..Len(open) : TRUE
  OBVIOUS
<1>4. \A v \in visited : m_out_degree[v] + 1 >= max_out_degree
  <2> SUFFICES ASSUME NEW v \in visited PROVE m_out_degree[v] + 1 >= max_out_degree
    OBVIOUS
  <2>1. ~(m_out_degree[v] < m_max_degree)
    BY <1>2 DEF Swept, ends
  <2>2. QED
    BY <1>1, <1>2, <2>1
<1>5. ASSUME NEW v \in visited, NEW w \in Node, Counts[v][w] > 0
      PROVE  w \in visited \/ m_out_degree[w] = max_out_degree
  <2>1. Leads(direction, Counts, v, w)
    BY <1>2, <1>5 DEF Leads
  <2>2. w \in visited \/ ~admitted(w)
    BY <1>3, <2>1 DEF Swept
  <2>3. CASE ~admitted(w)
    <3>1. ~(m_out_degree[w] < m_max_degree) /\ m_out_degree[w] # m_max_degree
      BY <1>2, <2>3 DEF admitted, ends
    <3>2. m_out_degree[w] <= max_out_degree
      BY <1>2 DEF AtMost
    <3>3. QED
      BY <1>1, <1>2, <3>1, <3>2
  <2>4. QED
    BY <2>2, <2>3
<1>6. QED
  BY <1>1, <1>4, <1>5 DEF Tried

LEMMA CoreReturnRound ==
  ASSUME Inv, CoreInv, returnFromRound
  PROVE  CoreInv'
<1>1. /\ caller = "find_optimal"
      /\ failed \/ succeeded
      /\ path_improved' = (path_improved \/ succeeded)
      /\ all_path_improved' = (all_path_improved /\ succeeded)
      /\ pc' = "find_optimal"
      /\ UNCHANGED max_out_degree /\ UNCHANGED max_node_count /\ UNCHANGED i
      /\ UNCHANGED lapsed /\ UNCHANGED algorithm /\ UNCHANGED m_adj /\ UNCHANGED m_out_degree
      /\ resetTouched \/ (UNCHANGED visited /\ UNCHANGED child_index)
  BY DEF returnFromRound, closeSearch, lists, counters
<1> SUFFICES ASSUME ~lapsed PROVE CoreRound'
  BY <1>1 DEF CoreInv
<1>2. Counts' = Counts /\ Coming' = Coming
  BY <1>1 DEF Counts, Coming
<1> PICK c, d, k, coming : c = Counts /\ d = m_out_degree /\ k = max_out_degree /\ coming = Coming
  OBVIOUS
<1>3. CASE succeeded
  <2>1. algorithm # "STRONG_OPT_DFS" /\ RoundLevel(c, d, coming)
    BY <1>1, <1>3, SearchSucceeded DEF Repaired
  <2>2. path_improved' = TRUE /\ (all_path_improved' => all_path_improved)
    BY <1>1, <1>3
  <2>3. RoundLevel(c, d, coming)'
    BY <1>1, <2>1, <2>2 DEF RoundLevel
  <2>4. RoundTried(c, d, coming)' /\ MarksClosed'
    BY <2>2 DEF RoundTried, MarksClosed
  <2>5. QED
    BY <1>1, <1>2, <2>1, <2>3, <2>4 DEF CoreRound
<1>4. CASE failed
  <2>1. pc = "search" /\ open = <<>> /\ ~succeeded
    BY <1>4 DEF failed, succeeded
  <2>2. PICK s \in Node : SearchFrom(s)
    BY <2>1 DEF CoreInv
  <2>3. RoundSearch(s) /\ (~path_improved => Swept(s)) /\ s \in visited
    BY <1>1, <2>2 DEF SearchFrom, Ready, UpdateSearch, Careless, Searching, Rooted, RootIs
  <2>4. /\ algorithm # "STRONG_OPT_DFS" /\ RoundLevel(c, d, coming \cup {s})
        /\ RoundTried(c, d, coming \cup {s})
    BY <2>3 DEF RoundSearch
  <2>5. (path_improved' <=> path_improved) /\ ~all_path_improved'
    BY <1>1, <2>1
  <2>6. RoundLevel(c, d, coming)'
    BY <1>1, <2>4, <2>5 DEF RoundLevel
  <2>7. ASSUME ~path_improved
        PROVE  Tried(c, d, k, visited) /\ \A v \in Node \ visited : child_index[v] = 0
    BY <2>1, <2>3, <2>7, SearchTried DEF Swept
  <2>8. RoundTried(c, d, coming)'
    <3> SUFFICES ASSUME ~path_improved
                 PROVE  \E T : Tried(c, d, k, T) /\ AtLevel(d, k) \ coming \subseteq T
      BY <1>1, <2>5 DEF RoundTried
    <3>1. PICK T : Tried(c, d, k, T) /\ AtLevel(d, k) \ (coming \cup {s}) \subseteq T
      BY <2>4 DEF RoundTried
    <3>2. Tried(c, d, k, T \cup visited)
      BY <2>7, <3>1, TriedMore
    <3>3. QED
      BY <2>3, <3>1, <3>2
  <2>9. MarksClosed'
    <3> SUFFICES ASSUME ~path_improved
                 PROVE  Tried(c, d, k, visited') /\ \A v \in Node \ visited' : child_index'[v] = 0
      BY <1>1, <1>2, <2>5 DEF MarksClosed
    <3>1. CASE resetTouched
      <4>1. visited' = {} /\ \A v \in Node : child_index'[v] = 0
        BY <3>1, MarksReset DEF Inv
      <4>2. Tried(c, d, k, {})
        BY DEF Tried
      <4>3. QED
        BY <4>1, <4>2
    <3>2. CASE UNCHANGED visited /\ UNCHANGED child_index
      BY <2>7, <3>2
    <3>3. QED
      BY <1>1, <3>1, <3>2
  <2>10. QED
    BY <1>1, <1>2, <2>4, <2>6, <2>8, <2>9 DEF CoreRound
<1>5. QED
  BY <1>1, <1>3, <1>4

(****************************************************************************)
(* A search begins.                                                         *)
(****************************************************************************)
LEMMA StartRooted ==
  ASSUME SearchInv, m_out_degree' \in [Node -> Nat],
         NEW dir \in {"forward", "backward"}, NEW source \in Node, NEW for,
         startSearch(dir, source, for)
  PROVE  /\ \E nodes \in SUBSET Node : \E rank :
              (Tree(nodes, rank) /\ Searching(nodes) /\ Rooted(nodes, source))'
         /\ ~ends(source)'
         /\ pc' = "search" /\ caller' = for /\ direction' = dir
         /\ m_max_degree' = m_out_degree'[source] + (IF dir = "forward" THEN -1 ELSE 1)
         /\ open' = <<source>> /\ visited' = visited \cup {source}
         /\ child_index' = child_index
<1>1. /\ pc' = "search" /\ caller' = for /\ direction' = dir
      /\ m_max_degree' = m_out_degree'[source] + (IF dir = "forward" THEN -1 ELSE 1)
      /\ open' = <<source>> /\ visited' = visited \cup {source}
      /\ m_parent' = [m_parent EXCEPT ![source] = <<source, 1>>]
      /\ child_index' = child_index
  BY DEF startSearch
<1>2. m_parent'[source][1] = source
  BY <1>1 DEF SearchInv
<1>3. ~ends(source)'
  <2>1. m_out_degree'[source] \in Nat
    OBVIOUS
  <2>2. QED
    BY <1>1, <2>1 DEF ends
<1> PICK nodes \in SUBSET Node : nodes = {source}
  OBVIOUS
<1> PICK rank : rank = [v \in nodes |-> 0]
  OBVIOUS
<1>4. Tree(nodes, rank)'
  BY <1>2 DEF Tree
<1>5. Searching(nodes)'
  BY <1>1, <1>3 DEF Searching
<1>6. Rooted(nodes, source)'
  <2>1. RootIs(nodes, source)'
    BY <1>2 DEF RootIs
  <2>2. Reached(direction', Counts', nodes, source)
    BY DEF Reached
  <2>3. QED
    BY <2>1, <2>2 DEF Rooted
<1>7. QED
  BY <1>1, <1>3, <1>4, <1>5, <1>6

\* Nothing has been visited before.
LEMMA CoreStart ==
  ASSUME SearchInv, WellLinked(m_adj', m_out_degree'), visited = {},
         \A v \in Node : child_index[v] = 0, algorithm' \in Algorithms,
         NEW dir \in {"forward", "backward"}, NEW source \in Node, NEW for,
         startSearch(dir, source, for), Ready(source)'
  PROVE  CoreInv'
<1>1. m_out_degree' \in [Node -> Nat] /\ \A v \in Node : Len(m_adj'[v]) \in Nat
  BY DEF WellLinked, ListsOK
<1>2. /\ \E nodes \in SUBSET Node : \E rank :
           (Tree(nodes, rank) /\ Searching(nodes) /\ Rooted(nodes, source))'
      /\ ~ends(source)' /\ pc' = "search"
      /\ open' = <<source>> /\ visited' = {source} /\ child_index' = child_index
  BY <1>1, StartRooted
<1>3. \A e \in scanned(source)' : ~(e <= Border(source)' + child_index'[source])
  <2>1. child_index'[source] = 0
    BY <1>2
  <2>2. CASE direction' = "forward"
    BY <1>1, <2>1, <2>2 DEF scanned, Border
  <2>3. CASE direction' # "forward"
    BY <1>1, <2>1, <2>3 DEF scanned, Border
  <2>4. QED
    BY <2>2, <2>3
<1>4. 1 \in 1..Len(open') /\ open'[1] = source
  BY <1>2
<1>5. Swept(source)'
  BY <1>2, <1>3, <1>4 DEF Swept
<1>6. SearchFrom(source)'
  BY <1>2, <1>5 DEF SearchFrom
<1>7. QED
  BY <1>2, <1>6 DEF CoreInv

LEMMA AheadFirst ==
  ASSUME Inv, ahead # {}
  PROVE  /\ First(ahead) \in ahead /\ \A v \in ahead : First(ahead) <= v
         /\ Node \in SUBSET Nat
<1>1. Node \in SUBSET Nat
  <2>1. Cardinality(Node) \in Nat
    BY NodeAssumption, FS_CardinalityType
  <2>2. QED
    BY <2>1, NumberedAssumption
<1>2. ahead \in SUBSET Nat
  BY <1>1 DEF ahead
<1>3. QED
  BY <1>1, <1>2, FirstIsLeast

\* In a round, the marks of the searches before are closed.
LEMMA RoundStarts ==
  ASSUME Inv, MarksClosed, ~path_improved, AtMost(m_out_degree, max_out_degree),
         max_out_degree \in Nat, NEW s \in Node, m_out_degree[s] = max_out_degree,
         UNCHANGED m_adj, UNCHANGED m_out_degree, direction' = "forward",
         m_max_degree' + 1 = max_out_degree, m_max_degree' \in Nat,
         open' = <<s>>, visited' = visited \cup {s}, child_index' = child_index,
         caller' = "find_optimal"
  PROVE  Swept(s)'
<1>1. /\ Tried(Counts, m_out_degree, max_out_degree, visited)
      /\ \A v \in Node \ visited : child_index[v] = 0
      /\ Counts' = Counts /\ m_out_degree \in [Node -> Nat] /\ visited \subseteq Node
  BY DEF MarksClosed, Counts, Inv, ListsInv, SearchInv, WellLinked, ListsOK
<1>2. ~(max_out_degree < m_max_degree') /\ max_out_degree # m_max_degree'
  BY ONLY m_max_degree' + 1 = max_out_degree, m_max_degree' \in Nat
<1>3. \A v \in visited' : ~ends(v)'
  <2> SUFFICES ASSUME NEW v \in visited' PROVE ~ends(v)'
    OBVIOUS
  <2>1. m_out_degree[v] + 1 >= max_out_degree /\ m_out_degree[v] \in Nat
    BY <1>1 DEF Tried
  <2>2. ~(m_out_degree[v] < m_max_degree')
    BY ONLY <2>1, m_max_degree' + 1 = max_out_degree, m_max_degree' \in Nat
  <2>3. QED
    BY <2>2 DEF ends
<1>4. ASSUME NEW v \in visited, NEW w \in Node, Counts[v][w] > 0
      PROVE  w \in visited' \/ ~admitted(w)'
  <2>1. w \in visited \/ m_out_degree[w] = max_out_degree
    BY <1>1, <1>4 DEF Tried
  <2>2. CASE m_out_degree[w] = max_out_degree
    BY <1>2, <2>2 DEF ends, admitted
  <2>3. QED
    BY <2>1, <2>2
<1>5. 1 \in 1..Len(open') /\ open'[1] = s
  OBVIOUS
<1>6. ASSUME NEW v \in visited', NEW w \in Node, Leads(direction', Counts', v, w)
      PROVE  \/ w \in visited'
             \/ ~admitted(w)'
             \/ \E k \in 1..Len(open') : open'[k] = v
  BY <1>1, <1>4, <1>5, <1>6 DEF Leads
<1>7. ASSUME NEW v \in visited', NEW e \in scanned(v)', e <= Border(v)' + child_index'[v]
      PROVE  Passed(v, e)'
  <2>1. e \in 1..m_out_degree[v] /\ e <= 0 + child_index[v] /\ v \in Node
    BY <1>1, <1>7 DEF scanned, Border
  <2>2. CASE v \in visited
    <3>1. m_adj[v][e].first \in Node
      <4>1. /\ m_adj \in [Node -> Seq(Entry)] /\ e \in 1..Len(m_adj[v])
        <5>1. m_adj \in [Node -> Seq(Entry)] /\ m_out_degree[v] <= Len(m_adj[v])
          BY <2>1 DEF Inv, ListsInv, WellLinked, ListsOK
        <5>2. m_out_degree[v] \in Nat /\ Len(m_adj[v]) \in Nat
          BY <1>1, <2>1, <5>1
        <5>3. QED
          BY <2>1, <5>1, <5>2
      <4>2. QED
        BY <2>1, <4>1, EntryFields
    <3>2. Counts[v][m_adj[v][e].first] > 0
      BY <1>1, <2>1, <3>1, CountsExist
    <3>3. QED
      BY <1>4, <2>2, <3>1, <3>2 DEF Passed
  <2>3. CASE v \notin visited
    <3>1. child_index[v] = 0
      BY <1>1, <2>1, <2>3
    <3>2. QED
      BY <2>1, <3>1
  <2>4. QED
    BY <2>2, <2>3
<1>8. \A v \in Node \ visited' : child_index'[v] = 0
  BY <1>1
<1>9. QED
  BY <1>3, <1>6, <1>7, <1>8 DEF Swept

LEMMA CoreTryNode ==
  ASSUME Inv, CoreInv, tryNode
  PROVE  CoreInv'
<1>1. /\ pc = "find_optimal" /\ ahead # {} /\ i' = First(ahead) + 1
      /\ UNCHANGED algorithm /\ UNCHANGED m_adj /\ UNCHANGED m_out_degree /\ UNCHANGED lists
      /\ UNCHANGED max_out_degree /\ UNCHANGED max_node_count /\ UNCHANGED path_improved
      /\ UNCHANGED lapsed
      /\ IF depthFirst \/ max_out_degree > 1
           THEN startSearch("forward", First(ahead), "find_optimal")
                /\ UNCHANGED all_path_improved
           ELSE all_path_improved' = FALSE /\ noSearch
  BY DEF tryNode, lists, counters
<1> SUFFICES ASSUME ~lapsed PROVE CoreInv'
  BY <1>1 DEF CoreInv
<1>2. CoreRound
  BY <1>1 DEF CoreInv
<1> PICK s, c, d, k : s = First(ahead) /\ c = Counts /\ d = m_out_degree /\ k = max_out_degree
  OBVIOUS
<1>3. /\ k \in Nat /\ k > 1 /\ max_node_count = 0 /\ AtMost(d, k)
      /\ algorithm # "STRONG_OPT_DFS" /\ MarksClosed
      /\ \E P : Plateau(c, d, k, P) /\ (all_path_improved => P \subseteq Coming)
  BY <1>2 DEF CoreRound, RoundLevel
<1>4. startSearch("forward", s, "find_optimal") /\ UNCHANGED all_path_improved
  BY <1>1, <1>3
<1>5. s \in Node /\ d[s] = k /\ s >= i /\ \A v \in ahead : s <= v
  BY <1>1, AheadFirst DEF ahead
<1>6. Counts' = Counts /\ m_out_degree' \in [Node -> Nat] /\ SearchInv
  BY <1>1 DEF Counts, Inv, ListsInv, WellLinked, ListsOK
<1>7. /\ \E nodes \in SUBSET Node : \E rank :
           (Tree(nodes, rank) /\ Searching(nodes) /\ Rooted(nodes, s))'
      /\ pc' = "search" /\ caller' = "find_optimal" /\ direction' = "forward"
      /\ m_max_degree' = m_out_degree'[s] + -1
      /\ open' = <<s>> /\ visited' = visited \cup {s} /\ child_index' = child_index
  BY <1>4, <1>5, <1>6, StartRooted
<1>8. m_max_degree' + 1 = k /\ m_max_degree' \in Nat
  BY <1>1, <1>3, <1>5, <1>7
<1>9. \A v \in Node : d[v] = k /\ v \in Coming => v \in Coming' \cup {s}
  <2> SUFFICES ASSUME NEW v \in Node, d[v] = k, v >= i PROVE v = s \/ v >= i'
    BY DEF Coming
  <2>1. v \in ahead
    BY DEF ahead
  <2>2. s <= v /\ s \in Nat /\ v \in Nat
    BY <1>1, <1>5, <2>1, AheadFirst
  <2>3. QED
    BY <1>1, <2>2
<1> PICK coming : coming = Coming' \cup {s}
  OBVIOUS
<1>10. RoundLevel(c, d, coming)'
  <2>1. PICK P : Plateau(c, d, k, P) /\ (all_path_improved => P \subseteq Coming)
    BY <1>3
  <2>2. all_path_improved' => P \subseteq coming
    BY <1>4, <1>9, <2>1 DEF Plateau
  <2>3. QED
    BY <1>1, <1>3, <2>1, <2>2 DEF RoundLevel
<1>11. RoundTried(c, d, coming)'
  <2> SUFFICES ASSUME ~path_improved
               PROVE  \E T : Tried(c, d, k, T) /\ AtLevel(d, k) \ coming \subseteq T
    BY <1>1 DEF RoundTried
  <2>1. PICK T : Tried(c, d, k, T) /\ AtLevel(d, k) \ Coming \subseteq T
    BY <1>2 DEF CoreRound, RoundTried
  <2>2. AtLevel(d, k) \ coming \subseteq T
    BY <1>9, <2>1 DEF AtLevel
  <2>3. QED
    BY <2>1, <2>2
<1>12. RoundSearch(s)'
  BY <1>1, <1>3, <1>5, <1>6, <1>7, <1>8, <1>10, <1>11 DEF RoundSearch
<1>13. ~path_improved => Swept(s)'
  BY <1>1, <1>3, <1>5, <1>7, <1>8, RoundStarts
<1>14. (Careless \/ Swept(s))'
  BY <1>1, <1>7, <1>13 DEF Careless
<1>15. SearchFrom(s)'
  BY <1>7, <1>12, <1>14 DEF SearchFrom, Ready
<1>16. QED
  BY <1>1, <1>5, <1>7, <1>15 DEF CoreInv

\* The nodes of the plateau keep the maximum, and no search from one of them succeeds.
LEMMA RoundKeepsMaximum ==
  ASSUME CoreInv, ~lapsed, endRound
  PROVE  ~all_path_improved /\ max_out_degree' = max_out_degree
<1>1. /\ pc = "find_optimal" /\ ahead = {}
      /\ max_out_degree' = max_out_degree - (IF all_path_improved THEN 1 ELSE 0)
  BY DEF endRound
<1>2. /\ max_out_degree \in Nat
      /\ \E P : /\ Plateau(Counts, m_out_degree, max_out_degree, P)
                /\ (all_path_improved => P \subseteq Coming)
  BY <1>1 DEF CoreInv, CoreRound, RoundLevel
<1>3. PICK P : /\ Plateau(Counts, m_out_degree, max_out_degree, P)
               /\ (all_path_improved => P \subseteq Coming)
  BY Zenon, <1>2
<1>4. \A v \in Node : m_out_degree[v] = max_out_degree => v \notin Coming
  BY <1>1 DEF ahead, Coming
<1>5. ~all_path_improved
  BY <1>3, <1>4 DEF Plateau
<1>6. QED
  BY <1>1, <1>2, <1>5

LEMMA CoreEndRound ==
  ASSUME Inv, CoreInv, endRound
  PROVE  CoreInv'
<1>1. /\ pc = "find_optimal" /\ ahead = {}
      /\ max_out_degree' = max_out_degree - (IF all_path_improved THEN 1 ELSE 0)
      /\ IF path_improved
           THEN /\ beginRound /\ UNCHANGED max_node_count /\ UNCHANGED pc
           ELSE /\ max_node_count' = max_node_count
                     + Cardinality({v \in Node : m_out_degree[v] = max_out_degree'})
                /\ pc' = "idle"
      /\ resetTouched /\ UNCHANGED algorithm
      /\ UNCHANGED m_adj /\ UNCHANGED m_out_degree /\ UNCHANGED lapsed
  BY DEF endRound, closeSearch, lists
<1> SUFFICES ASSUME ~lapsed PROVE CoreInv'
  BY <1>1 DEF CoreInv
<1>2. CoreRound
  BY <1>1 DEF CoreInv
<1> PICK c, d, k : c = Counts /\ d = m_out_degree /\ k = max_out_degree
  OBVIOUS
<1>3. /\ k \in Nat /\ k > 1 /\ max_node_count = 0 /\ AtMost(d, k)
      /\ algorithm # "STRONG_OPT_DFS"
      /\ \E P : Plateau(c, d, k, P) /\ (all_path_improved => P \subseteq Coming)
  BY <1>2 DEF CoreRound, RoundLevel
<1>4. PICK P : Plateau(c, d, k, P)
  BY <1>3
<1>5. \A v \in Node : d[v] = k => v \notin Coming
  BY <1>1 DEF ahead, Coming
<1>7. max_out_degree' = k
  BY RoundKeepsMaximum
<1>8. Counts' = Counts
  BY <1>1 DEF Counts
<1>9. CASE path_improved
  <2>1. /\ pc' = "find_optimal" /\ i' = 0 /\ path_improved' = FALSE
        /\ all_path_improved' = TRUE /\ max_node_count' = max_node_count
    BY <1>1, <1>9 DEF beginRound
  <2>2. Coming' = Node
    <3>1. Cardinality(Node) \in Nat
      BY NodeAssumption, FS_CardinalityType
    <3>2. \A v \in Node : v >= 0
      BY <3>1, NumberedAssumption
    <3>3. QED
      BY <2>1, <3>2 DEF Coming
  <2>3. RoundLevel(Counts, m_out_degree, Coming)'
    <3>1. P \subseteq Node
      BY <1>4 DEF Plateau
    <3>2. QED
      BY <1>1, <1>3, <1>4, <1>7, <1>8, <2>1, <2>2, <3>1 DEF RoundLevel
  <2>4. RoundTried(Counts, m_out_degree, Coming)'
    <3>1. Tried(c, d, k, {}) /\ AtLevel(d, k) \ Node \subseteq {}
      BY DEF Tried, AtLevel
    <3>2. QED
      BY <1>1, <1>7, <1>8, <2>2, <3>1 DEF RoundTried
  <2>5. MarksClosed'
    <3>1. visited' = {} /\ \A v \in Node : child_index'[v] = 0
      BY <1>1, MarksReset DEF Inv
    <3>2. Tried(c, d, k, visited')
      BY <3>1 DEF Tried
    <3>3. QED
      BY <1>1, <1>7, <1>8, <3>1, <3>2 DEF MarksClosed
  <2>6. CoreRound'
    BY <1>1, <1>3, <2>3, <2>4, <2>5 DEF CoreRound
  <2>7. QED
    BY <1>1, <2>1, <2>6 DEF CoreInv
<1>10. CASE ~path_improved
  <2>1. PICK T : Tried(c, d, k, T) /\ AtLevel(d, k) \ Coming \subseteq T
    BY <1>2, <1>10 DEF CoreRound, RoundTried
  <2>2. AtLevel(d, k) \subseteq T
    BY <1>5, <2>1 DEF AtLevel
  <2>3. Certified(c, d, k, Cardinality(AtLevel(d, k)))
    BY <1>3, <1>4, <2>1, <2>2, RoundCertified
  <2>4. pc' = "idle" /\ max_node_count' = Cardinality(AtLevel(d, k))
    <3>1. /\ pc' = "idle"
          /\ max_node_count' = 0 + Cardinality({v \in Node : m_out_degree[v] = max_out_degree'})
      BY <1>1, <1>3, <1>10
    <3>2. {v \in Node : m_out_degree[v] = max_out_degree'} = AtLevel(d, k)
      BY <1>7 DEF AtLevel
    <3>3. Cardinality(AtLevel(d, k)) \in Nat
      BY LevelFinite
    <3>4. QED
      BY <3>1, <3>2, <3>3
  <2>5. Known(Counts', m_out_degree', max_out_degree', max_node_count')
    BY <1>1, <1>7, <1>8, <2>3, <2>4 DEF Known
  <2>6. QED
    BY <1>1, <1>3, <2>4, <2>5 DEF CoreInv, CoreIdle
<1>11. QED
  BY <1>9, <1>10

(****************************************************************************)
(* The handlers, up to the search they start, if they start one.            *)
(****************************************************************************)
\* A node with one arc needs no search: whatever it can reach is all there is.
LEMMA NoGapLow ==
  ASSUME NEW c0, NEW d0, NEW c1, NEW d1, Counted(c0, d0), NoGap(c0, d0),
         NEW s \in Node, NEW t \in Node, ArcMore(c1, c0, s, t), DegMore(d1, d0, s), d1[s] <= 1
  PROVE  NoGap(c1, d1)
<1>1. /\ \A x \in Node : d0[x] \in Nat /\ d1[x] \in Nat
      /\ d1[s] = d0[s] + 1 /\ \A x \in Node \ {s} : d1[x] = d0[x]
      /\ \A x, y \in Node : c1[x][y] > 0 => c0[x][y] > 0 \/ (x = s /\ y = t)
  <2>1. \A x \in Node : d0[x] \in Nat /\ d1[x] = d0[x] + (IF x = s THEN 1 ELSE 0)
    BY DEF Counted, DegMore
  <2>2. ASSUME NEW x \in Node, NEW y \in Node, c1[x][y] > 0
        PROVE  c0[x][y] > 0 \/ (x = s /\ y = t)
    <3>1. c0[x][y] \in Nat /\ c1[x][y] = c0[x][y] + (IF x = s /\ y = t THEN 1 ELSE 0)
      BY DEF Counted, ArcMore
    <3>2. QED
      BY <2>2, <3>1
  <2>3. QED
    BY <2>1, <2>2
<1>2. ASSUME NEW u \in Node PROVE \E S : Shield(c1, d1, u, S)
  <2>1. CASE d1[u] <= 1
    <3>1. Shield(c1, d1, u, Node)
      BY <1>1, <2>1 DEF Shield, Shut
    <3>2. QED
      BY <3>1
  <2>2. CASE ~(d1[u] <= 1)
    <3>1. PICK S : Shield(c0, d0, u, S)
      BY DEF NoGap
    <3>2. u # s /\ d1[u] = d0[u]
      BY <1>1, <2>2
    <3>3. s \notin S
      BY <1>1, <2>2, <3>1, <3>2 DEF Shield
    <3>4. Shield(c1, d1, u, S)
      BY <1>1, <3>1, <3>2, <3>3 DEF Shield, Shut
    <3>5. QED
      BY <3>4
  <2>3. QED
    BY <2>1, <2>2
<1>3. QED
  BY <1>2 DEF NoGap

LEMMA KnownFacts ==
  ASSUME NEW c, NEW d, NEW k, NEW n, Known(c, d, k, n)
  PROVE  /\ k \in Nat /\ n \in Nat /\ AtMost(d, k)
         /\ (\E v \in Node : d[v] # 0) => Certified(c, d, k, n)
<1>1. CASE Certified(c, d, k, n)
  BY <1>1, CertifiedFacts
<1>2. CASE k = 0 /\ n = 0 /\ \A v \in Node : d[v] = 0
  BY <1>2 DEF AtMost
<1>3. QED
  BY <1>1, <1>2 DEF Known

\* The counters when an insertion needs no search.
LEMMA KnownRaised ==
  ASSUME NEW c0, NEW d0, NEW c1, NEW d1, NEW k, NEW n, Counted(c0, d0), Known(c0, d0, k, n),
         NEW s \in Node, NEW t \in Node, ArcMore(c1, c0, s, t), DegMore(d1, d0, s)
  PROVE  /\ d1[s] < k => Certified(c1, d1, k, n)
         /\ d1[s] <= 1 /\ d1[s] = k => Certified(c1, d1, k, n + 1)
         /\ d1[s] <= 1 /\ d1[s] = k + 1 => Certified(c1, d1, k + 1, 1)
         /\ d1[s] <= k + 1
<1>1. /\ \A x \in Node : d0[x] \in Nat /\ d1[x] \in Nat
      /\ d1[s] = d0[s] + 1 /\ \A x \in Node \ {s} : d1[x] = d0[x]
  <2>1. \A x \in Node : d0[x] \in Nat /\ d1[x] = d0[x] + (IF x = s THEN 1 ELSE 0)
    BY DEF Counted, DegMore
  <2>2. QED
    BY <2>1
<1>2. k \in Nat /\ n \in Nat /\ AtMost(d0, k) /\ (k # 0 => Certified(c0, d0, k, n))
  BY KnownFacts DEF Known
<1>3. ASSUME d1[s] < k PROVE Certified(c1, d1, k, n)
  <2>1. Certified(c0, d0, k, n)
    BY <1>1, <1>2, <1>3
  <2>2. QED
    BY <1>3, <2>1, CoreNotTouched
<1>4. ASSUME d1[s] <= 1, d1[s] = k PROVE Certified(c1, d1, k, n + 1)
  <2>1. k = 1
    BY <1>1, <1>2, <1>4
  <2>2. Certified(c0, d0, k, n) /\ Counted(c0, d0) /\ ArcMore(c1, c0, s, t)
        /\ DegMore(d1, d0, s) /\ d1[s] = k
    BY <1>2, <1>4, <2>1
  <2>3. \A v \in Node : d1[v] + 1 >= k
    BY <1>1, <2>1
  <2>4. \A v \in Node, w \in Node : c1[v][w] > 0 => w \in Node \/ d1[w] >= k
    OBVIOUS
  <2>5. PICK V \in SUBSET Node : V = Node
    OBVIOUS
  <2>6. s \in V /\ (\A v \in V : d1[v] + 1 >= k)
        /\ \A v \in V, w \in Node : c1[v][w] > 0 => w \in V \/ d1[w] >= k
    BY <2>3, <2>4, <2>5
  <2>7. QED
    BY ONLY <2>2, <2>6, s \in Node, t \in Node, V \in SUBSET Node, CoreJoined
<1>5. ASSUME d1[s] <= 1, d1[s] = k + 1 PROVE Certified(c1, d1, k + 1, 1)
  <2>1. k = 0
    BY <1>2, <1>5
  <2>2. Counted(c0, d0) /\ ArcMore(c1, c0, s, t) /\ DegMore(d1, d0, s) /\ d0[s] = k
    BY <1>1, <1>2, <1>5
  <2>3. PICK V \in SUBSET Node : V = Node
    OBVIOUS
  <2>4. s \in V /\ (\A v \in V : d1[v] >= k)
        /\ \A v \in V, w \in Node : c1[v][w] > 0 => w \in V \/ d1[w] > k
    BY <1>1, <2>1, <2>3
  <2>5. QED
    BY ONLY <1>2, <2>2, <2>4, s \in Node, t \in Node, V \in SUBSET Node, CoreRisen
<1>6. d1[s] <= k + 1
  BY <1>1, <1>2 DEF AtMost
<1>7. QED
  BY <1>3, <1>4, <1>5, <1>6

\* What an insertion does to the arcs.
LEMMA InsertedArc ==
  ASSUME Inv, NEW source \in Node, NEW target \in Node, handleInsertion(source, target)
  PROVE  \E s, t \in Node :
           /\ insertion_strong_opt_dfs(s, t) \/ insertion_improved_opt_dfs(s, t)
           /\ Update("forward", m_out_degree[s], Counts, m_out_degree, s, t,
                     Counts', m_out_degree')
           /\ m_out_degree'[s] = m_out_degree[s] + 1
<1>1. /\ source # target /\ WellLinked(m_adj, m_out_degree) /\ m_out_degree \in [Node -> Nat]
  BY DEF handleInsertion, Inv, ListsInv, WellLinked, ListsOK
<1>2. \E s, t \in Node : /\ s # t /\ m_out_degree[s] <= m_out_degree[t]
                         /\ insertion_strong_opt_dfs(s, t) \/ insertion_improved_opt_dfs(s, t)
  <2>1. CASE m_out_degree[source] > m_out_degree[target]
    <3>1. insertion_strong_opt_dfs(target, source) \/ insertion_improved_opt_dfs(target, source)
      BY <1>1, <2>1 DEF handleInsertion
    <3>2. m_out_degree[target] <= m_out_degree[source]
      BY <1>1, <2>1
    <3>3. QED
      BY <1>1, <3>1, <3>2
  <2>2. CASE ~(m_out_degree[source] > m_out_degree[target])
    <3>1. insertion_strong_opt_dfs(source, target) \/ insertion_improved_opt_dfs(source, target)
      BY <1>1, <2>2 DEF handleInsertion
    <3>2. m_out_degree[source] <= m_out_degree[target]
      BY <1>1, <2>2
    <3>3. QED
      BY <1>1, <3>1, <3>2
  <2>3. QED
    BY <2>1, <2>2
<1>3. PICK s, t \in Node : /\ s # t /\ m_out_degree[s] <= m_out_degree[t]
                           /\ insertion_strong_opt_dfs(s, t) \/ insertion_improved_opt_dfs(s, t)
  BY <1>2
<1> PICK entries, degree, new, more :
      /\ entries = m_adj /\ degree = m_out_degree /\ new = ArcInserted(m_adj, m_out_degree, s, t)
      /\ more = OneMore(m_out_degree, s)
  OBVIOUS
<1>4. m_adj' = new /\ m_out_degree' = more
  BY <1>3 DEF insertion_strong_opt_dfs, insertion_improved_opt_dfs, insertArc, OneMore
<1>5. /\ WellLinked(entries, degree) /\ degree[s] <= degree[t] /\ s # t
      /\ new = ArcInserted(entries, degree, s, t) /\ more = OneMore(degree, s)
  BY <1>1, <1>3
<1>6. /\ Update("forward", degree[s], ArcCounts(entries, degree), degree, s, t,
                ArcCounts(new, more), more)
      /\ more[s] = degree[s] + 1
  BY ONLY <1>5, s \in Node, t \in Node, InsertionUpdates
<1>7. QED
  BY <1>3, <1>4, <1>6 DEF Counts

LEMMA CoreInsertion ==
  ASSUME Inv, CoreInv, NEW source \in Node, NEW target \in Node,
         handleInsertion(source, target)
  PROVE  CoreInv'
<1>1. /\ pc = "idle" /\ UNCHANGED algorithm /\ algorithm \in Algorithms
      /\ SearchInv /\ visited = {} /\ \A v \in Node : child_index[v] = 0
      /\ Counted(Counts, m_out_degree) /\ m_out_degree \in [Node -> Nat]
  BY CountsCounted DEF handleInsertion, CoreInv, Inv, ListsInv, SearchMarks, WellLinked, ListsOK
<1>2. PICK s, t \in Node :
        /\ insertion_strong_opt_dfs(s, t) \/ insertion_improved_opt_dfs(s, t)
        /\ Update("forward", m_out_degree[s], Counts, m_out_degree, s, t,
                  Counts', m_out_degree')
        /\ m_out_degree'[s] = m_out_degree[s] + 1
  BY InsertedArc
<1>3. UNCHANGED lapsed
  BY <1>2 DEF insertion_strong_opt_dfs, insertion_improved_opt_dfs
<1> SUFFICES ASSUME ~lapsed PROVE CoreInv'
  BY <1>1, <1>3 DEF CoreInv
<1>4. CoreIdle
  BY <1>1 DEF CoreInv
<1>5. WellLinked(m_adj', m_out_degree')
  BY InsertionStep DEF Inv, ListsInv
<1> PICK c0, d0, c1, d1 : c0 = Counts /\ d0 = m_out_degree /\ c1 = Counts' /\ d1 = m_out_degree'
  OBVIOUS
<1>6. /\ Counted(c0, d0) /\ ArcMore(c1, c0, s, t) /\ DegMore(d1, d0, s)
      /\ d1[s] = d0[s] + 1 /\ d0[s] \in Nat
      /\ Update("forward", d0[s], c0, d0, s, t, c1, d1)
  BY <1>1, <1>2 DEF Update
<1>7. ASSUME startSearch("forward", s, "insertion")
      PROVE  caller' = "insertion" /\ direction' = "forward" /\ m_max_degree' = d0[s]
  <2>1. /\ caller' = "insertion" /\ direction' = "forward" /\ m_max_degree' = d1[s] + (-1)
    BY <1>7 DEF startSearch
  <2>2. QED
    BY <1>6, <2>1
<1>8. ASSUME startSearch("forward", s, "insertion"), UpdateSearch(s)'
      PROVE  CoreInv'
  <2>1. Ready(s)'
    BY <1>8 DEF Ready
  <2>2. QED
    BY <1>1, <1>5, <1>8, <2>1, CoreStart
<1>9. CASE algorithm = "STRONG_OPT_DFS"
  <2>1. NoGap(c0, d0)
    BY <1>4, <1>9 DEF CoreIdle
  <2>2. insertion_strong_opt_dfs(s, t)
    BY <1>2, <1>9 DEF insertion_improved_opt_dfs
  <2>3. CASE worthwhile(s)
    <3>1. startSearch("forward", s, "insertion")
      BY <2>2, <2>3 DEF insertion_strong_opt_dfs
    <3>2. UpdateSearch(s)'
      BY <1>1, <1>6, <1>7, <1>9, <2>1, <3>1 DEF UpdateSearch
    <3>3. QED
      BY <1>8, <3>1, <3>2
  <2>4. CASE ~worthwhile(s)
    <3>1. pc' = "idle"
      BY <1>1, <2>2, <2>4 DEF insertion_strong_opt_dfs, noSearch
    <3>2. d1[s] <= 1
      BY <1>6, <2>4 DEF worthwhile
    <3>3. NoGap(c1, d1)
      BY ONLY <1>6, <2>1, <3>2, s \in Node, t \in Node, NoGapLow
    <3>4. QED
      BY <1>1, <1>9, <3>1, <3>3 DEF CoreInv, CoreIdle
  <2>5. QED
    BY <2>3, <2>4
<1>10. CASE algorithm # "STRONG_OPT_DFS"
  <2> PICK k, n : k = max_out_degree /\ n = max_node_count
    OBVIOUS
  <2>1. Known(c0, d0, k, n)
    BY <1>4, <1>10 DEF CoreIdle
  <2>2. insertion_improved_opt_dfs(s, t)
    BY <1>2, <1>10 DEF insertion_strong_opt_dfs
  <2>3. /\ d1[s] < k => Certified(c1, d1, k, n)
        /\ d1[s] <= 1 /\ d1[s] = k => Certified(c1, d1, k, n + 1)
        /\ d1[s] <= 1 /\ d1[s] = k + 1 => Certified(c1, d1, k + 1, 1)
        /\ d1[s] <= k + 1
    BY ONLY <1>6, <2>1, s \in Node, t \in Node, KnownRaised
  <2>4. k \in Nat /\ n \in Nat /\ d1[s] \in Nat
    BY <1>6, <2>1, KnownFacts
  <2>5. CASE d1[s] \notin {k, k + 1}
    <3>1. pc' = "idle" /\ max_out_degree' = k /\ max_node_count' = n
      BY <1>1, <1>6, <2>2, <2>5 DEF insertion_improved_opt_dfs, noSearch, counters
    <3>2. Certified(c1, d1, k, n)
      BY <2>3, <2>4, <2>5
    <3>3. QED
      BY <1>1, <1>10, <3>1, <3>2 DEF CoreInv, CoreIdle, Known
  <2>6. CASE d1[s] \in {k, k + 1} /\ worthwhile(s)
    <3>1. /\ startSearch("forward", s, "insertion")
          /\ max_out_degree' = k /\ max_node_count' = n
      BY <1>6, <2>2, <2>6 DEF insertion_improved_opt_dfs, counters
    <3>2. d0[s] # 0
      BY <1>6, <2>6 DEF worthwhile
    <3>3. Certified(c0, d0, k, n)
      BY <2>1, <3>2, KnownFacts
    <3>4. d0[s] + 1 = k \/ d0[s] = k
      BY <1>6, <2>4, <2>6
    <3>5. UpdateSearch(s)'
      BY <1>1, <1>6, <1>7, <1>10, <3>1, <3>3, <3>4 DEF UpdateSearch
    <3>6. QED
      BY <1>8, <3>1, <3>5
  <2>7. CASE d1[s] \in {k, k + 1} /\ ~worthwhile(s)
    <3>1. pc' = "idle" /\ countRaised(d1[s], FALSE)
      BY <1>1, <1>6, <2>2, <2>7 DEF insertion_improved_opt_dfs, noSearch
    <3>2. d1[s] <= 1
      BY <1>6, <2>4, <2>7 DEF worthwhile
    <3>3. Certified(c1, d1, max_out_degree', max_node_count')
      <4>1. CASE d1[s] = k
        <5>1. max_out_degree' = k /\ max_node_count' = n + 1
          BY <3>1, <4>1 DEF countRaised
        <5>2. QED
          BY <2>3, <3>2, <4>1, <5>1
      <4>2. CASE d1[s] = k + 1
        <5>1. max_out_degree' = k + 1 /\ max_node_count' = 1
          BY <2>4, <3>1, <4>2 DEF countRaised
        <5>2. QED
          BY <2>3, <3>2, <4>2, <5>1
      <4>3. QED
        BY <2>7, <4>1, <4>2
    <3>4. QED
      BY <1>1, <1>10, <3>1, <3>3 DEF CoreInv, CoreIdle, Known
  <2>8. QED
    BY <2>5, <2>6, <2>7
<1>11. QED
  BY <1>9, <1>10

\* What a deletion does to the arcs.
LEMMA DeletedArc ==
  ASSUME Inv, NEW source \in Node, NEW target \in Node, handleDeletion(source, target),
         NEW s, s = decremented(source, target)
  PROVE  /\ s \in Node
         /\ \E t : Update("backward", m_out_degree'[s] + 1, Counts, m_out_degree, s, t,
                          Counts', m_out_degree')
<1>1. /\ source # target /\ WellLinked(m_adj, m_out_degree) /\ m_adj \in [Node -> Seq(Entry)]
      /\ m_out_degree \in [Node -> Nat]
      /\ Matched(m_adj, edges) /\ edges \in [Edge -> Nat] /\ edges[{source, target}] > 0
      /\ removeEdge(source, target)
  BY DEF handleDeletion, deletion_strong_opt_dfs, deletion_improved_opt_dfs, Inv, ListsInv,
         WellLinked, ListsOK
<1> PICK entries, degree, j : entries = m_adj /\ degree = m_out_degree
                              /\ j = FirstEntry(m_adj, source, target)
  OBVIOUS
<1> PICK k : k = entries[source][j].second
  OBVIOUS
<1> PICK one, d1 : one = EntryRemoved(entries, degree, source, j)
                   /\ d1 = DegreeAfter(degree, source, j)
  OBVIOUS
<1> PICK new, d2 : new = EntryRemoved(one, d1, target, k) /\ d2 = DegreeAfter(d1, target, k)
  OBVIOUS
<1>2. m_adj' = new /\ m_out_degree' = d2
  BY <1>1 DEF removeEdge
<1>3. j \in 1..Len(entries[source]) /\ target = entries[source][j].first
  BY <1>1, EntryToDelete
<1>4. s = IF k <= d1[target] THEN target ELSE source
  <2>1. d1[target] = degree[target]
    BY <1>1 DEF DegreeAfter
  <2>2. QED
    BY <2>1 DEF decremented
<1>5. WellLinked(entries, degree)
  BY <1>1
<1>6. /\ s \in Node
      /\ \E t : Update("backward", d2[s] + 1, ArcCounts(entries, degree), degree, s, t,
                       ArcCounts(new, d2), d2)
  BY ONLY <1>3, <1>4, <1>5, source \in Node, k = entries[source][j].second,
          one = EntryRemoved(entries, degree, source, j), d1 = DegreeAfter(degree, source, j),
          new = EntryRemoved(one, d1, target, k), d2 = DegreeAfter(d1, target, k),
          DeletionUpdates
<1>7. QED
  BY <1>2, <1>6 DEF Counts

LEMMA CoreDeletion ==
  ASSUME Inv, CoreInv, NEW source \in Node, NEW target \in Node,
         handleDeletion(source, target)
  PROVE  CoreInv'
<1> PICK s : s = decremented(source, target)
  OBVIOUS
<1>1. /\ pc = "idle" /\ UNCHANGED algorithm /\ algorithm \in Algorithms
      /\ deletion_strong_opt_dfs(source, target) \/ deletion_improved_opt_dfs(source, target)
      /\ SearchInv /\ visited = {} /\ \A v \in Node : child_index[v] = 0
      /\ Counted(Counts, m_out_degree) /\ m_out_degree \in [Node -> Nat]
  BY CountsCounted DEF handleDeletion, CoreInv, Inv, ListsInv, SearchMarks, WellLinked, ListsOK
<1>2. /\ s \in Node
      /\ \E t : Update("backward", m_out_degree'[s] + 1, Counts, m_out_degree, s, t,
                       Counts', m_out_degree')
  BY DeletedArc
<1>3. PICK t : Update("backward", m_out_degree'[s] + 1, Counts, m_out_degree, s, t,
                      Counts', m_out_degree')
  BY <1>2
<1> SUFFICES ASSUME ~lapsed' PROVE CoreInv'
  BY <1>1 DEF CoreInv
<1>4. ~lapsed
  BY <1>1 DEF deletion_strong_opt_dfs, deletion_improved_opt_dfs, lowerIfNone
<1>5. CoreIdle
  BY <1>1, <1>4 DEF CoreInv
<1>6. Inv' /\ WellLinked(m_adj', m_out_degree')
  BY DeletionStep DEF Inv, ListsInv
<1>7. Counted(Counts', m_out_degree')
  <2>1. m_out_degree' \in [Node -> Nat]
    BY <1>6 DEF WellLinked, ListsOK
  <2>2. ArcCounts(m_adj', m_out_degree') \in [Node -> [Node -> Nat]]
    BY <2>1, ArcCountsType
  <2>3. QED
    BY <2>1, <2>2 DEF Counted, Counts
<1> PICK c0, d0, c1, d1 : c0 = Counts /\ d0 = m_out_degree /\ c1 = Counts' /\ d1 = m_out_degree'
  OBVIOUS
<1>8. /\ Counted(c0, d0) /\ Counted(c1, d1) /\ ArcMore(c0, c1, s, t) /\ DegMore(d0, d1, s)
      /\ d0[s] = d1[s] + 1 /\ d0[s] \in Nat /\ d1[s] \in Nat
      /\ s \in Node /\ t \in Node
      /\ Update("backward", d1[s] + 1, c0, d0, s, t, c1, d1)
  BY <1>1, <1>2, <1>3, <1>7 DEF Update, Counted
<1>9. ASSUME startSearch("backward", s, "deletion")
      PROVE  caller' = "deletion" /\ direction' = "backward" /\ m_max_degree' = d1[s] + 1
  BY <1>9 DEF startSearch
<1>10. ASSUME startSearch("backward", s, "deletion"), UpdateSearch(s)'
       PROVE  CoreInv'
  <2>1. Ready(s)'
    BY <1>10 DEF Ready
  <2>2. QED
    BY <1>1, <1>2, <1>6, <1>10, <2>1, CoreStart
<1>11. CASE algorithm = "STRONG_OPT_DFS"
  <2>1. NoGap(c0, d0)
    BY <1>5, <1>11 DEF CoreIdle
  <2>2. startSearch("backward", s, "deletion")
    BY <1>1, <1>11 DEF deletion_strong_opt_dfs, deletion_improved_opt_dfs
  <2>3. UpdateSearch(s)'
    BY <1>1, <1>8, <1>9, <1>11, <2>1, <2>2 DEF UpdateSearch
  <2>4. QED
    BY <1>10, <2>2, <2>3
<1>12. CASE algorithm # "STRONG_OPT_DFS"
  <2> PICK k, n : k = max_out_degree /\ n = max_node_count
    OBVIOUS
  <2>1. Known(c0, d0, k, n)
    BY <1>5, <1>12 DEF CoreIdle
  <2>2. deletion_improved_opt_dfs(source, target)
    BY <1>1, <1>12 DEF deletion_strong_opt_dfs
  <2>3. Certified(c0, d0, k, n) /\ k \in Nat /\ n \in Nat /\ d0[s] <= k
    <3>1. \E v \in Node : d0[v] # 0
      BY <1>8
    <3>2. QED
      BY <1>8, <2>1, <3>1, KnownFacts DEF AtMost
  <2>4. CASE d1[s] = k - 2
    <3>1. /\ startSearch("backward", s, "deletion")
          /\ max_out_degree' = k /\ max_node_count' = n
      BY <2>2, <2>4 DEF deletion_improved_opt_dfs, counters
    <3>2. m_max_degree' + 1 = k
      BY <1>8, <1>9, <2>3, <2>4, <3>1
    <3>3. UpdateSearch(s)'
      BY <1>1, <1>8, <1>9, <1>12, <2>3, <3>1, <3>2 DEF UpdateSearch
    <3>4. QED
      BY <1>10, <3>1, <3>3
  <2>5. CASE d1[s] # k - 2
    <3>1. /\ max_node_count' = n - (IF d1[s] = k - 1 THEN 1 ELSE 0)
          /\ lowerIfNone(max_node_count')
          /\ visited' = {} /\ \A v \in Node : child_index'[v] = 0
      BY <1>1, <2>2, <2>5 DEF deletion_improved_opt_dfs, search
    <3>2. Thinned(c1, d1, k, max_node_count')
      <4>1. CASE d1[s] = k - 1
        <5>1. d0[s] = k /\ max_node_count' = n - 1
          BY <1>8, <2>3, <3>1, <4>1
        <5>2. Thinned(c1, d1, k, n - 1)
          BY ONLY <1>8, <2>3, <5>1, CoreLowered
        <5>3. QED
          BY <5>1, <5>2
      <4>2. CASE d1[s] # k - 1
        <5>1. d0[s] + 1 < k /\ max_node_count' = n
          BY <1>8, <2>3, <2>5, <3>1, <4>2
        <5>2. Certified(c1, d1, k, n)
          BY ONLY <1>8, <2>3, <5>1, CoreNotThinned
        <5>3. QED
          BY <5>1, <5>2 DEF Certified
      <4>3. QED
        BY <4>1, <4>2
    <3>3. QED
      BY <1>1, <1>6, <1>12, <3>1, <3>2, CoreLowers
  <2>6. QED
    BY <2>4, <2>5
<1>13. QED
  BY <1>11, <1>12

(****************************************************************************)
(* The search goes on.                                                      *)
(****************************************************************************)
LEMMA RootedGrows ==
  ASSUME WellLinked(m_adj, m_out_degree), Steady, NEW s, NEW nodes \in SUBSET Node,
         Rooted(nodes, s), NEW node \in nodes, NEW found \in SUBSET Node,
         Discovery(nodes, node, found)
  PROVE  Rooted(nodes \cup found, s)'
<1> PICK both \in SUBSET Node : both = nodes \cup found
  OBVIOUS
<1>1. /\ found \cap nodes = {}
      /\ \A v \in Node \ found : m_parent'[v] = m_parent[v]
      /\ \A v \in found : m_parent'[v][1] = node /\ StepValid(node, m_parent'[v][2], v)
  BY DEF Discovery
<1>2. /\ s \in nodes /\ \A v \in nodes : m_parent[v][1] = v <=> v = s
      /\ Reached(direction, Counts, nodes, s)
  BY DEF Rooted, RootIs
<1>3. Counts' = Counts /\ UNCHANGED direction
  BY SteadyFacts
<1>4. \A w \in found : Leads(direction, Counts, node, w)
  BY <1>1, StepLeads
<1>5. ASSUME NEW v \in both PROVE m_parent'[v][1] = v <=> v = s
  <2>1. CASE v \in found
    BY <1>1, <1>2, <2>1
  <2>2. CASE v \notin found
    BY <1>1, <1>2, <2>2
  <2>3. QED
    BY <2>1, <2>2
<1>6. RootIs(both, s)'
  BY <1>2, <1>5 DEF RootIs
<1>7. Reached(direction, Counts, both, s)
  <2>1. ASSUME NEW S \in SUBSET Node, s \in S, ShutFor(direction, Counts, S)
        PROVE  both \subseteq S
    <3>1. nodes \subseteq S
      BY <1>2, <2>1 DEF Reached
    <3>2. found \subseteq S
      BY <1>4, <2>1, <3>1 DEF ShutFor
    <3>3. QED
      BY <3>1, <3>2
  <2>2. QED
    BY <2>1 DEF Reached
<1>8. Rooted(both, s)'
  BY <1>3, <1>6, <1>7 DEF Rooted
<1>9. QED
  BY <1>8

LEMMA SearchGoesOn ==
  ASSUME WellLinked(m_adj, m_out_degree), path = <<>>, path' = <<>>, Steady,
         NEW s \in Node, Ready(s), NEW nodes \in SUBSET Node, NEW rank, Tree(nodes, rank),
         Searching(nodes), Rooted(nodes, s), NEW node \in nodes, NEW found \in SUBSET Node,
         Discovery(nodes, node, found)
  PROVE  /\ pc' = "search" /\ (Careless \/ Swept(s)') => SearchFrom(s)'
         /\ pc' = "trace" => WalkFrom(s)'
<1> PICK both \in SUBSET Node : both = nodes \cup found
  OBVIOUS
<1>1. UNCHANGED lists /\ UNCHANGED direction /\ UNCHANGED m_out_degree /\ UNCHANGED m_max_degree
      /\ Careless' = Careless
  BY SteadyFacts
<1>2. PICK later : Tree(both, later)'
  BY <1>1, TreeGrows DEF Discovery
<1>3. Rooted(both, s)'
  BY RootedGrows
<1>4. Ready(s)'
  BY ReadyKept
<1>5. ASSUME pc' = "search", Careless \/ Swept(s)' PROVE SearchFrom(s)'
  <2>1. /\ visited \cup found \subseteq visited' /\ open' \in Seq(both)
        /\ \A v \in found : ~ends(v)
    BY <1>5 DEF Discovery
  <2>2. \A v : ends(v)' <=> ends(v)
    BY <1>1 DEF ends
  <2>3. Searching(both)'
    BY <2>1, <2>2 DEF Searching
  <2>4. QED
    BY <1>1, <1>2, <1>3, <1>4, <1>5, <2>3 DEF SearchFrom
<1>6. ASSUME pc' = "trace" PROVE WalkFrom(s)'
  <2> PICK f : f = curNode'
    OBVIOUS
  <2>1. f \in both /\ ends(f)
    BY <1>6 DEF Discovery
  <2>2. EndsAt(direction', m_out_degree', m_max_degree', f)
    BY <1>1, <2>1 DEF ends, EndsAt
  <2>3. PathFrom(direction', Counts', path', s, f, curNode')
    BY PathFromStart
  <2>4. Len(path') = 0
    OBVIOUS
  <2>5. OnSteps(path') = {}
    BY <2>4 DEF OnSteps
  <2>6. Walked(both, s)'
    BY <2>1, <2>2, <2>3, <2>5 DEF Walked
  <2>7. WalkedDown(both, later)'
    BY <2>1, <2>4 DEF WalkedDown
  <2>8. QED
    BY <1>2, <1>3, <1>4, <2>6, <2>7 DEF WalkFrom
<1>7. QED
  BY <1>5, <1>6

\* The entries scanned lie behind the border.
LEMMA BehindBorder ==
  ASSUME WellLinked(m_adj, m_out_degree), NEW v \in Node, NEW e \in scanned(v)
  PROVE  Border(v) \in Nat /\ e \in Nat /\ e > Border(v)
<1>1. m_out_degree[v] \in Nat /\ Len(m_adj[v]) \in Nat
  BY DEF WellLinked, ListsOK
<1>2. QED
  BY <1>1 DEF scanned, Border

\* An entry that has been passed stays so.
LEMMA PassedStays ==
  ASSUME Steady, visited \subseteq visited', NEW v, NEW e, Passed(v, e)
  PROVE  Passed(v, e)'
<1>1. /\ UNCHANGED m_adj /\ UNCHANGED m_out_degree /\ UNCHANGED direction
      /\ UNCHANGED m_max_degree
  BY SteadyFacts
<1>2. QED
  BY <1>1 DEF Passed, admitted, ends

\* What one step of the depth-first search does to the node on the stack.
LEMMA TopPassed ==
  ASSUME WellLinked(m_adj, m_out_degree), child_index \in [Node -> Nat], Top \in visited,
         visited \subseteq Node, NEW s, Swept(s), Finals = {}
  PROVE  /\ \A e \in scanned(Top) :
              \/ Passed(Top, e)
              \/ Down /\ (e = First(Remaining) \/ ~(e <= Border(Top) + Index))
         /\ Down => /\ First(Remaining) \in scanned(Top)
                    /\ Below(First(Remaining)) \in Node
                    /\ ~ends(Below(First(Remaining)))
                    /\ m_out_degree[Below(First(Remaining))] = m_max_degree
<1>1. Top \in Node /\ Border(Top) \in Nat /\ child_index[Top] \in Nat
  BY IndexFacts
<1>2. \A e \in scanned(Top) : e \in Nat /\ m_adj[Top][e].first \in Node
  <2>1. /\ Len(m_adj[Top]) \in Nat /\ scanned(Top) \in SUBSET (1..Len(m_adj[Top]))
        /\ \A e \in scanned(Top) : m_adj[Top][e].first \in Node
    BY <1>1, ScannedFacts
  <2>2. QED
    BY <2>1
<1>3. Remaining \in SUBSET scanned(Top) /\ Remaining \in SUBSET Nat
  BY <1>2 DEF Remaining, following
<1>4. Down <=> Remaining # {}
  BY DEF Finals, Down
<1>5. Remaining # {} => First(Remaining) \in Remaining /\ \A e \in Remaining : First(Remaining) <= e
  BY <1>3, FirstIsLeast
<1>6. ASSUME NEW e \in scanned(Top), ~Passed(Top, e)
      PROVE  Down /\ (e = First(Remaining) \/ ~(e <= Border(Top) + Index))
  <2>1. ~(e <= Border(Top) + child_index[Top])
    BY <1>6 DEF Swept
  <2>2. e > Border(Top) + child_index[Top]
    BY <1>1, <1>2, <2>1
  <2>3. e \in Remaining
    BY <1>6, <2>2 DEF Remaining, following, Passed, Border
  <2>4. Down /\ First(Remaining) <= e
    BY <1>4, <1>5, <2>3
  <2>5. First(Remaining) = Border(Top) + Index /\ Index \in Nat
    BY <1>1, <1>4, <2>4, IndexFacts
  <2>6. QED
    BY <1>1, <1>2, <2>4, <2>5
<1>7. ASSUME Down
      PROVE  /\ First(Remaining) \in scanned(Top)
             /\ Below(First(Remaining)) \in Node
             /\ ~ends(Below(First(Remaining)))
             /\ m_out_degree[Below(First(Remaining))] = m_max_degree
  <2>1. First(Remaining) \in Remaining /\ First(Remaining) \in scanned(Top)
    BY <1>3, <1>4, <1>5, <1>7
  <2>2. admitted(Below(First(Remaining))) /\ Below(First(Remaining)) \in Node
    BY <1>2, <2>1 DEF Remaining, following, Below
  <2>3. ~ends(Below(First(Remaining)))
    BY <1>7 DEF Down
  <2>4. QED
    BY <2>1, <2>2, <2>3 DEF admitted
<1>8. QED
  BY <1>6, <1>7

LEMMA SweptExpandTop ==
  ASSUME Inv, expandTop, Steady, open \in Seq(visited), NEW s \in Node, Swept(s), Finals = {}
  PROVE  Swept(s)'
<1> PICK new, top : new = Below(First(Remaining)) /\ top = Top
  OBVIOUS
<1>1. /\ WellLinked(m_adj, m_out_degree) /\ visited \subseteq Node /\ open # <<>>
      /\ child_index \in [Node -> Nat]
      /\ child_index' = [child_index EXCEPT ![Top] = Index]
      /\ visited' = IF Down THEN visited \cup {new} ELSE visited
      /\ open' = IF Down THEN Append(open, new) ELSE Front(open)
  BY ExpandTopNamed DEF Inv, ListsInv, SearchInv, SearchMarks
<1>2. Top \in visited /\ Top \in Node /\ visited \subseteq visited'
  BY <1>1, StackTop DEF Top
<1>3. /\ UNCHANGED m_adj /\ UNCHANGED m_out_degree /\ UNCHANGED direction
      /\ UNCHANGED m_max_degree /\ UNCHANGED caller /\ Counts' = Counts
  BY SteadyFacts
<1>4. /\ \A v : (admitted(v)' <=> admitted(v)) /\ (ends(v)' <=> ends(v))
      /\ \A v : scanned(v)' = scanned(v) /\ Border(v)' = Border(v)
  BY <1>3 DEF admitted, ends, scanned, Border
<1>5. Down => /\ First(Remaining) \in scanned(Top) /\ new \in Node /\ ~ends(new)
              /\ m_out_degree[new] = m_max_degree
  BY <1>1, <1>2, TopPassed
<1>6. ASSUME NEW e \in scanned(top), ~Down \/ e <= Border(top) + Index
      PROVE  Passed(top, e)'
  <2>1. CASE Passed(top, e)
    BY <1>2, <2>1, PassedStays
  <2>2. CASE ~Passed(top, e)
    <3>1. Down /\ e = First(Remaining)
      BY <1>1, <1>2, <1>6, <2>2, TopPassed
    <3>2. m_adj'[top][e].first = new /\ new \in visited'
      BY <1>1, <1>3, <3>1 DEF Below
    <3>3. QED
      BY <3>2 DEF Passed
  <2>3. QED
    BY <2>1, <2>2
<1>7. \A v \in visited' : ~ends(v)'
  BY <1>1, <1>4, <1>5 DEF Swept
<1>8. caller' # "find_optimal" => \A v \in visited' \ {s} : m_out_degree'[v] = m_max_degree'
  BY <1>1, <1>3, <1>5 DEF Swept
<1>9. ASSUME NEW v \in visited', NEW w \in Node, Leads(direction, Counts, v, w), w \notin visited',
             admitted(w)
      PROVE  \E k \in 1..Len(open') : open'[k] = v
  <2>1. Len(open) \in Nat /\ \A k \in 1..Len(open) : open[k] \in visited
    BY <1>1
  <2>2. CASE Down
    <3>1. /\ Len(open') = Len(open) + 1 /\ open'[Len(open) + 1] = new
          /\ \A k \in 1..Len(open) : open'[k] = open[k]
      BY <1>1, <2>2
    <3>2. CASE v = new
      <4>1. Len(open) + 1 \in 1..Len(open') /\ open'[Len(open) + 1] = v
        BY <2>1, <3>1, <3>2
      <4>2. QED
        BY <4>1
    <3>3. CASE v # new
      <4>1. v \in visited /\ w \notin visited
        BY <1>1, <1>2, <1>9, <2>2, <3>3
      <4>2. PICK k \in 1..Len(open) : open[k] = v
        BY <1>9, <4>1 DEF Swept
      <4>3. k \in 1..Len(open') /\ open'[k] = v
        BY <2>1, <3>1, <4>2
      <4>4. QED
        BY <4>3
    <3>4. QED
      BY <3>2, <3>3
  <2>3. CASE ~Down
    <3>1. v \in visited /\ w \notin visited
      BY <1>1, <1>9, <2>3
    <3>2. PICK k \in 1..Len(open) : open[k] = v
      BY <1>9, <3>1 DEF Swept
    <3>3. v # top
      <4> SUFFICES ASSUME v = top PROVE FALSE
        OBVIOUS
      <4>1. PICK e \in scanned(top) : m_adj[top][e].first = w
        BY <1>1, <1>2, <1>9, LeadsScanned
      <4>2. Passed(top, e)'
        BY <1>6, <2>3
      <4>3. QED
        BY <1>3, <1>4, <1>9, <4>1, <4>2 DEF Passed
    <3>4. k # Len(open)
      BY <3>2, <3>3 DEF Top, Last
    <3>5. k \in 1..Len(open) - 1
      BY <2>1, <3>4
    <3>6. Front(open)[k] = open[k] /\ Len(Front(open)) = Len(open) - 1
      BY <1>1, <2>1, <3>5 DEF Front
    <3>7. k \in 1..Len(open') /\ open'[k] = v
      BY <1>1, <2>3, <3>2, <3>5, <3>6
    <3>8. QED
      BY <3>7
  <2>4. QED
    BY <2>2, <2>3
<1>10. ASSUME NEW v \in visited', NEW e \in scanned(v), e <= Border(v) + child_index'[v]
       PROVE  Passed(v, e)'
  <2>1. CASE v = top
    <3>1. child_index'[v] = Index
      BY <1>1, <1>2, <2>1
    <3>2. QED
      BY <1>6, <1>10, <2>1, <3>1
  <2>2. CASE v # top /\ v \in visited
    <3>1. child_index'[v] = child_index[v]
      BY <1>1, <1>2, <2>2
    <3>2. Passed(v, e)
      BY <1>10, <2>2, <3>1 DEF Swept
    <3>3. QED
      BY <1>2, <3>2, PassedStays
  <2>3. CASE v \notin visited
    <3>1. v \in Node /\ v # top
      BY <1>1, <1>2, <1>5, <2>3
    <3>2. child_index'[v] = child_index[v] /\ child_index[v] = 0
      BY <1>1, <2>3, <3>1 DEF Swept
    <3>3. Border(v) \in Nat /\ e \in Nat /\ e > Border(v)
      BY <1>1, <3>1, BehindBorder
    <3>4. QED
      BY <1>10, <3>2, <3>3
  <2>4. QED
    BY <2>1, <2>2, <2>3
<1>11. \A v \in Node \ visited' : child_index'[v] = 0
  <2>1. ASSUME NEW v \in Node \ visited' PROVE child_index'[v] = 0
    <3>1. v \notin visited /\ v # top
      BY <1>2
    <3>2. QED
      BY <1>1, <3>1 DEF Swept
  <2>2. QED
    BY <2>1
<1>12. QED
  BY <1>3, <1>4, <1>7, <1>8, <1>9, <1>10, <1>11 DEF Swept

\* The positions taken are all that matter, unless the search ends.
LEMMA FoundCovers ==
  ASSUME WellLinked(m_adj, m_out_degree), Head(open) \in Node, Final = {},
         NEW w, w \notin visited, admitted(w), NEW p \in scanned(Head(open)), Beyond(p) = w
  PROVE  w \in Found
<1> PICK same : same = {q \in scanned(Head(open)) : Beyond(q) = w}
  OBVIOUS
<1>1. scanned(Head(open)) \in SUBSET Nat
  BY TakenFacts
<1>2. same \in SUBSET Nat /\ p \in same
  BY <1>1
<1>3. PICK q \in same : \A r \in same : q <= r
  BY <1>2, LeastNatural
<1>4. q \in scanned(Head(open)) /\ Beyond(q) = w
  OBVIOUS
<1>5. \A r \in scanned(Head(open)) : r < q => Beyond(r) # Beyond(q)
  <2>1. q \in Nat /\ \A r \in same : r \in Nat
    BY <1>2
  <2>2. QED
    BY <1>3, <1>4, <2>1
<1>6. q \in Fresh
  BY <1>4, <1>5 DEF Fresh
<1>7. q \in Taken
  BY <1>6 DEF Taken
<1>8. QED
  BY <1>4, <1>7 DEF Found

\* The queue after a step that does not end the search.
LEMMA QueueGrows ==
  ASSUME WellLinked(m_adj, m_out_degree), bfs, open \in Seq(visited), visited \subseteq Node,
         Final = {}, Found \subseteq Node
  PROVE  /\ \A v \in Found : \E k \in 1..Len(open') : open'[k] = v
         /\ \A k \in 1..Len(open) :
              open[k] = Head(open) \/ \E l \in 1..Len(open') : open'[l] = open[k]
<1> PICK old, n, new : /\ old = Tail(open) /\ n = Cardinality(Taken)
                       /\ new = [k \in DOMAIN Order |-> Beyond(Order[k])]
  OBVIOUS
<1>1. open # <<>> /\ open' = old \o new
  BY BfsNamed
<1>2. /\ Len(open) \in Nat \ {0} /\ old \in Seq(Node) /\ Len(old) = Len(open) - 1
      /\ \A k \in 1..Len(open) - 1 : old[k] = open[k + 1]
      /\ Head(open) = open[1] /\ Head(open) \in Node
  <2>1. open \in Seq(Node)
    OBVIOUS
  <2>2. QED
    BY <1>1, <2>1
<1>3. PICK N \in Nat : scanned(Head(open)) \in SUBSET (1..N)
  BY <1>2, ScannedFacts
<1>4. Taken \in SUBSET (1..N)
  BY <1>3 DEF Taken, Fresh
<1>5. /\ n \in Nat /\ Order \in [1..n -> Taken]
      /\ \A p \in Taken : \E k \in 1..n : Order[k] = p
  BY <1>4, InOrderFacts DEF Order
<1>6. \A k \in 1..n : Beyond(Order[k]) \in Node
  BY <1>5 DEF Found
<1>7. new \in Seq(Node) /\ Len(new) = n /\ \A k \in 1..n : new[k] = Beyond(Order[k])
  <2>1. new = [k \in 1..n |-> Beyond(Order[k])]
    BY <1>5
  <2>2. QED
    BY <1>5, <1>6, <2>1
<1>8. /\ Len(open') = Len(old) + n
      /\ \A k \in 1..Len(old) : open'[k] = old[k]
      /\ \A k \in 1..n : open'[Len(old) + k] = new[k]
  BY <1>1, <1>2, <1>5, <1>7
<1>9. ASSUME NEW v \in Found PROVE \E k \in 1..Len(open') : open'[k] = v
  <2>1. PICK k \in 1..n : Beyond(Order[k]) = v
    BY <1>5 DEF Found
  <2>2. Len(old) + k \in 1..Len(open') /\ open'[Len(old) + k] = v
    BY <1>2, <1>5, <1>7, <1>8, <2>1
  <2>3. QED
    BY <2>2
<1>10. ASSUME NEW k \in 1..Len(open), open[k] # Head(open)
       PROVE  \E l \in 1..Len(open') : open'[l] = open[k]
  <2>1. k # 1
    BY <1>2, <1>10
  <2>2. /\ k - 1 \in 1..Len(old) /\ k - 1 \in 1..Len(open') /\ k - 1 + 1 = k
        /\ k - 1 \in 1..Len(open) - 1
    BY <1>2, <1>5, <1>8, <2>1
  <2>3. open'[k - 1] = open[k]
    BY <1>2, <1>8, <2>2
  <2>4. QED
    BY <2>2, <2>3
<1>11. QED
  BY <1>9, <1>10

LEMMA SweptBfs ==
  ASSUME Inv, bfs, Steady, open \in Seq(visited), NEW s \in Node, Swept(s), Final = {},
         Found \subseteq Node
  PROVE  Swept(s)'
<1> PICK found, node : found = Found /\ node = Head(open)
  OBVIOUS
<1>1. /\ WellLinked(m_adj, m_out_degree) /\ visited \subseteq Node /\ open # <<>>
      /\ child_index' = child_index /\ visited' = visited \cup found
  BY BfsNamed DEF Inv, ListsInv, SearchInv
<1>2. node \in visited /\ node \in Node /\ visited \subseteq visited'
  BY <1>1
<1>3. /\ UNCHANGED m_adj /\ UNCHANGED m_out_degree /\ UNCHANGED direction
      /\ UNCHANGED m_max_degree /\ UNCHANGED caller /\ Counts' = Counts
  BY SteadyFacts
<1>4. /\ \A v : (admitted(v)' <=> admitted(v)) /\ (ends(v)' <=> ends(v))
      /\ \A v : scanned(v)' = scanned(v) /\ Border(v)' = Border(v)
  BY <1>3 DEF admitted, ends, scanned, Border
<1>5. \A v \in found : v \in Node /\ ~ends(v) /\ m_out_degree[v] = m_max_degree
  <2>1. ASSUME NEW v \in found PROVE ~ends(v) /\ m_out_degree[v] = m_max_degree
    <3>1. PICK e \in Taken : Beyond(e) = v
      BY DEF Found
    <3>2. ~ends(v) /\ admitted(v)
      BY <3>1 DEF Final, Taken, Fresh
    <3>3. QED
      BY <3>2 DEF admitted
  <2>2. QED
    BY <2>1
<1>6. ASSUME NEW w \in Node, Leads(direction, Counts, node, w), admitted(w)
      PROVE  w \in visited'
  <2>1. PICK p \in scanned(node) : m_adj[node][p].first = w
    BY <1>1, <1>2, <1>6, LeadsScanned
  <2>2. Beyond(p) = w /\ p \in scanned(Head(open)) /\ Head(open) \in Node
    BY <1>2, <2>1 DEF Beyond
  <2>3. CASE w \in visited
    BY <1>1, <2>3
  <2>4. CASE w \notin visited
    BY <1>1, <1>6, <2>2, <2>4, FoundCovers
  <2>5. QED
    BY <2>3, <2>4
<1>7. \A v \in visited' : ~ends(v)'
  BY <1>1, <1>4, <1>5 DEF Swept
<1>8. caller' # "find_optimal" => \A v \in visited' \ {s} : m_out_degree'[v] = m_max_degree'
  BY <1>1, <1>3, <1>5 DEF Swept
<1>9. ASSUME NEW v \in visited', NEW w \in Node, Leads(direction, Counts, v, w), w \notin visited',
             admitted(w)
      PROVE  \E k \in 1..Len(open') : open'[k] = v
  <2>1. /\ \A x \in found : \E k \in 1..Len(open') : open'[k] = x
        /\ \A k \in 1..Len(open) : open[k] = node \/ \E l \in 1..Len(open') : open'[l] = open[k]
    BY <1>1, QueueGrows
  <2>2. CASE v \in found
    BY <2>1, <2>2
  <2>3. CASE v \notin found
    <3>1. v \in visited /\ w \notin visited
      BY <1>1, <1>9, <2>3
    <3>2. PICK k \in 1..Len(open) : open[k] = v
      BY <1>9, <3>1 DEF Swept
    <3>3. v # node
      BY <1>6, <1>9
    <3>4. QED
      BY <2>1, <3>2, <3>3
  <2>4. QED
    BY <2>2, <2>3
<1>10. ASSUME NEW v \in visited', NEW e \in scanned(v), e <= Border(v) + child_index'[v]
       PROVE  Passed(v, e)'
  <2>1. CASE v \in visited
    <3>1. Passed(v, e)
      BY <1>1, <1>10, <2>1 DEF Swept
    <3>2. QED
      BY <1>2, <3>1, PassedStays
  <2>2. CASE v \notin visited
    <3>1. v \in Node
      BY <1>1, <1>5, <2>2
    <3>2. child_index'[v] = 0
      BY <1>1, <2>2, <3>1 DEF Swept
    <3>3. Border(v) \in Nat /\ e \in Nat /\ e > Border(v)
      BY <1>1, <3>1, BehindBorder
    <3>4. QED
      BY <1>10, <3>2, <3>3
  <2>3. QED
    BY <2>1, <2>2
<1>11. \A v \in Node \ visited' : child_index'[v] = 0
  BY <1>1 DEF Swept
<1>12. QED
  BY <1>3, <1>4, <1>7, <1>8, <1>9, <1>10, <1>11 DEF Swept

LEMMA CoreExpandTop ==
  ASSUME Inv, CoreInv, expandTop
  PROVE  CoreInv'
<1> SUFFICES ASSUME ~lapsed PROVE CoreInv'
  BY DEF expandTop, CoreInv
<1>1. /\ pc = "search" /\ path = <<>> /\ path' = <<>> /\ WellLinked(m_adj, m_out_degree)
      /\ visited \subseteq Node /\ pc' \in {"search", "trace"}
      /\ Finals = {} <=> pc' = "search"
  BY ExpandTopNamed DEF Inv, ListsInv, SearchInv
<1>2. Steady /\ UNCHANGED algorithm /\ UNCHANGED lapsed
  BY DEF expandTop, Steady, lists, counters, loop
<1>3. PICK s \in Node : SearchFrom(s)
  BY <1>1 DEF CoreInv
<1>4. Ready(s) /\ (Careless \/ Swept(s))
  BY <1>3 DEF SearchFrom
<1>5. PICK nodes \in SUBSET Node : \E rank :
        Tree(nodes, rank) /\ Searching(nodes) /\ Rooted(nodes, s)
  BY <1>3 DEF SearchFrom
<1>6. PICK rank : Tree(nodes, rank) /\ Searching(nodes) /\ Rooted(nodes, s)
  BY <1>5
<1>7. PICK node \in nodes, found \in SUBSET Node : Discovery(nodes, node, found)
  <2>1. Top \in nodes /\ \E found \in SUBSET Node : Discovery(nodes, Top, found)
    BY <1>6, ExpandTopFinds
  <2>2. QED
    BY <2>1
<1>8. open \in Seq(visited)
  BY <1>6 DEF Searching
<1>9. Swept(s) /\ pc' = "search" => Swept(s)'
  BY <1>1, <1>2, <1>8, SweptExpandTop
<1>10. /\ pc' = "search" => SearchFrom(s)'
       /\ pc' = "trace" => WalkFrom(s)'
  BY <1>1, <1>2, <1>4, <1>6, <1>7, <1>9, SearchGoesOn
<1>11. QED
  BY <1>1, <1>2, <1>10 DEF CoreInv

LEMMA CoreBfs ==
  ASSUME Inv, CoreInv, bfs
  PROVE  CoreInv'
<1> SUFFICES ASSUME ~lapsed PROVE CoreInv'
  BY DEF bfs, CoreInv
<1>1. /\ pc = "search" /\ path = <<>> /\ path' = <<>> /\ WellLinked(m_adj, m_out_degree)
      /\ visited \subseteq Node /\ pc' \in {"search", "trace"}
      /\ Final = {} <=> pc' = "search"
  BY BfsNamed DEF Inv, ListsInv, SearchInv
<1>2. Steady /\ UNCHANGED algorithm /\ UNCHANGED lapsed
  BY DEF bfs, Steady, lists, counters, loop
<1>3. PICK s \in Node : SearchFrom(s)
  BY <1>1 DEF CoreInv
<1>4. Ready(s) /\ (Careless \/ Swept(s))
  BY <1>3 DEF SearchFrom
<1>5. PICK nodes \in SUBSET Node : \E rank :
        Tree(nodes, rank) /\ Searching(nodes) /\ Rooted(nodes, s)
  BY <1>3 DEF SearchFrom
<1>6. PICK rank : Tree(nodes, rank) /\ Searching(nodes) /\ Rooted(nodes, s)
  BY <1>5
<1>7. PICK node \in nodes, found \in SUBSET Node :
        found = Found /\ Discovery(nodes, node, found)
  BY <1>6, BfsFinds
<1>8. open \in Seq(visited)
  BY <1>6 DEF Searching
<1>9. Swept(s) /\ pc' = "search" => Swept(s)'
  BY <1>1, <1>2, <1>7, <1>8, SweptBfs
<1>10. /\ pc' = "search" => SearchFrom(s)'
       /\ pc' = "trace" => WalkFrom(s)'
  BY <1>1, <1>2, <1>4, <1>6, <1>7, <1>9, SearchGoesOn
<1>11. QED
  BY <1>1, <1>2, <1>10 DEF CoreInv

LEMMA CoreStep == Inv /\ CoreInv /\ [Next]_vars => CoreInv'
<1> SUFFICES ASSUME Inv, CoreInv, [Next]_vars PROVE CoreInv'
  OBVIOUS
<1>1. CASE \E source, target \in Node : handleInsertion(source, target)
  BY <1>1, CoreInsertion
<1>2. CASE \E source, target \in Node : handleDeletion(source, target)
  BY <1>2, CoreDeletion
<1>3. CASE \/ dfs_forward_correct_2 \/ dfs_backward_correct_2
           \/ dfs_forward_shared_visited_correct_2
  BY <1>3, CoreExpandTop DEF dfs_forward_correct_2, dfs_backward_correct_2,
                             dfs_forward_shared_visited_correct_2
<1>4. CASE bfs
  BY <1>4, CoreBfs
<1>5. CASE trace
  BY <1>5, CoreTrace
<1>6. CASE flip_active_edge \/ flip_reverse_edge
  BY <1>6, CoreFlips
<1>7. CASE \/ returnFromInsertion \/ returnFromDeletion \/ returnFromRound
           \/ tryNode \/ endRound
  BY <1>7, CoreReturnInsertion, CoreReturnDeletion, CoreReturnRound, CoreTryNode, CoreEndRound
<1>8. CASE UNCHANGED vars
  BY <1>8, CoreStutter
<1>9. QED
  BY <1>1, <1>2, <1>3, <1>4, <1>5, <1>6, <1>7, <1>8 DEF Next, handlerStep

LEMMA CoreAlways == Spec => [](Inv /\ CoreInv)
<1>1. Init => Inv /\ CoreInv
  BY InvInitially, CoreInitially
<1>2. (Inv /\ CoreInv) /\ [Next]_vars => (Inv /\ CoreInv)'
  BY InvStep, CoreStep
<1>3. QED
  BY <1>1, <1>2, PTL DEF Spec

\* As long as find_optimal has never been skipped with edges left, max_out_degree is the
\* greatest out-degree and max_node_count the number of the nodes that have it, whichever of
\* the two improved algorithms runs: no raise, no path and no round of find_optimal miscounts.
THEOREM CountersAlwaysExact == Spec => []CountersExact
<1>1. Inv /\ CoreInv => CountersExact
  <2> SUFFICES ASSUME Inv, CoreInv, pc = "idle", algorithm # "STRONG_OPT_DFS", ~lapsed
               PROVE  /\ \A v \in Node : m_out_degree[v] <= max_out_degree
                      /\ max_node_count =
                           IF \A e \in Edge : edges[e] = 0 THEN 0
                           ELSE Cardinality({v \in Node : m_out_degree[v] = max_out_degree})
    BY DEF CountersExact
  <2>1. Known(Counts, m_out_degree, max_out_degree, max_node_count)
    BY DEF CoreInv, CoreIdle
  <2>2. (\A e \in Edge : edges[e] = 0) <=> \A v \in Node : m_out_degree[v] = 0
    BY NoEdgesNoArcs DEF Inv, ListsInv
  <2>3. AtMost(m_out_degree, max_out_degree)
    BY <2>1, KnownFacts
  <2>4. CASE \A e \in Edge : edges[e] = 0
    <3>1. ~Certified(Counts, m_out_degree, max_out_degree, max_node_count)
      BY <2>2, <2>4, CertifiedFacts
    <3>2. max_node_count = 0
      BY <2>1, <3>1 DEF Known
    <3>3. QED
      BY <2>3, <2>4, <3>2 DEF AtMost
  <2>5. CASE ~\A e \in Edge : edges[e] = 0
    <3>1. Certified(Counts, m_out_degree, max_out_degree, max_node_count)
      BY <2>1, <2>2, <2>5, KnownFacts
    <3>2. max_node_count = Cardinality(AtLevel(m_out_degree, max_out_degree))
      BY <3>1, CertifiedFacts
    <3>3. QED
      BY <2>3, <2>5, <3>2 DEF AtMost, AtLevel
  <2>6. QED
    BY <2>4, <2>5
<1>2. QED
  BY <1>1, CoreAlways, PTL

\* Until then, and for strong_opt_dfs always, no orientation has a smaller maximum out-degree
\* when a handler returns, parallel edges included, although the searches of a round may fail
\* over the marks of earlier ones.
THEOREM AlwaysOptimalUntilLapse == Spec => []OptimalUntilLapse
<1>1. Inv /\ CoreInv => OptimalUntilLapse
  <2> SUFFICES ASSUME Inv, CoreInv, pc = "idle", ~lapsed PROVE MaximumNeeded
    BY DEF OptimalUntilLapse
  <2>1. WellLinked(m_adj, m_out_degree) /\ CoreIdle
    BY DEF Inv, ListsInv, CoreInv
  <2>2. CASE algorithm = "STRONG_OPT_DFS"
    BY <2>1, <2>2, NoGapIsOptimal DEF CoreIdle
  <2>3. CASE algorithm # "STRONG_OPT_DFS"
    BY <2>1, <2>3, KnownIsOptimal DEF CoreIdle
  <2>4. QED
    BY <2>2, <2>3
<1>2. QED
  BY <1>1, CoreAlways, PTL

\* A deletion lowers the maximum at most once: every round of find_optimal, which may find that
\* all its searches have succeeded, leaves the maximum as it is, because some node that has it
\* has nowhere to hand an arc to.
THEOREM RoundsKeepMaximum ==
  Spec => [][endRound /\ ~lapsed => UNCHANGED max_out_degree]_vars
<1>1. Inv /\ CoreInv /\ [Next]_vars => [endRound /\ ~lapsed => UNCHANGED max_out_degree]_vars
  BY RoundKeepsMaximum
<1>2. QED
  BY <1>1, CoreAlways, PTL DEF Spec
=============================================================================
