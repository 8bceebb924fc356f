--------------------------- MODULE BucketHeuristics ---------------------------
(****************************************************************************)
(* The algorithms that find the nodes of maximum out-degree in degree       *)
(* buckets: naive_opt, which is exact, and the heuristics impro_opt, BFSCS, *)
(* KFlipsCS, RWalkCS and MaxDecending.  They share the constructor, the     *)
(* deletion from the lists and the buckets, and differ in what they turn    *)
(* after an update.  As in algorithm_factory the algorithm is fixed at the  *)
(* start of a run, with its parameters.                                     *)
(*                                                                          *)
(* An update is one action, and each search, flip or step of a walk that    *)
(* follows it is one.  A random choice, or one that depends on the order of *)
(* a list of neighbours, is left open: a list is kept as the number of      *)
(* times it holds each node.                                                *)
(****************************************************************************)
EXTENDS DegreeBuckets

CONSTANTS Configs,   \* the configurations: the algorithm; depth is bfsDepthBound or
                     \*   rwLengthBound; amount is bfsMaxAlgoAmount, flips or rwAmount;
                     \*   pruneFlips
          MaxCopies  \* bound: parallel edges; 1 for a simple graph

Algorithms == {"NAIVEOPT", "IMPROOPT", "BFSCS", "KFLIPSCS", "RWALKCS", "MAXDECENDING"}

ASSUME ConfigsAssumption ==
  /\ Configs \subseteq [algorithm : Algorithms, depth : Nat, amount : Nat \ {0},
                        pruneFlips : BOOLEAN]
  /\ \A c \in Configs : c.algorithm = "RWALKCS" => c.depth > 0

ASSUME MaxCopiesAssumption == MaxCopies \in Nat \ {0}

VARIABLES config,   \* the configuration of this run
          edges,    \* the copies of each edge, by the sequence so far
          m_adj,    \* how often the list of each node holds each other
          b,        \* the degree buckets
          pc,       \* "idle", or the part of a handler that is next
          i,        \* the rounds of a bounded loop that are left
          path      \* where a search starts; where a walk has been; where a descent
                    \*   has started and where it has come to

vars == <<config, edges, m_adj, b, pc, i, path>>

Init ==
  /\ config \in Configs
  /\ edges = [e \in Edge |-> 0] /\ m_adj = [v \in Node |-> [w \in Node |-> 0]]
  /\ b \in {Filled(order) : order \in {m \in Arrangements(Node) : Len(m) = Cardinality(Node)}}
  /\ pc = "idle" /\ i = 0 /\ path = <<>>

Is(algorithm) == config.algorithm = algorithm

Return == pc' = "idle" /\ i' = 0 /\ path' = <<>>

Enter(part, rounds, nodes) == pc' = part /\ i' = rounds /\ path' = nodes

With(list, v) == [list EXCEPT ![v] = @ + 1]

\* The first entry of v leaves the list, if there is one.
Without(list, v) == [list EXCEPT ![v] = IF @ = 0 THEN 0 ELSE @ - 1]

Neighbours == [v \in Node |-> {w \in Node : m_adj[v][w] > 0}]

\* There are as many buckets as nodes: parallel edges can give a node an out-degree
\* that has none.  What the code does then is undefined, and the model stops.
overflows(v) == b.m_degree[v] + 1 \notin Degrees

undefined == pc' = "undefined" /\ i' = 0 /\ path' = <<>>

(****************************************************************************)
(* The updates.                                                             *)
(****************************************************************************)

\* naive_opt searches after every insertion.
insertion_naive_opt == Is("NAIVEOPT") /\ Enter("bfs_all", 1, <<>>)

\* The others only if the tail has become a node of maximum out-degree, except
\* that KFlipsCS and MaxDecending do not ask unless pruneFlips is set; and none
\* when the maximum is 1, which is optimal.
searches(source) ==
  /\ b'.m_max_degree # 1
  /\ \/ b'.m_degree[source] = b'.m_max_degree
     \/ ~config.pruneFlips /\ config.algorithm \in {"KFLIPSCS", "MAXDECENDING"}

insertion_BFSCS(source) == Is("BFSCS") /\ Enter("bfs", 1, <<source>>)

Smaller(x, y) == IF x < y THEN x ELSE y

\* As many searches, from random starts, as half again as many as there are nodes
\* of maximum out-degree.
insertion_impro_opt ==
  /\ Is("IMPROOPT")
  /\ Enter("bfs", Smaller(config.amount, (3 * Cardinality(Top(b'))) \div 2), <<>>)

insertion_KFlipsCS == Is("KFLIPSCS") /\ Enter("kflips", config.amount, <<>>)

insertion_RWalkCS(source) == Is("RWALKCS") /\ Enter("rwalk", config.amount, <<source>>)

insertion_MaxDecending(source) ==
  Is("MAXDECENDING") /\ Enter("findsequence", 0, <<source>>)

handleInsertion(source, target) ==
  /\ pc = "idle" /\ source # target /\ edges[{source, target}] < MaxCopies
  /\ ~overflows(source)
  /\ edges' = [edges EXCEPT ![{source, target}] = @ + 1]
  /\ m_adj' = [m_adj EXCEPT ![source] = With(@, target)]
  /\ b' = Moved(b, source, 1)
  /\ \/ insertion_naive_opt
     \/ searches(source) /\ \/ insertion_BFSCS(source) \/ insertion_impro_opt
                            \/ insertion_KFlipsCS \/ insertion_RWalkCS(source)
                            \/ insertion_MaxDecending(source)
     \/ ~Is("NAIVEOPT") /\ ~searches(source) /\ Return
  /\ UNCHANGED config

insertion_undefined ==
  /\ pc = "idle"
  /\ \E source \in Node, target \in Node :
       source # target /\ edges[{source, target}] < MaxCopies /\ overflows(source)
  /\ undefined
  /\ UNCHANGED <<config, edges, m_adj, b>>

\* Only naive_opt, until a search fails, and KFlipsCS turn edges after a deletion.
deletion ==
  \/ Is("NAIVEOPT") /\ Enter("while_bfs_all", 0, <<>>)
  \/ Is("KFLIPSCS") /\ Enter("kflips", config.amount, <<>>)
  \/ config.algorithm \notin {"NAIVEOPT", "KFLIPSCS"} /\ Return

\* Variant: the buckets follow only when no copy is left.
MovedWithoutLast(buckets, node, v) ==
  IF m_adj[node][v] = 1 THEN Moved(buckets, node, -1) ELSE buckets

\* The buckets follow when the list of node loses an entry of v.
MovedWithout(buckets, node, v) ==
  IF m_adj[node][v] > 0 THEN Moved(buckets, node, -1) ELSE buckets

\* Both lists are searched: of parallel copies in opposite directions both go.
handleDeletion(source, target) ==
  /\ pc = "idle" /\ source # target /\ edges[{source, target}] > 0
  /\ edges' = [edges EXCEPT ![{source, target}] = @ - 1]
  /\ m_adj' = [m_adj EXCEPT ![source] = Without(@, target), ![target] = Without(@, source)]
  /\ b' = MovedWithout(MovedWithout(b, source, target), target, source)
  /\ deletion
  /\ UNCHANGED config

(****************************************************************************)
(* The searches of naive_opt, from all nodes of maximum out-degree at once, *)
(* and of BFSCS and impro_opt, from one of them and to a bounded depth.     *)
(****************************************************************************)

Arcs(p) == {<<p[k], p[k + 1]>> : k \in 1..Len(p) - 1}

\* Variant: the reversed arcs are added, the old ones are not taken out.
ReversedKeepingArcs(p) ==
  LET arcs == Arcs(p)
  IN  [u \in Node |-> [v \in Node |-> m_adj[u][v] + (IF <<v, u>> \in arcs THEN 1 ELSE 0)]]

\* Variant: the loop over the list of a node does not stop at the first copy.
ReversedWithCopies(p) ==
  LET arcs == Arcs(p)
  IN  [u \in Node |-> [v \in Node |-> (IF <<u, v>> \in arcs THEN 0 ELSE m_adj[u][v])
                                        + (IF <<v, u>> \in arcs THEN 1 ELSE 0)]]

\* Reverse one copy of every arc of the path p.
Reversed(p) ==
  LET arcs == Arcs(p)
  IN  [u \in Node |-> [v \in Node |-> m_adj[u][v] - (IF <<u, v>> \in arcs THEN 1 ELSE 0)
                                        + (IF <<v, u>> \in arcs THEN 1 ELSE 0)]]

Turn(p) ==
  /\ m_adj' = Reversed(p)
  /\ \E raised \in {Moved(b, p[Len(p)], 1)} : b' = Moved(raised, p[1], -1)

\* Variant: only a node three below the maximum ends the search.
LowByThree == {v \in Node : b.m_degree[v] < b.m_max_degree - 2}

\* Variant: a node one below the maximum ends the search.
LowByOne == {v \in Node : b.m_degree[v] < b.m_max_degree}

\* The nodes at which a search or walk ends.
Low == {v \in Node : b.m_degree[v] < b.m_max_degree - 1}

PathsToLow(s) ==
  LET low == Low
      neighbours == Neighbours
  IN  {p \in {Joined(s, m, v) : m \in Arrangements(Node \ (low \cup {s})), v \in low} :
         IsPath(neighbours, p)}

bfs_all ==
  LET paths == Shortest(UNION {PathsToLow(s) : s \in Top(b)})
  IN  /\ pc \in {"bfs_all", "while_bfs_all"}
      /\ \/ paths = {} /\ Return /\ UNCHANGED <<m_adj, b>>
         \/ /\ \E p \in paths : Turn(p)
            /\ IF pc = "bfs_all" THEN Return ELSE UNCHANGED <<pc, i, path>>
      /\ UNCHANGED <<config, edges>>

\* The nodes that the search can reach from s over at most k arcs.
Ball(s, k) ==
  LET ball[j \in 0..k] == IF j = 0 THEN {s}
                          ELSE ball[j - 1] \cup UNION {Neighbours[u] : u \in ball[j - 1] \ Low}
  IN  ball[k]

Level(s, k) == Ball(s, k) \ (IF k = 0 THEN {} ELSE Ball(s, k - 1))

(****************************************************************************)
(* cur_depth is raised at the first node of each depth, and the search is   *)
(* given up at the first node taken from the queue with a cur_depth above   *)
(* the bound: at the second node of depth bfsDepthBound, after its          *)
(* out-degree has been looked at, or, when it is the only one of its depth, *)
(* at the first node below it.                                              *)
(****************************************************************************)
InReach(s, distance) ==
  distance <= config.depth \/ (distance = config.depth + 1 /\ Cardinality(Level(s, config.depth)) = 1)

Missable(s, distance) ==
  \/ distance > config.depth + 1
  \/ distance = config.depth + 1 /\ (Cardinality(Level(s, config.depth)) > 1
                                      \/ ~(Level(s, distance) \subseteq Low))
  \/ distance = config.depth /\ Cardinality(Level(s, distance) \ Low) > 1

bfs ==
  /\ pc = "bfs"
  /\ \E s \in IF path = <<>> THEN Top(b) ELSE {path[1]} :
       LET paths == Shortest(PathsToLow(s))
       IN  \/ \E p \in paths : InReach(s, Len(p) - 1) /\ Turn(p)
           \/ /\ \A p \in paths : Missable(s, Len(p) - 1)
              /\ UNCHANGED <<m_adj, b>>
  /\ IF i = 1 \/ b'.m_max_degree = 1 THEN Return ELSE i' = i - 1 /\ UNCHANGED <<pc, path>>
  /\ UNCHANGED <<config, edges>>

(****************************************************************************)
(* kflips: turn an arc of a random node of maximum out-degree, some times.  *)
(****************************************************************************)
TurnArc(u, v) ==
  /\ m_adj' = Reversed(<<u, v>>)
  /\ \E lowered \in {Moved(b, u, -1)} : b' = Moved(lowered, v, 1)

kflips ==
  /\ pc = "kflips"
  /\ \E source \in Top(b) : \E target \in Neighbours[source] :
       ~overflows(target) /\ TurnArc(source, target)
  /\ IF i = 1 \/ b'.m_max_degree = 1 THEN Return ELSE i' = i - 1 /\ UNCHANGED <<pc, path>>
  /\ UNCHANGED <<config, edges>>

\* After the deletion of the last edge the nodes of maximum out-degree have no arc,
\* and the code takes the front of an empty list.
kflips_undefined ==
  /\ pc = "kflips"
  /\ \E source \in Top(b) :
       Neighbours[source] = {} \/ \E target \in Neighbours[source] : overflows(target)
  /\ undefined
  /\ UNCHANGED <<config, edges, m_adj, b>>

(****************************************************************************)
(* rwalk: walk over random arcs until a low node, a node already visited or *)
(* the length bound.                                                        *)
(****************************************************************************)
TurnWalk(p) ==
  /\ m_adj' = Reversed(p)
  /\ \E lowered \in {Moved(b, p[1], -1)} : b' = Moved(lowered, p[Len(p)], 1)

Visited == {path[j] : j \in 1..Len(path)}

walkOn(next) ==
  /\ next \notin Low \cup Visited /\ Len(path) < config.depth
  /\ path' = Append(path, next)
  /\ UNCHANGED <<m_adj, b, pc, i>>

walkSucceeds(next) ==
  next \in Low /\ TurnWalk(Append(path, next)) /\ Return

walkFails(next) ==
  /\ next \notin Low
  /\ next \in Visited \/ Len(path) = config.depth
  /\ IF i = 1 THEN Return ELSE Enter(pc, i - 1, <<path[1]>>)
  /\ UNCHANGED <<m_adj, b>>

rwalk ==
  /\ pc = "rwalk"
  /\ \E next \in Neighbours[path[Len(path)]] : walkOn(next) \/ walkSucceeds(next) \/ walkFails(next)
  /\ UNCHANGED <<config, edges>>

(****************************************************************************)
(* findsequence: descend along arcs to the lowest neighbour, turning them,  *)
(* and start over until the first node has no neighbour to descend to.      *)
(****************************************************************************)

\* Variant: any lower neighbour is good enough.
LowestByOne(u) ==
  LET lower == {v \in Neighbours[u] : b.m_degree[v] < b.m_degree[u]}
  IN  {v \in lower : \A w \in lower : b.m_degree[v] <= b.m_degree[w]}

Lowest(u) ==
  LET lower == {v \in Neighbours[u] : b.m_degree[v] < b.m_degree[u] - 1}
  IN  {v \in lower : \A w \in lower : b.m_degree[v] <= b.m_degree[w]}

descend ==
  /\ pc = "findsequence"
  /\ \E v \in Lowest(path[Len(path)]) : TurnArc(path[Len(path)], v) /\ path' = <<path[1], v>>
  /\ UNCHANGED <<config, edges, pc, i>>

descended ==
  /\ pc = "findsequence" /\ Lowest(path[Len(path)]) = {}
  /\ IF Len(path) > 1 THEN Enter(pc, i, <<path[1]>>) ELSE Return
  /\ UNCHANGED <<config, edges, m_adj, b>>

handlerStep == bfs_all \/ bfs \/ kflips \/ kflips_undefined \/ rwalk \/ descend \/ descended

Next == \/ \E source, target \in Node : \/ handleInsertion(source, target)
                                        \/ handleDeletion(source, target)
        \/ insertion_undefined
        \/ handlerStep

\* The only thread of the program runs a handler to its end.
Fairness == WF_vars(handlerStep)

Spec == Init /\ [][Next]_vars /\ Fairness

-----------------------------------------------------------------------------
(****************************************************************************)
(* Properties.                                                              *)
(****************************************************************************)

\* The entries of a list, each copy counted.
Length(list) == Cardinality(UNION {{w} \X (1..list[w]) : w \in Node})

Lengths(adj) == [v \in Node |-> Length(adj[v])]

\* What checkdegrees asserts at the end of a run holds after every single step,
\* however the moves of several nodes follow each other; and no bucket has an
\* entry of a node that has gone elsewhere.
BucketsConsistent ==
  /\ Consistent(b, Lengths(m_adj))
  /\ \A k \in Degrees : \A j \in 1..Len(b.m_degree_buckets[k]) :
       Lengths(m_adj)[b.m_degree_buckets[k][j]] = k

\* The entries for an edge in the lists of both its ends.
Entries(adj, e) ==
  LET u == CHOOSE x \in e : TRUE
      v == CHOOSE x \in e : x # u
  IN  adj[u][v] + adj[v][u]

\* No search, walk or descent loses a copy of an edge or makes one, parallel copies
\* on its way included; an insertion adds one entry; a deletion takes one or, of
\* copies in opposite directions, two, and leaves no entry without an edge.
EntriesFollowGraph ==
  [][\A e \in Edge :
       LET more == Entries(m_adj', e) - Entries(m_adj, e)
       IN  /\ edges'[e] >= edges[e] => more = edges'[e] - edges[e]
           /\ edges'[e] < edges[e] => more \in {-1, -2} \/ Entries(m_adj, e) = 0
           /\ Entries(m_adj', e) <= edges'[e]]_vars

\* naive_opt is exact: one search after an insertion is enough, and the searches
\* after a deletion end with an orientation that is optimal for the edges in the
\* lists: some set of nodes has more than k - 1 arcs per node within it when k is
\* the maximum.
NaiveOptOptimal ==
  Is("NAIVEOPT") /\ pc = "idle" /\ b.m_max_degree > 0 =>
    \E S \in SUBSET Node :
      LET within == {ek \in Edge \X (1..MaxCopies) :
                       ek[1] \subseteq S /\ ek[2] <= Entries(m_adj, ek[1])}
      IN  Cardinality(within) > (b.m_max_degree - 1) * Cardinality(S)

\* Whatever is turned within a handler, one node gives an out-degree to another
\* that is not higher afterwards, and the maximum does not rise.  This is why the
\* loops end; it needs the degrees that a search or a walk reads to be current.
\* It does not hold for KFlipsCS, which turns arcs blindly.
TurnsLevel ==
  [][edges' = edges /\ m_adj' # m_adj /\ ~Is("KFLIPSCS") =>
       LET before == Lengths(m_adj)
           now == Lengths(m_adj')
       IN  /\ b'.m_max_degree <= b.m_max_degree
           /\ \E giver, taker \in Node :
                /\ now[giver] = before[giver] - 1 /\ now[taker] = before[taker] + 1
                /\ now[taker] <= now[giver]
                /\ \A v \in Node \ {giver, taker} : now[v] = before[v]]_vars

\* Every handler returns: no search, walk or descent goes on for ever, and no walk
\* comes to a node without out-neighbours.
HandlerReturns == pc # "idle" ~> pc \in {"idle", "undefined"}

\* From its first step to its last an update leaves an orientation of the graph,
\* when that is simple.
Abstract == INSTANCE EdgeOrientation
              WITH edges <- {e \in DOMAIN edges : edges[e] > 0}, m_adj <- Neighbours
Implements == Abstract!Spec
=============================================================================
