# Verification of DynDeltaOrientation in TLA+

The program keeps an orientation of the edges of a graph while edges are
inserted and deleted, and tries to keep the maximum out-degree small. It is
sequential: there is no concurrency, no network and no persistence. What makes it
hard is that every update repairs the orientation *locally*, that the repair
works on data full of cached positions and counters, and that it has to be good
enough for every later update. The questions are therefore about sequences of
calls, about what is stale when it is used, about boundaries, and about loops
that must end.

## 1. The system

`app/delta-orientations.cpp` reads a sequence of insertions and deletions, picks
an algorithm (`lib/tools/algorithm_factory.h`), and calls `handleInsertion` or
`handleDeletion` once per entry (`lib/algorithms/DynamicAlgorithmMeta.h`). Then
`end()` copies the orientation into a `dyn_graph_access`, from which the driver
takes the maximum out-degree and writes a file. All algorithms implement
`lib/algorithms/DynEdgeOrientation.h`; they are alternatives and do not interact.
`app/metis_to_sequence.cpp` is a second program that writes sequences.

| Component | State | Operations | What is hard | What makes it correct |
|---|---|---|---|---|
| interface, update loop | current graph, orientation | one handler call per entry | — | each call leaves an orientation of the current graph |
| `strong_opt` (exact) | `m_adj` (active entries, then passive ones, each with the position of its mirror), `m_out_degree`, search state `m_parent`, `m_depth` | insertion + `bfs_forward`, deletion + `bfs_backward`, `end` | positions recorded by the search are used after earlier flips moved entries; mirrors; parallel edges; one search must be enough | lists linked, positions valid, no improving path left, optimal, one step of the abstract algorithm |
| `improved_opt` (exact) | the same lists, `max_out_degree`, `max_node_count`, `visited` | as above, searching from maximum nodes only; `find_optimal` in rounds | counters decide what is searched at all; rounds that change what they test; early return | counters exact, no improving path from a maximum node, rounds end, optimal |
| `strong_opt_dfs`, `improved_opt_dfs` | as above and an explicit stack, an index of the next entry per node; the latter shares them and the visited nodes among the searches of a round | depth-first searches | as above; nodes that an earlier search of the round has excluded; indices left behind; `m_parent` never cleared | as above |
| `naive_opt`, `impro_opt`, `BFSCS`, `MaxDecending`, `KFlipsCS`, `RWalkCS` | `m_adj` (out-neighbours), `m_degree`, `m_degree_buckets`, `m_bucket_pos`, `m_max_degree` | update + search, descent, flips or random walk | bucket positions, highest bucket, first and last node of a bucket, empty lists | `checkdegrees()` holds at any time, flips keep the graph, `naive_opt` is optimal |
| `BrodalFagerbergCS` | `m_adj`, bound, number of flips and their limit, recorded sequence | cascade of flips, rebuild by replaying | a cascade is abandoned halfway | no node above the bound when a handler returns, rebuilds end |
| `Naive` | `m_adj` | append, remove | parallel copies in opposite directions | orientation of the graph, no arc of an edge that is gone |
| `ILP` | the driver's graph, with arbitrary directions | `new_edge`, `remove_edge`; at the end solve and replace all arcs | removal of an arc in either direction; replacing arcs one by one | optimal orientation of the final graph |
| `dyn_graph_access` | arrays of arcs, index maps in both directions, a counter | `new_edge`, `remove_edge`, `maxDegree`, conversion | the moved arc in both maps | maps and counter agree with the arrays |
| `graph_access` | adjacency array | construction in ascending order | nodes without edges | every edge in the row of its source |
| driver | position in the sequence | read, update loop, end, maximum, conversion, write | what an algorithm leaves in the shared graph | the converted graph is the orientation |
| sequence generator | edges, deleted positions, window | insert, delete, reinsert, sliding window | positions drawn out of range, windows of size 0, repeated edges | only present edges are deleted |
| parameters, tools, priority queues, vendored code | | | | not modelled (section 5) |

`PROJECT.json` lists the components with their status and every hazard at its line.

## 2. Modules

| Module | Models | State and actions |
|---|---|---|
| `Orientations` | graphs, orientations, optimality, the two searches and the reversal of a path | no state; `bfs_forward(adj, s)` is the *set* of orientations the search can leave, one for each shortest path, because it abstracts from the order of the lists |
| `EdgeOrientation` | the interface: what every algorithm promises | `edges`, `m_adj`; any reorientation is allowed |
| `OptimalOrientation` | what an exact algorithm promises: every handler leaves an optimal orientation | adds the condition to `Next` |
| `StrongOpt` | `strong_opt` with one action per handler call | `m_adj[v]` is the set of the active entries of the list of `v` |
| `AdjacencyLists` | the list surgery of insertion, deletion and `flip_active_edge` | operators on `lists`, `degree`; positions start at 1 |
| `StrongOptArrays` | `strong_opt` on the lists, a step per expanded node, per node of the walk back and per flip | `pc` is where the handler is; `bfsqueue`, `m_parent`, `visited` (`m_depth # -1`), `touched`, `path` as in the code; `returned` is a history variable for the refinement |
| `PathFlips` | what the exact algorithms share on the lists: what a search scans and where it ends, the walk back over `m_parent`, the flips in both directions | the lists, `m_parent`, `path`; actions `walkBack`, `flipNext` |
| `ExactOptArrays` | `strong_opt_dfs`, `improved_opt_dfs` and `improved_opt` on the lists, with parallel edges; a step per popped node, per node of the walk back, per flip and per node of a round of `find_optimal` | `algorithm` is the class, chosen once; `caller` is where a search returns to; `open` is the stack or the queue; `visited`, `child_index`, `touched` as in the code |
| `ImprovedOpt` | `improved_opt`; `find_optimal` node by node | the counters, `pc`, and the locals of the loop; `lapsed` is a history variable: `find_optimal` was skipped with edges left |
| `DegreeBuckets` | `move_node_to_new_bucket` and `checkdegrees`, which six classes repeat | operators on a record of the four arrays; positions start at 1 |
| `BucketHeuristics` | `naive_opt`, `impro_opt`, `BFSCS`, `KFlipsCS`, `RWalkCS`, `MaxDecending`, with parallel edges | `m_adj` as how often each list holds each node (the order of a list is left open), the buckets `b`; `config` is the algorithm with its parameters, fixed at the start; an action per update and per search, flip or step of a walk |
| `BrodalFagerberg` | `BrodalFagerbergCS`: cascade, abandoned cascade, rebuild; with parallel edges | the lists in their order, the stack `S`, the recorded sequence and the two counters; an action per pass of the loop and per replayed update |
| `GraphAccess` | `graph_access`: the adjacency array and its construction | operators on a record; `Built` is the loop that every caller writes |
| `DynGraphAccess` | `dyn_graph_access` and the conversion to a static graph | operators on a record of the arrays, both maps and the counter |
| `Naive` | `dyn_edge_orientation_Naive` with `end()` | `m_adj`, lists in their order |
| `ILP` | `dyn_edge_orientation_ILP` and `solveUsingILP` | the driver's graph; `Solutions` is the integer program |
| `SequenceGenerator` | `metis_to_sequence` | command line, sequence, file, deleted positions, window; an action per phase, per drawn position and per step of the window |
| `DeltaOrientations` | the composition: generator, file, driver, algorithm, `end()`, conversion | adds the position in the file, the state of the algorithm, `GOrientation` and the converted graph; `NAIVE`, `ILP` and `STRONG_OPT` are instances of their modules, `OTHER` is any algorithm that ends with an orientation |
| `MC...` | instances for TLC | |
| `OrientationsProofs`, `StrongOptProofs`, `ImprovedOptProofs`, `AdjacencyListsProofs`, `StrongOptArraysProofs`, `ExactOptArraysProofs`, `BrodalFagerbergProofs` | theorems | |

`ExactOptArrays` has the three algorithms in one module because they share the
lists, the handlers up to the counters, and the flips; an algorithm's name guards
what is its own. It does not abstract from the order of lists: a depth-first
search in `find_optimal` may fail because an earlier search of the round has
marked a node, and whether it does depends on that order. `m_parent` is never
cleared, in the code and in the model.

In `DeltaOrientations` the random draws of the generator are left open, and so is
the shuffle (any permutation). A position behind the sequence
(`metis_to_sequence.cpp:110`), a window longer than it or of size 0
(`metis_to_sequence.cpp:124`) end in `pc = "undefined"`, because what is read there
is not determined. `reinsert_deleted` is tested as a pointer
(`metis_to_sequence.cpp:117`), so deleted edges are always inserted again.
`strong_opt` keeps sets at this level, and `end()` copies them in ascending order;
the order of its lists is the subject of `StrongOptArrays`. `solveUsingILP` hands its
program to a solver: the model takes any solution, and computes what `end()`
makes of it.

Refinements: `StrongOptArrays` implements `StrongOpt` (`StrongOptArrays!Implements`,
mapping `returned` to its variables), `StrongOpt` implements `OptimalOrientation`,
`ImprovedOpt` and `BucketHeuristics` implement `EdgeOrientation`.

The bucket algorithms share their constructor, their deletion and the moves
between buckets, so they are one module, in which `config` chooses the actions as
`algorithm_factory` chooses the class. What depends on a random number or on the
order of a list of neighbours is left open: the node of the highest bucket at
which a search starts, the arc that is flipped, the next node of a walk, and
which of several shortest paths is found. The bound of `BFSCS` and `impro_opt` is
the one the code applies, which is not quite a depth: `cur_depth` is raised at
the first node of a depth, so the search is given up one node later (`InReach`
and `Missable` say when a path must, may, or cannot be found). A node that leaves
a list reads the slot just popped (`dyn_edge_orientation_naive_opt.h:77`); the
value is overwritten, so `Moved` has no trace of it. After the deletion of the
last edge, `KFlipsCS` takes the front of an empty list; the model then goes to
`pc = "undefined"` and stops.

The loops that call themselves (`rebuild`, `findsequence`) are loops over `pc` in
the models: nothing after the recursive call depends on the caller's locals.

Inputs. The handlers are given the sequences that `metis_to_sequence` writes:
no self-loops, only present edges are deleted, and, with `--filter`, no edge is
inserted twice (`SequenceLegal`). Without `--filter` the generator writes every
edge once from each end, so `StrongOptArrays`, `ExactOptArrays`, `BucketHeuristics` and
`BrodalFagerberg` allow parallel edges (`MaxCopies`), and `Naive` gets both kinds of
sequences. `StrongOpt`, `ImprovedOpt` and `ILP` are on simple graphs; their handlers
have that as a guard.

A deletion in `Naive`, `BrodalFagerberg` and the bucket algorithms searches the lists of
both ends (`dyn_edge_orientation_naive_opt.cpp:36`, `:46`), so of parallel copies in
opposite directions both go. The models do the same, and `BoundedOrientation`
and `EntriesFollowGraph` say what is left: never an arc of an edge that is gone, and
every copy of an edge of which none was deleted beside another. There
are as many buckets as nodes (`dyn_edge_orientation_naive_opt.cpp:16`), too few for an
out-degree that parallel edges can reach; the model goes to `pc = "undefined"` there.

Definitions whose comment starts with *Variant* are not part of the models: each
is a definition with a slip that this code could have, and a run refutes it (the
`mutants` of `PROJECT.json`).

## 3. Runs

| Run | Bounds | Shows |
|---|---|---|
| `strong_opt_4` | 4 nodes, all sequences, 247 states | orientation, no improving path, optimal against *all* orientations, one out-degree changes per call, `StrongOpt` implements `OptimalOrientation` |
| `strong_opt_lists_multi` | 3 nodes, 3 copies of each edge, 297 000 states | links, entries, recorded positions, reset of the search state, optimality of the multigraph, every handler returns |
| `strong_opt_lists_simple` | 5 nodes up to renaming, simple graphs, 124 000 states | the steps of a handler are one step of `StrongOpt`; 5 nodes give paths with an inner node and several paths of equal length |
| `improved_opt_5` | 5 nodes up to renaming, `Depth = 0`, 2354 states | counters exact, optimal — until the first lapse; implements `EdgeOrientation` |
| `improved_opt_dense` | 10 nodes, a fixed sequence of 18 insertions and a deletion, then all sequences of up to 2 deletions, 2228 states | no improving path from a maximum node; the rounds: no node above the maximum, every flip uses up a maximum node, the maximum is lowered once, `find_optimal` returns |
| `buckets_5` | 5 nodes up to renaming, all sequences, 10 configurations, 90 731 states | buckets consistent after every flip, `naive_opt` optimal, every flip but those of `KFlipsCS` levels two out-degrees and never raises the maximum; implements `EdgeOrientation` |
| `buckets_parallel` | 4 nodes, up to 4 edges at a time with up to 2 copies of each, `naive_opt`, `KFlipsCS`, `RWalkCS`, `MaxDecending`, 143 472 states | no flip loses or makes a copy, a deletion leaves no arc of an edge that is gone, `naive_opt` optimal for what the lists hold also when a deletion took entries from both ends, every handler returns |
| `brodal_fagerberg` | growth factor 3/2, the sequences that follow a fixed one and leave it anywhere: of 10 insertions that make 5 nodes a complete graph, with up to 3 other updates, or of 6 that make a triangle of doubled edges, with up to 4 others; 245 123 states | bounded orientation after every handler, whatever cascades were abandoned, no arc of an edge that is gone, no copy lost but beside a deleted one; what is on the stack is above the bound, once; the bound is raised only when the graph calls for it; every handler returns |
| `exact_lists` | all sequences over 3 nodes with up to 5 edges and 2 copies of each; 8 nodes, a fixed sequence of 12 insertions, then up to 2 deletions; 57 000 states | for `strong_opt_dfs`, `improved_opt_dfs` and `improved_opt`: recorded positions valid, search state reset, counters exact and orientation optimal until the first lapse (always, for `strong_opt_dfs`), every handler returns |
| `toolchain` | 4 nodes, static graphs of up to 5 edges, every option, up to 2 deletions, windows of all to a quarter of the edges, 214 475 states | legal sequences, indices of `dyn_graph_access`, the converted graph is the orientation of the intended graph, `strong_opt` and `ILP` report the optimum |
| `toolchain_assertion` | 3 nodes, one edge | **violation**: the assertion behind the conversion |
| `improved_opt_lapse` | 5 nodes, `Depth = 2` | **violation**: `improved_opt` does not stay optimal |

`CHECK_DEADLOCK FALSE`: with `Depth`, `Sparse` or `MaxUpdates` the exploration
stops, as the sequence of the program does; and the runs of `BucketHeuristics`
stop where `KFlipsCS` is undefined. The generator and the driver of the toolchain
end, by themselves or where they are undefined.

Bounds. `Depth` bounds how far `max_out_degree` is followed below zero: after a
lapse each deletion lowers it further. `Depth = 0` in `improved_opt_5` already
explores states after a lapse, and `Depth = 2` is enough for the violation.
`Order` is the order in which a round of `find_optimal` visits the nodes:
ascending, as in the code, in `improved_opt_dense`; left open elsewhere.
`Sparse` ends the deletions of `improved_opt_dense`. `find_optimal` has something
to flip only if the optimum was at least 3 and another part of the graph has
nodes of out-degree 0: too many nodes for all sequences. The sequence of
`MCImprovedOptDense` builds such a graph: a dense part on the nodes 4 to 9, and the nodes 0
and 1, of maximum out-degree once a deletion has thinned the dense part. Node 0 is visited first
and has no path but through node 1, which is a maximum node itself; its search fails. Then node 1 is
improved, and in the second round node 0 is. A node whose search has failed may thus
succeed later: what ends the rounds is not that failures last but that every flip uses
up a maximum node (`FlipSpendsMaxNode`).

The configurations of `buckets_5` have depth bounds below and above the longest
paths, and amounts of 1 and 2, so that a loop is both left at once and repeated.
With parallel edges, and without the symmetry that `HandlerReturns` rules out,
there are too many states for every configuration and every graph. `buckets_parallel` has
one configuration with a search, one with single flips, one with a walk and one with a
descent, and `MaxEdges = 4` copies of edges at a time: enough for a walk of two arcs, for a
descent that is repeated, for several searches in one deletion, and for an out-degree
that reaches the last bucket and would exceed it.
`BrodalFagerberg` needs a graph dense enough that cascades exceed the limit, also
while replaying. The two sequences of `MCBrodalFagerberg`, `CompleteGraph` and
`DoubledTriangle`, in orders found by random runs of the algorithm, have a call of
`rebuild` from within `rebuild` in their last insertion; `SimpleFree` and `ParallelFree`
explore every other way to go on from each of their prefixes, and `MaxUpdates` is the longest
that comes of it. Rebuilds after a deletion that took two copies happen too, as was
checked with TLC. With the default factor of 2 fewer
rebuilds happen on 5 nodes.

`exact_lists` needs, besides small graphs, a round of `find_optimal` in which a
depth-first search fails because of nodes that another has marked, and which is
followed by a further round. The sequence (`Prefix`) was found by random runs of
the algorithm with 8 nodes, and that this happens after it was checked with TLC;
`Sparse = 10` is two deletions from its 12 edges, `Depth = 1` explores `Few` also
after a lapse.

In `toolchain` 5 edges on 4 nodes have an optimum of 2, so a wrong report is
possible; sequences of more than 3 entries are not shuffled (`MaxShuffled`),
because a shuffle only renames what follows. Windows of one edge, several edges,
none (undefined) and all edges occur.

Symmetry is used only where no liveness property is checked.

Fairness. `WF_vars(handlerStep)` in `StrongOptArrays`, `ExactOptArrays`,
`BucketHeuristics` and `BrodalFagerberg`, and `WF_vars(find_optimal)` in `ImprovedOpt`: the only thread of the program runs a handler to its end. The
fairness says nothing about the arrival of updates. Random choices get no
fairness of their own: `HandlerReturns` holds for every sequence of them.
`BrodalFagerberg` assumes a growth factor above 1 (`GrowthAssumption`): with 1 or
less, which the command line accepts, `rebuild` repeats itself for ever.

Why `RaisedForCause` holds: let an orientation of all edges ever inserted have
out-degrees of at most `k`, and the bound be 2`k` or more. Count the arcs that
differ from it: an insertion adds at most one, and turning the more than 2`k` arcs of
a node mends at least one more than it breaks, for every bound + 1 arcs turned.
So the flips stay within a limit that every insertion raises by bound + 1. The property
is checked against all subgraphs rather than against this argument; it is what
makes the bound of the result a constant factor of the optimum.

### What the violations show

`find_optimal` returns at once when the lowered maximum is 1 or less
(`dyn_edge_orientation_improved_opt.cpp:279`), without the recount in line 303,
although edges may be left. `max_node_count` then is 0 and stays so; the next
deletion lowers `max_out_degree` again, below the real maximum, and insertions
whose new out-degree is not `max_out_degree` or one more no longer search. The
smallest sequence that TLC finds ends with a node of out-degree 2 where 1 is
possible. README.md:30 says that the exact algorithm keeps the orientation
optimal during insertions and deletions; `strong_opt` does. `improved_opt_dfs`
returns in the same way (`dyn_edge_orientation_improved_opt_dfs.cpp:749`).

`convert_to_graph_access` enters every arc into the rows of both its ends
(`dyn_graph_access.cpp:80`), so the static graph has twice as many edges as the
orientation has arcs. `delta-orientations.cpp:67` asserts that the numbers are equal: with
assertions on, the driver aborts before it writes an orientation with at least one edge.

## 4. Theorems

TLC checks the properties above on the instances above; TLAPS proves the
following for every finite non-empty set of nodes (`NodeAssumption`), every
`Depth \in Nat` and every `Order` in which each set of nodes has a first one, and
for the lists every number `MaxCopies \in Nat \ {0}` of parallel edges
(`ExactOptArrays` numbers the nodes from 0, `NumberedAssumption`, as the code does):

| Theorem | States |
|---|---|
| `StrongOptProofs!StaysOriented` | `Spec => [](TypeOK /\ Oriented)` |
| `StrongOptProofs!StaysWithoutImprovingPath` | `Spec => []NoImprovingPath` |
| `StrongOptProofs!StaysOptimal` | `Spec => []Optimal` |
| `StrongOptProofs!OneDegreePerCall` | `Spec => OneDegreeChanges` |
| `StrongOptProofs!Refinement` | `Spec => Implements` (of `OptimalOrientation`) |
| `ImprovedOptProofs!StaysOriented` | `Spec => [](TypeOK /\ Oriented)` |
| `ImprovedOptProofs!Refinement` | `Spec => Implements` (of `EdgeOrientation`) |
| `ImprovedOptProofs!CountersAlwaysExact` | `Spec => []CountersExact` |
| `ImprovedOptProofs!NeverImprovingMaxPath` | `Spec => []NoImprovingMaxPath` |
| `ImprovedOptProofs!CertifiedUntilLapse` | `Spec => []OptimalUntilLapse` |
| `ImprovedOptProofs!StaysOptimalUntilLapse` | `Spec => [](pc = "idle" /\ ~lapsed => IsOptimal(m_adj, edges))` |
| `ImprovedOptProofs!RoundsBounded` | `Spec => []RoundBound` |
| `ImprovedOptProofs!MaximumLoweredOnce` | `Spec => LoweredOnce` |
| `ImprovedOptProofs!FlipsSpendMaxNodes` | `Spec => FlipSpendsMaxNode` |
| `StrongOptArraysProofs!AlwaysLinked` | `Spec => []Linked` |
| `StrongOptArraysProofs!EntriesAlwaysMatch` | `Spec => []EntriesMatchGraph` |
| `StrongOptArraysProofs!PathAlwaysValid` | `Spec => []PathStaysValid` |
| `StrongOptArraysProofs!SearchStateAlwaysClean` | `Spec => []SearchStateClean` |
| `StrongOptArraysProofs!AlwaysOptimalMultigraph` | `Spec => []OptimalMultigraph` |
| `ExactOptArraysProofs!PathAlwaysValid` | `Spec => []PathStaysValid` |
| `ExactOptArraysProofs!SearchStateAlwaysClean` | `Spec => []SearchStateClean` |
| `ExactOptArraysProofs!CountersAlwaysExact` | `Spec => []CountersExact` |
| `ExactOptArraysProofs!AlwaysOptimalUntilLapse` | `Spec => []OptimalUntilLapse` |
| `ExactOptArraysProofs!RoundsKeepMaximum` | `Spec => [][endRound /\ ~lapsed => UNCHANGED max_out_degree]_vars` |
| `ExactOptArraysProofs!ListsAlwaysMatch` | `Spec => [](MirrorsAgree(m_adj) /\ OneSideActive(m_adj, m_out_degree) /\ Matched(m_adj, edges))` |
| `BrodalFagerbergProofs!AlwaysBounded` | `Spec => []BoundedOrientation` |
| `BrodalFagerbergProofs!StackAlwaysAbove` | `Spec => []StackAboveBound` |
| `BucketHeuristicsProofs!BucketsAlwaysConsistent` | `Spec => []BucketsConsistent` |
| `BucketHeuristicsProofs!EntriesAlwaysFollowGraph` | `Spec => EntriesFollowGraph` |
| `BucketHeuristicsProofs!TurnsAlwaysLevel` | `Spec => TurnsLevel` |
| `BucketHeuristicsProofs!NaiveAlwaysOptimal` | `Spec => []NaiveOptOptimal` |
| `BucketHeuristicsProofs!SimpleGraphsOriented` | `MaxCopies = 1` implies `Spec => Implements` (of `EdgeOrientation`) |

The argument for `strong_opt`:

1. *Flips* (`OrientationsProofs`): reversing a path of the current lists keeps an
   orientation of the graph (`FlipKeepsOrientation`); a simple path moves one
   from the out-degree of its first node to its last (`FlipDegrees`).
2. *Searches*: when there is no path to flip, the nodes a search reaches form a
   closed set, up to nodes that are no lower (`ForwardExhausted`,
   `BackwardExhausted`). Since the model knows paths and not the queue, this
   turns "no path of the searched shape" into "a closed set without low nodes";
   it needs the induction along intervals that `IntervalInduction` provides from
   the finiteness of sets.
3. *Inductive invariant* `IInv == TypeOK /\ Oriented /\ NoImprovingPath`.
   Optimality alone is not inductive: an optimal orientation may have improving
   paths between low nodes that a later deletion makes relevant. For every node
   the step lemmas name a closed set around it without a node two below it (a
   *shield*), before and after the flip (`InsertionWithoutPath`,
   `InsertionWithPath`, `DeletionWithoutPath`, `DeletionWithPath`).
4. *Optimality* (`NoGapOptimal`): if a node had more than `k` out-neighbours while
   another orientation has at most `k` everywhere, the set of nodes it reaches
   would span more edges than their `k` tails each can take; the injection that
   contradicts this is built explicitly.

The argument for `improved_opt`. For the orientation, the refinement and
`FlipsSpendMaxNodes`, `TypeOK /\ Oriented` is enough: whatever the counters say, the lists are
changed by one arc and by flips of current paths. The rest holds until `find_optimal` has been
skipped with edges left (`lapsed`), and needs more than the counters:

1. *Core*. `NoImprovingMaxPath` is not inductive: what matters at the next update is also what
   lies between the nodes below the maximum. Let `k` be the maximum. A core is a closed set of
   nodes, each with an out-degree of at least `k - 1`, that contains every node with `k`.
   Its existence says that no maximum node has an improving path, that `k` is the
   optimum (`CoreCertifies`: the arcs of a core are edges it spans, and there are more than
   `k - 1` for each of its nodes), and it survives updates: `CoreUntouched` for an insertion that
   searches nothing, `CoreGrows` and `CoreOfOne` when the search fails, `CoreBypassed` and
   `CoreCrossed` when a path is flipped; `CoreThinned`, `CoreShrinks` and `CoreRepaired` likewise
   for a deletion.
2. *Plateau*. When the last maximum node goes, the core becomes a closed set of nodes that all have
   the lowered maximum (`HasPlateau`). From it no path leads lower, so a search of
   `find_optimal` that succeeds starts outside of it and never enters it
   (`PlateauAvoided`): the plateau stays. This is why the maximum is not lowered a second
   time: in a round whose searches all succeed no visited node keeps the maximum (`InRound`),
   and those of the plateau do.
3. *End*. A round without a successful search leaves, for every maximum node, no path that
   `bfs_forward` would find; the nodes reachable from them form a closed set without low nodes
   (`RoundLeavesCore`), which is the core of the next update.
4. *Inductive invariant* `IInv /\ CoreInv`, where `IInv == TypeOK /\ Oriented` and `CoreInv` says
   that the counters are exact and a core exists between handlers, and `InRound` inside `find_optimal`.

The argument for the lists of `strong_opt`:

1. *List operations* (`AdjacencyListsProofs`). A deletion or a flip is a row of
   small steps: an entry trades places with another, the mirror of one is told its new
   place, the border of the active entries moves, the last entry is dropped. Between
   two of them some entries are *loose* (their partner does not name them yet). Each
   lemma says which entries a step makes loose or ties again, that every other pair
   keeps naming each other, and by how much the step changes the number of entries and
   of arcs between two nodes. Chained, they give `EdgeDeleted`, `ArcInsertedLinks` and
   `ActiveFlippedLinks`: a whole operation on well-linked lists ends with well-linked
   lists, with one copy more, one less, or one turned round.
2. *Inductive invariant* (`StrongOptArraysProofs`)
   `Inv == ListsInv /\ SearchInv /\ SearchMarks`. `Linked` alone is not inductive: a
   deletion finds an entry to remove only because the counts match the graph, and a
   flip stays inside the lists only because the recorded position is on the right side
   of the border. `PathStaysValid` needs the search as well:
   `SearchInv` gives every found node a rank below which lies the node it was found
   from, so that the walk back over `m_parent` passes no node twice.
3. *Flips on recorded positions*. A step is recorded in the list of the node it
   was found from, and these nodes are distinct. A flip moves entries in the active part of
   its tail's list and in the passive part of its head's. Of the two lists, one is that of
   the step itself, and in the other the moved part is not the part the search
   went through; so the steps still to come name the same entries as when they were
   recorded.
4. *Marks* (`SearchMarks`): the touched nodes are the visited ones, and off the touched nodes
   `m_parent` is clear; hence clearing the touched nodes clears everything.

5. *Optimality with parallel edges* (`GapInv`). Here a graph is the number of arcs from each node
   to each other (`ArcCounts`), and a path is turned by taking one copy of each of its arcs the other
   way (`ArcTurned`), which `FlipCloses` follows through the flips of single entries. Between updates every node
   has a shield: a set of nodes that no arc leaves, none of them two below it
   (`NoGap`). An insertion at `s` can open a gap only from `s`, a deletion only to `s`
   (`InsertionUpdates`, `DeletionUpdates`), so the handler has to mend only that. The
   queue decides how: a node found but not in the queue any more has been expanded, so all
   its arcs in the direction of the search lead to nodes found or not admitted
   (`WalkGoesOn`); when the queue is empty the nodes found are themselves the shields (`SearchFails`),
   and when the search ends at a node, turning the path to it leaves no gap (`WalkEnds`,
   `FlippingOver`). `NoGapIsOptimal` counts the arcs of the set reached from a node of maximum
   out-degree: more than `k - 1` for each of its nodes, which no orientation can place below `k`.

What `PathFlips` has in common (the walk back, the flips, the tree a search builds:
`TreeGrows`, `WalkBackKeeps`, `FlipNextKeeps`) is also proved in `AdjacencyListsProofs`, so the
argument for `ExactOptArrays` is the same but for two points. Nothing clears `m_parent` there, so
the tree is that of the current search and may be smaller than `visited`: its nodes are those the
search can come back to (`Searching`). The search ends at none of these, which is why the
node at which it does end, which a depth-first search does not look up in `visited`, is not one of
them, and the walk back from it cannot run in a circle. And when searches share their marks,
`trace` takes nodes out of `visited`; they stay in `touched`, which covers everything
marked (`SearchMarks`), so that the reset at the end of the round is complete.

The counters and the optimality of `ExactOptArrays` combine the arguments for the lists and for
`improved_opt`, and hold until `find_optimal` has been skipped with edges left (`lapsed`), for
`strong_opt_dfs` always. The inductive invariant is `Inv /\ CoreInv`:

1. *Between handlers* `strong_opt_dfs` has no gap, as above; the other two have a core, in terms of
   the numbers of arcs (`Certified`: a set that no arc leaves, that contains every node of the
   maximum `k` and none with less than `k - 1`, and the exact number of the nodes with `k`). How it
   survives an update is said once for numbers of arcs in `AdjacencyListsProofs`: `CoreJoined` and
   `CoreRisen` when the search of an insertion fails, `CorePassed` and `CoreFilled` when it succeeds,
   `CoreWithdrawn` and `CoreYielded` for a deletion; each says what becomes of the two counters.
2. *Searches*. What both searches have in common is a predicate, `Discovery`: found nodes lie over
   valid entries of one node, and the search goes on from them or ends at one. What a failed search
   has shown needs the stack and the indices (`Swept`): every entry before the index of a node, or
   among all of a node that has left the stack, leads to a node found or to one that may not be
   entered (`SweptExpandTop`, `SweptBfs`). When nothing is open, the nodes found are as the core lemmas
   want them (`SearchTrapped`).
3. *Rounds*. Some nodes that have the lowered maximum lead only to one another (`Plateau`); no search
   from them succeeds and no path of another search enters them, so a round never ends
   with all its searches successful (`RoundKeepsMaximum`).
4. *Shared marks*. A search may fail over nodes that an earlier one of its round has marked. As
   long as no search of the round has succeeded, all marks are those of failed searches, whose nodes
   lead only to marked nodes and to nodes of the maximum (`MarksClosed`, `SearchTried`), so the failure is a
   true one. After a success the marks mean nothing any more (`Careless`), but then there is another
   round; the counters are set and the handler returns only after a round without success,
   in which the marks were right all along. The nodes tried are the core of the next
   update (`RoundCertified`).

The argument for `BrodalFagerbergCS`, for any growth factor (`GrowthAssumption`), any number of
parallel edges and sequences of any length:

1. *Lists*. Appending, erasing and turning all arcs of a node change the copies of an edge in
   the two lists as they should (`CopiesErased`, `ReceivedFacts`, `TurnedArcs`): turning moves
   each arc from one list to the other.
2. *Stack*. `StackAboveBound` is not inductive: that a cascade may end when its stack is empty
   needs the converse, that every node above the bound is on the stack. A node is pushed when
   it gets exactly one above the bound; `CrossingFacts` shows that this happens at one arc of a
   pass if the node was at or below the bound before and is above it at the end, and
   otherwise at none. Hence the stack holds the nodes above the bound, each once (`StackInv`).
3. *Replay*. The lists match the recorded sequence up to the updates handled (`Match`, with
   `handled` back at 0 when a rebuild begins); a replay that has been given up is exempt until it
   begins again (`GivenUp`). A copy may be missing only after a deletion beside another copy,
   which the sequence shows (`DeletedBesideIn`); `MatchDeleted` needs that the sequence
   deletes only what the graph has (`Legal`).
4. *Inductive invariant* `IInv == TypeInv /\ SequenceInv /\ Loopless /\ StackInv /\ BoundInv /\ ListsInv`.

The argument for the bucket algorithms, for all configurations (`ConfigsAssumption`), any number of
parallel edges, and any random choice:

1. *Buckets*. Every node is in the bucket of its out-degree at its recorded position
   (`Found`), and every entry of a bucket is a node with that out-degree and position (`Entered`);
   so no node is in two places, and a move may let the last entry take the free place
   (`MoveKeepsStructure`). `Highest` searches downwards from the old highest bucket; it ends
   because the node that moves is in a bucket afterwards (`HighestFacts`). The two ends of a path are
   moved one after the other: `MovedFacts` holds for each, although in between the buckets
   do not match the lists.
2. *Entries*. The lists hold at most as many entries for an edge as the graph has copies
   (`EntriesWithin`), and a path that is turned has different nodes, hence meets an edge at most once
   (`ReversedEntries`); so no list gets a copy too many, the entries for an edge stay
   as many, and only the ends of the path get a longer or shorter list (`ReversedLengths`).
3. *Where paths start and end* (`Prepared`). That a turn levels needs that the search of `BFSCS` is
   the only one of its update (its start need not be in the highest bucket after a
   flip, and `IMPROOPT`, which searches several times, draws a new start), and that a walk of
   `RWalkCS`, over several steps, still comes from a node of maximum out-degree over nodes
   that are not low.
4. *Inductive invariant* `IInv == InBuckets /\ EntriesWithin /\ Prepared`; for simple graphs
   with `EveryEdgeEntered`: the one entry of an edge can be lost only with the edge.
5. *naive_opt* (`NaiveInv`). A set of nodes with more than `k - 1` entries per node within it shows that
   the maximum cannot be lowered below `k`. Turning arcs keeps the entries and an insertion adds
   one, so what is shown before an insertion is still shown after it (`CertifiedStays`), and at most
   one node, the tail, is above it (`OneAbove`). If the search finds a path, it starts at
   this node and takes the maximum back (`NaiveSucceeds`); if not, what it has seen is a closed set of
   nodes with at least `k - 1` (`FailedSearch`), and counting their entries shows the
   new maximum (`ClosedCertifies`). After a deletion the last search fails, whatever was shown before.

Only model-checked: that `StrongOptArrays` implements `StrongOpt`; the modules of the toolchain; `RaisedForCause`, whose amortised argument (section 3) counts the
flips of all cascades together; and all liveness (TLAPS does not do liveness under fairness). No recursive definition is involved in what is
proved.

## 5. What is left

Proofs left open:

1. That `StrongOptArrays` implements `StrongOpt` on simple graphs: that the paths its queue finds are
   shortest ones.
2. The toolchain (`SequenceLegal`, `IndexAgrees`, `FinalGraph`, `ReportedOptimum`), which is built with folds,
   whose result for every input is out of the prover's reach.

### Not modelled

- The solver behind `ILP` (external: its solutions are the set the program
  describes), and `solveUsingRelaxedILP` and `convert_from_graph_access`, which
  print TODO and exit.
- The syntax of graph and sequence files, weights and partitions in them.
- The command line of the driver, timers, the generator of random numbers: no state that
  an update depends on; what is drawn is left open.
- The priority queues: included, but used by no algorithm.
- Functions without a caller: `flip_active_edge2`, and in the depth-first classes
  `dfs_forward`, `dfs_backward`, their first corrected versions, `find_optimal` and
  `find_optimal_shared_visited`.
- Vendored code.
