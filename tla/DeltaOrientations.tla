-------------------------- MODULE DeltaOrientations --------------------------
(****************************************************************************)
(* From a static graph to the orientation that is written: the generator    *)
(* writes a sequence, the driver delta-orientations reads it, calls a       *)
(* handler per entry, lets the algorithm copy its orientation into          *)
(* dyn_graph_access, and converts that to a static graph.                   *)
(*                                                                          *)
(* Naive and ILP are composed as they are, strong_opt by module StrongOpt;  *)
(* every other algorithm is known here by the interface: it ends with an    *)
(* orientation of the current graph.  Only Naive is given sequences with    *)
(* parallel edges.                                                          *)
(****************************************************************************)
EXTENDS SequenceGenerator

VARIABLES algorithm,          \* the class getdyn_edge_orientation_instance makes
          position,           \* how many entries of the file have been handled
          lists,              \* the lists of Naive
          active,             \* the active entries of strong_opt
          GOrientation,       \* the graph the algorithm and the driver share
          final_orientation   \* the static graph

vars == <<generatorVars, algorithm, position, lists, active, GOrientation,
          final_orientation>>

Algorithms == {"NAIVE", "ILP", "STRONG_OPT", "OTHER"}

Dyn == INSTANCE DynGraphAccess

NaiveLists == INSTANCE Naive WITH m_adj <- lists

Program == INSTANCE ILP

\* The graph after the entries handled, parallel edges dropped.
present == {e \in Edge : CopiesAfter(position, e) > 0}

Exact == INSTANCE StrongOpt WITH edges <- present, m_adj <- active

NotYet == [m_nodes |-> <<>>, m_edges |-> <<>>]

ToolInit ==
  /\ Init
  /\ algorithm = "none" /\ position = 0
  /\ lists = [v \in Node |-> <<>>] /\ active = NoArcs
  /\ GOrientation = Dyn!EmptyGraph
  /\ final_orientation = NotYet

driverOnly == UNCHANGED <<graph, options, sequence, file, deleted_edges, to_delete>>

\* The file is read and the algorithm made.
start ==
  /\ pc = "written"
  /\ algorithm' \in (IF options.filter THEN Algorithms ELSE {"NAIVE"})
  /\ pc' = "update"
  /\ driverOnly
  /\ UNCHANGED <<position, lists, active, GOrientation, final_orientation>>

updateNaive(inserted, source, target) ==
  /\ algorithm = "NAIVE"
  /\ IF inserted THEN NaiveLists!handleInsertion(source, target)
                 ELSE NaiveLists!handleDeletion(source, target)
  /\ UNCHANGED <<active, GOrientation>>

updateILP(inserted, source, target) ==
  /\ algorithm = "ILP"
  /\ IF inserted THEN Program!handleInsertion(source, target)
                 ELSE Program!handleDeletion(source, target)
  /\ UNCHANGED <<lists, active>>

updateStrongOpt(inserted, source, target) ==
  /\ algorithm = "STRONG_OPT"
  /\ IF inserted THEN Exact!handleInsertion(source, target)
                 ELSE Exact!handleDeletion(source, target)
  /\ UNCHANGED <<lists, GOrientation>>

updateOther ==
  /\ algorithm = "OTHER"
  /\ UNCHANGED <<lists, active, GOrientation>>

\* run_dynamic_algorithm.
run_dynamic_algorithm ==
  /\ pc = "update"
  /\ position < Len(file)
  /\ position' = position + 1
  /\ driverOnly
  /\ LET entry == file[position + 1]
         inserted == entry[1] = 1
         source == entry[2][1]
         target == entry[2][2]
     IN  \/ updateNaive(inserted, source, target)
         \/ updateILP(inserted, source, target)
         \/ updateStrongOpt(inserted, source, target)
         \/ updateOther
  /\ UNCHANGED <<pc, algorithm, final_orientation>>

\* end() of strong_opt and of the others: new_edge for every arc.  Lists are sets at
\* this level; their order is taken to be ascending.
copied(adj) ==
  LET addList(G, v) == FoldLeft(LAMBDA H, w : Dyn!new_edge(H, v, w), G,
                                SetToSortSeq(adj[v], <))
  IN  FoldLeft(LAMBDA G, k : addList(G, k - 1), GOrientation,
               [k \in 1..Cardinality(Node) |-> k])

end ==
  /\ pc = "update"
  /\ position = Len(file)
  /\ \/ algorithm = "NAIVE" /\ GOrientation' = NaiveLists!end(GOrientation)
     \/ algorithm = "ILP" /\ Program!solveILP
     \/ algorithm = "STRONG_OPT" /\ GOrientation' = copied(active)
     \/ /\ algorithm = "OTHER"
        /\ \E tail \in TailChoices(present) :
             GOrientation' = copied([v \in Node |->
               {w \in Node : {v, w} \in present /\ tail[{v, w}] = v}])
  /\ pc' = "convert"
  /\ driverOnly
  /\ UNCHANGED <<algorithm, position, lists, active, final_orientation>>

convert ==
  /\ pc = "convert"
  /\ final_orientation' = Dyn!convert_to_graph_access(GOrientation)
  /\ pc' = "ended"
  /\ driverOnly
  /\ UNCHANGED <<algorithm, position, lists, active, GOrientation>>

driverStep == start \/ run_dynamic_algorithm \/ end \/ convert

Next ==
  \/ /\ generatorStep
     /\ UNCHANGED <<algorithm, position, lists, active, GOrientation, final_orientation>>
  \/ driverStep

Spec == ToolInit /\ [][Next]_vars

-----------------------------------------------------------------------------
(****************************************************************************)
(* Properties; SequenceLegal is stated in SequenceGenerator.                *)
(****************************************************************************)

\* After whatever was added to and removed from dyn_graph_access, both maps hold
\* exactly the arcs of the lists, at their positions, and the count is right.
IndexAgrees ==
  LET G == GOrientation
      list(v) == G.m_edges[v]
  IN  /\ \A v, w \in Node :
           /\ Dyn!isEdge(G, v, w) = (v \in DOMAIN G.m_rev_edges_maps[w])
           /\ Dyn!isEdge(G, v, w) = (w \in ToSet(list(v)))
      /\ \A v \in Node, j \in 1..2 * Cardinality(Node) : j \in DOMAIN list(v) =>
           /\ G.m_edges_maps[v][list(v)[j]] = j
           /\ G.m_rev_edges_maps[list(v)[j]][v] = j
      /\ G.edge_count = FoldLeft(LAMBDA sum, k : sum + Len(list(k - 1)), 0,
                                 [k \in 1..Cardinality(Node) |-> k])

\* From file to file: what is converted fits into the array allocated for it and has
\* every arc in the rows of both its ends; with filter the arcs orient exactly the graph that the
\* sequence was meant to lead to, and without it Naive is left with no arc of an edge
\* that is gone.
FinalGraph ==
  pc = "ended" =>
    LET adj == Dyn!Arcs(GOrientation)
        row(v) == Static!Row(final_orientation, v)
        copies(v, w) == Cardinality({j \in DOMAIN row(v) : row(v)[j] = w})
        edgesLeft == present
        arc(v, w) == IF w \in adj[v] THEN 1 ELSE 0
    IN  /\ Len(final_orientation.m_edges) <= final_orientation.room
        /\ \A v, w \in Node : copies(v, w) = arc(v, w) + arc(w, v)
        /\ options.filter => IsOrientation(adj, FileGraph)
        /\ \A v, w \in Node : w \in adj[v] => {v, w} \in edgesLeft

\* The maximum out-degree that the driver prints is the optimum of the final graph
\* for strong_opt and for the integer program: some set of nodes spans too many edges
\* for a smaller one.
ReportedOptimum ==
  pc = "ended" /\ algorithm \in {"STRONG_OPT", "ILP"} =>
    LET edgesLeft == present
    IN  NeedsOutDegree(edgesLeft, Dyn!maxDegree(GOrientation))

\* The assertion of the driver after the conversion.
EdgeNumbersEqual ==
  pc = "ended" =>
    Dyn!number_of_edges(GOrientation) = Static!number_of_edges(final_orientation)
=============================================================================
