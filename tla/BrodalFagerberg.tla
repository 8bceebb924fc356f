-------------------------- MODULE BrodalFagerberg --------------------------
(****************************************************************************)
(* dyn_edge_orientation_BrodalFagerbergCS: keep every out-degree at or      *)
(* below a bound.  A node that gets above it turns all its out-arcs, which  *)
(* may push other nodes above it, and so on: a cascade.  The edges turned   *)
(* are counted; when there are more than a correct bound would need, the    *)
(* cascade is abandoned halfway, the bound is raised, and the whole         *)
(* recorded sequence of updates is replayed, again under that limit.        *)
(*                                                                          *)
(* handleInsertion, handleDeletion, each pass of the loop over the stack    *)
(* and each replayed update are one action.  The lists are kept in the      *)
(* order of the program, which decides what the cascade turns first.        *)
(* Parallel edges are allowed; a deletion may then take two copies, one in  *)
(* each direction.                                                          *)
(****************************************************************************)
EXTENDS Orientations

CONSTANTS GrowthNum, GrowthDen,   \* bfgrowthfactor, as a fraction; 2 by default
          MaxCopies,              \* bound: parallel edges; 1 for a simple graph
          MaxUpdates              \* bound: the length of the recorded sequence

ASSUME GrowthAssumption ==
  GrowthNum \in Nat /\ GrowthDen \in Nat \ {0} /\ GrowthNum > GrowthDen

ASSUME MaxCopiesAssumption == MaxCopies \in Nat \ {0}

VARIABLES edges,                   \* the copies of each edge, by the sequence so far
          m_adj,                   \* the out-neighbours of each node
          m_sequence,              \* the updates so far, to be replayed
          m_bound_arboricity,      \* the bound on the out-degrees
          m_reorientations_limit,  \* the edges that may be turned with this bound
          m_cur_reorientations,    \*   and those that have been
          m_rebuild,               \* the updates handled are replayed ones
          pc,                      \* "idle", "cascade", or "replay" in rebuild
          S,                       \* the stack of the cascade, its top first
          replayed                 \* the number of updates replayed so far

limits == <<m_bound_arboricity, m_reorientations_limit, m_cur_reorientations>>
control == <<m_rebuild, pc, S, replayed>>
vars == <<edges, m_adj, m_sequence, limits, control>>

Empty == [v \in Node |-> <<>>]

Init ==
  /\ edges = [e \in Edge |-> 0] /\ m_adj = Empty /\ m_sequence = <<>>
  /\ m_bound_arboricity = 1
  /\ m_reorientations_limit = 0 /\ m_cur_reorientations = 0
  /\ m_rebuild = FALSE /\ pc = "idle" /\ S = <<>> /\ replayed = 0

\* A handler returns to the driver, or to the loop of rebuild.
caller == IF m_rebuild THEN "replay" ELSE "idle"

\* The first entry of v leaves the list; the last entry takes its place.
Erased(list, v) ==
  IF \A i \in 1..Len(list) : list[i] # v THEN list
  ELSE LET first == CHOOSE i \in 1..Len(list) :
                      list[i] = v /\ \A j \in 1..i - 1 : list[j] # v
       IN  SubSeq([list EXCEPT ![first] = list[Len(list)]], 1, Len(list) - 1)

\* Variant: the limit does not grow with the insertions.
insertArcUnpaid(source, target) ==
  LET added == Append(m_adj[source], target)
  IN  /\ m_adj' = [m_adj EXCEPT ![source] = added]
      /\ UNCHANGED m_reorientations_limit
      /\ IF Len(added) = m_bound_arboricity + 1
           THEN pc' = "cascade" /\ S' = <<source>>
           ELSE pc' = caller /\ UNCHANGED S
      /\ UNCHANGED <<m_bound_arboricity, m_cur_reorientations, m_rebuild>>

\* handleInsertion but for the recording, up to the loop of brodalfagerberg.
insertArc(source, target) ==
  LET added == Append(m_adj[source], target)
  IN  /\ m_adj' = [m_adj EXCEPT ![source] = added]
      /\ m_reorientations_limit' = m_reorientations_limit + m_bound_arboricity + 1
      /\ IF Len(added) = m_bound_arboricity + 1
           THEN pc' = "cascade" /\ S' = <<source>>
           ELSE pc' = caller /\ UNCHANGED S
      /\ UNCHANGED <<m_bound_arboricity, m_cur_reorientations, m_rebuild>>

\* handleDeletion but for the recording.
deleteArc(source, target) ==
  /\ m_adj' = [m_adj EXCEPT ![source] = Erased(@, target), ![target] = Erased(@, source)]
  /\ pc' = caller
  /\ UNCHANGED <<limits, m_rebuild, S>>

record(insertion, source, target) ==
  m_sequence' = Append(m_sequence, <<insertion, source, target>>)

handleInsertion(source, target) ==
  /\ pc = "idle" /\ Len(m_sequence) < MaxUpdates
  /\ source # target /\ edges[{source, target}] < MaxCopies
  /\ edges' = [edges EXCEPT ![{source, target}] = @ + 1]
  /\ record(TRUE, source, target)
  /\ insertArc(source, target)
  /\ UNCHANGED replayed

handleDeletion(source, target) ==
  /\ pc = "idle" /\ Len(m_sequence) < MaxUpdates
  /\ source # target /\ edges[{source, target}] > 0
  /\ edges' = [edges EXCEPT ![{source, target}] = @ - 1]
  /\ record(FALSE, source, target)
  /\ deleteArc(source, target)
  /\ UNCHANGED replayed

(****************************************************************************)
(* rebuild: clear the lists, raise the bound, replay.                       *)
(****************************************************************************)

\* Variant: the new bound is rounded down.
beginRebuildRoundingDown ==
  /\ m_adj' = Empty
  /\ m_bound_arboricity' = (GrowthNum * m_bound_arboricity) \div GrowthDen
  /\ m_cur_reorientations' = 0
  /\ m_reorientations_limit' = m_bound_arboricity' + 1
  /\ m_rebuild' = TRUE /\ pc' = "replay" /\ S' = <<>> /\ replayed' = 0

\* The new bound is rounded up.
beginRebuild ==
  /\ m_adj' = Empty
  /\ m_bound_arboricity' = -((-GrowthNum * m_bound_arboricity) \div GrowthDen)
  /\ m_cur_reorientations' = 0
  /\ m_reorientations_limit' = m_bound_arboricity' + 1
  /\ m_rebuild' = TRUE /\ pc' = "replay" /\ S' = <<>> /\ replayed' = 0

exhausted == m_cur_reorientations >= m_reorientations_limit

replay ==
  /\ pc = "replay" /\ ~exhausted /\ replayed < Len(m_sequence)
  /\ replayed' = replayed + 1
  /\ LET update == m_sequence[replayed + 1]
     IN  IF update[1] THEN insertArc(update[2], update[3])
                      ELSE deleteArc(update[2], update[3])
  /\ UNCHANGED <<edges, m_sequence>>

\* The limit is reached again: the call is repeated with a larger bound.
rebuildAgain ==
  /\ pc = "replay" /\ exhausted
  /\ beginRebuild
  /\ UNCHANGED <<edges, m_sequence>>

rebuilt ==
  /\ pc = "replay" /\ ~exhausted /\ replayed = Len(m_sequence)
  /\ m_rebuild' = FALSE /\ pc' = "idle"
  /\ UNCHANGED <<edges, m_adj, m_sequence, limits, S, replayed>>

(****************************************************************************)
(* brodalfagerberg: one pass of the loop over the stack, for its top w.     *)
(****************************************************************************)

Copies(list, v) == Cardinality({i \in 1..Len(list) : list[i] = v})

\* Variant: several arcs to the same node are added once.
ReceivedOnce(w, count) ==
  [x \in Node |-> IF \E i \in 1..count : m_adj[w][i] = x THEN Append(m_adj[x], w)
                                                         ELSE m_adj[x]]

\* The lists after the first count arcs of w have been added in the other
\* direction, and the nodes these arcs have brought one above the bound.
Received(w, count) ==
  [x \in Node |-> m_adj[x] \o [i \in 1..Copies(SubSeq(m_adj[w], 1, count), x) |-> w]]

\* Variant: the lengths are compared when all arcs have been added.
ExceedingAtEnd(w, count) ==
  SelectSeq(SubSeq(m_adj[w], 1, count),
            LAMBDA x : Len(Received(w, count)[x]) = m_bound_arboricity + 1)

Exceeding(w, count) ==
  LET at == InOrder({i \in 1..count :
                       Len(Received(w, i)[m_adj[w][i]]) = m_bound_arboricity + 1})
  IN  [k \in DOMAIN at |-> m_adj[w][at[k]]]

OnTop(list, stack) == [i \in 1..Len(list) |-> list[Len(list) + 1 - i]] \o stack

top == Head(S)
topDegree == Len(m_adj[top])
fits == m_cur_reorientations + topDegree <= m_reorientations_limit

\* All arcs of w are turned within the limit.
turnAll ==
  /\ m_adj' = [Received(top, topDegree) EXCEPT ![top] = <<>>]
  /\ S' = OnTop(Exceeding(top, topDegree), Tail(S))
  /\ m_cur_reorientations' = m_cur_reorientations + topDegree

turnNode ==
  /\ pc = "cascade" /\ S # <<>>
  /\ IF topDegree > m_bound_arboricity
       THEN fits /\ turnAll
       ELSE S' = Tail(S) /\ UNCHANGED <<m_adj, m_cur_reorientations>>
  /\ UNCHANGED <<edges, m_sequence, m_bound_arboricity, m_reorientations_limit,
                 m_rebuild, pc, replayed>>

\* A replayed update gives up at the arc of w that reaches the limit: it and those
\* before have been added in the other direction, none is taken out.
giveUp ==
  /\ m_adj' = Received(top, m_reorientations_limit - m_cur_reorientations + 1)
  /\ m_cur_reorientations' = m_reorientations_limit
  /\ pc' = "replay" /\ S' = <<>>
  /\ UNCHANGED <<m_bound_arboricity, m_reorientations_limit, m_rebuild, replayed>>

abandon ==
  /\ pc = "cascade" /\ S # <<>> /\ topDegree > m_bound_arboricity /\ ~fits
  /\ IF m_rebuild THEN giveUp ELSE beginRebuild
  /\ UNCHANGED <<edges, m_sequence>>

cascadeEnds ==
  /\ pc = "cascade" /\ S = <<>>
  /\ pc' = caller
  /\ UNCHANGED <<edges, m_adj, m_sequence, limits, m_rebuild, S, replayed>>

handlerStep == \/ turnNode \/ abandon \/ cascadeEnds
               \/ replay \/ rebuildAgain \/ rebuilt

Next == \/ \E source, target \in Node : \/ handleInsertion(source, target)
                                        \/ handleDeletion(source, target)
        \/ handlerStep

\* The only thread of the program runs a handler, with the rebuild, to its end.
Fairness == WF_vars(handlerStep)

Spec == Init /\ [][Next]_vars /\ Fairness

-----------------------------------------------------------------------------
(****************************************************************************)
(* Properties.                                                              *)
(****************************************************************************)

\* The copies of an edge after the first k recorded updates.
CopiesAfter(e, k) ==
  LET updates(insertion) ==
        {j \in 1..k : m_sequence[j][1] = insertion /\ {m_sequence[j][2], m_sequence[j][3]} = e}
  IN  Cardinality(updates(TRUE)) - Cardinality(updates(FALSE))

\* A copy of the edge has been deleted while there was another.
DeletedBeside(e) ==
  \E k \in 1..Len(m_sequence) : 0 < CopiesAfter(e, k) /\ CopiesAfter(e, k) < CopiesAfter(e, k - 1)

\* Whenever a handler has returned, also after a cascade that was abandoned with
\* arcs in both directions and after any number of replays, the lists hold every
\* copy of an edge in one direction, and no list is longer than the bound.  When a
\* copy is deleted next to another, the other may go with it, but what is no
\* longer in the graph is never left in the lists.
BoundedOrientation ==
  pc = "idle" =>
    /\ \A u, v \in Node : u # v =>
         LET arcs == Copies(m_adj[u], v) + Copies(m_adj[v], u)
         IN  /\ arcs <= edges[{u, v}]
             /\ arcs < edges[{u, v}] => DeletedBeside({u, v})
    /\ \A v \in Node : Copies(m_adj[v], v) = 0 /\ Len(m_adj[v]) <= m_bound_arboricity

\* Every node on the stack of a cascade is above the bound until its turn comes,
\* so the test on the node just popped never fails, and it is there only once; and
\* no more edges have been turned than the limit allows.
StackAboveBound ==
  pc = "cascade" =>
    /\ m_cur_reorientations <= m_reorientations_limit
    /\ \A i \in 1..Len(S) : Len(m_adj[S[i]]) > m_bound_arboricity
    /\ \A i, j \in 1..Len(S) : S[i] = S[j] => i = j

\* The graph of all edges ever inserted, each as often as there have been copies
\* of it at a time.
EverInserted ==
  {ec \in Edge \X (1..MaxCopies) :
     \E k \in 1..Len(m_sequence) : CopiesAfter(ec[1], k) >= ec[2]}

\* The bound is only raised when it is less than twice the optimum of that graph:
\* with a larger one a cascade ends within the limit.  (With an optimum of k or more,
\* some set of nodes spans more than k - 1 edges for each of its nodes.)
RaisedForCause ==
  [][m_bound_arboricity' # m_bound_arboricity =>
       LET optimum == (m_bound_arboricity + 2) \div 2
       IN  \E group \in SUBSET Node :
             Cardinality({ec \in EverInserted : ec[1] \subseteq group})
               > (optimum - 1) * Cardinality(group)]_vars

\* Every update returns, however many cascades and replays it takes.
HandlerReturns == pc # "idle" ~> pc = "idle"
=============================================================================
