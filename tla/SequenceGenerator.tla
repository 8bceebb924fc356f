-------------------------- MODULE SequenceGenerator --------------------------
(****************************************************************************)
(* metis_to_sequence: turns a static graph into the file of insertions and  *)
(* deletions that the driver reads.  Either every edge is inserted, some    *)
(* are deleted at random and inserted again, or a window of fixed size      *)
(* slides over the edges.                                                   *)
(****************************************************************************)
EXTENDS Orientations, SequencesExt

CONSTANTS MaxEdges,     \* bound: the edges of the static graph
          MaxShuffled,  \* bound: the entries of a sequence that is shuffled
          MaxDeletions, \* bound: the value of delete_x
          MaxParts      \* bound: the value of sliding_window

ASSUME NumberedAssumption == Node = 0..Cardinality(Node) - 1

ASSUME BoundsAssumption == {MaxEdges, MaxShuffled, MaxDeletions, MaxParts} \subseteq Nat

VARIABLES graph,           \* the edges in the static graph's file
          options,         \* the command line
          pc,              \* where the program is
          sequence,        \* the edges, in the order of their first insertion
          file,            \* the entries written
          deleted_edges,   \* the positions deleted, in order
          to_delete        \* the positions in the window, a queue

generatorVars == <<graph, options, pc, sequence, file, deleted_edges, to_delete>>

Static == INSTANCE GraphAccess

\* delete_x and sliding_window are 0 when they are not given; with a window delete_x
\* is not read.
Options ==
  {o \in [filter : BOOLEAN, shuffle : BOOLEAN,
           delete_x : 0..MaxDeletions, sliding_window : 0..MaxParts] :
     o.sliding_window = 0 \/ o.delete_x = 0}

Init ==
  /\ graph \in {S \in SUBSET Edge : Cardinality(S) <= MaxEdges}
  /\ options \in Options
  /\ pc = "collect"
  /\ sequence = <<>> /\ file = <<>> /\ deleted_edges = <<>> /\ to_delete = <<>>

\* readGraphWeighted: a line per node holds its neighbours.
readGraphWeighted ==
  Static!Built([v \in Node |-> SetToSortSeq({w \in Node : {v, w} \in graph}, <)],
               Cardinality(Node), 2 * Cardinality(graph))

number_of_edges == Static!number_of_edges(readGraphWeighted)

\* Both directions of every edge, or with filter the one that leads upwards.
Pairs ==
  LET G == readGraphWeighted
      row(v) == Static!Row(G, v)
      pairs == FlattenSeq([k \in 1..Cardinality(Node) |->
                 [j \in DOMAIN row(k - 1) |-> <<k - 1, row(k - 1)[j]>>]])
  IN  IF options.filter THEN SelectSeq(pairs, LAMBDA p : p[1] < p[2]) ELSE pairs

permutate_vector_anytype(s) ==
  {[k \in DOMAIN s |-> s[p[k]]] : p \in {q \in [DOMAIN s -> DOMAIN s] : IsInjective(q)}}

collect ==
  /\ pc = "collect"
  /\ options.shuffle => Len(Pairs) <= MaxShuffled
  /\ sequence' \in IF options.shuffle THEN permutate_vector_anytype(Pairs) ELSE {Pairs}
  /\ pc' = IF options.sliding_window = 0 THEN "insert" ELSE "fill"
  /\ UNCHANGED <<graph, options, file, deleted_edges, to_delete>>

insertion(position) == <<1, sequence[position]>>
deletion(position) == <<0, sequence[position]>>

insertAll ==
  /\ pc = "insert"
  /\ file' = [k \in DOMAIN sequence |-> insertion(k)]
  /\ pc' = "delete"
  /\ UNCHANGED <<graph, options, sequence, deleted_edges, to_delete>>

toDelete ==
  LET half == number_of_edges \div 2
  IN  IF options.delete_x < half THEN options.delete_x ELSE half

\* Variant: a position may be drawn again.
undeletedIgnored(position) == position <= number_of_edges

undeleted(position) == position \notin ToSet(deleted_edges)

\* Positions are drawn from 0 to number_of_edges inclusive (from 1 here).  The last
\* is behind the array of marks, and with filter the upper half is behind the
\* sequence: what is then read is undefined.
delete ==
  /\ pc = "delete"
  /\ Len(deleted_edges) < toDelete
  /\ \E position \in 1..number_of_edges + 1 :
       IF position <= Len(sequence)
         THEN /\ undeleted(position)
              /\ file' = Append(file, deletion(position))
              /\ deleted_edges' = Append(deleted_edges, position)
              /\ UNCHANGED pc
         ELSE pc' = "undefined" /\ UNCHANGED <<file, deleted_edges>>
  /\ UNCHANGED <<graph, options, sequence, to_delete>>

\* reinsert_deleted is tested as a pointer, which is never null: what was deleted is
\* inserted again whether the option is given or not.
reinsert ==
  /\ pc = "delete"
  /\ Len(deleted_edges) = toDelete
  /\ file' = file \o [k \in DOMAIN deleted_edges |-> insertion(deleted_edges[k])]
  /\ pc' = "written"
  /\ UNCHANGED <<graph, options, sequence, deleted_edges, to_delete>>

sliding_window_size == number_of_edges \div options.sliding_window

\* With filter the window may be longer than the sequence.
fill ==
  /\ pc = "fill"
  /\ IF sliding_window_size <= Len(sequence)
       THEN /\ file' = [k \in 1..sliding_window_size |-> insertion(k)]
            /\ to_delete' = [k \in 1..sliding_window_size |-> k]
            /\ pc' = "slide"
       ELSE pc' = "undefined" /\ UNCHANGED <<file, to_delete>>
  /\ UNCHANGED <<graph, options, sequence, deleted_edges>>

slideBy(next) ==
  /\ file' = file \o <<deletion(Head(to_delete)), insertion(next)>>
  /\ to_delete' = Append(Tail(to_delete), next)

\* A window of size 0 has no front to delete.
slide ==
  /\ pc = "slide"
  /\ LET inserted == {k \in DOMAIN file : file[k][1] = 1}
         next == Cardinality(inserted) + 1
     IN  IF next > Len(sequence)
           THEN pc' = "written" /\ UNCHANGED <<file, to_delete>>
           ELSE IF to_delete = <<>>
             THEN pc' = "undefined" /\ UNCHANGED <<file, to_delete>>
             ELSE slideBy(next) /\ UNCHANGED pc
  /\ UNCHANGED <<graph, options, sequence, deleted_edges>>

generatorStep == collect \/ insertAll \/ delete \/ reinsert \/ fill \/ slide

-----------------------------------------------------------------------------
(****************************************************************************)
(* Properties.                                                              *)
(****************************************************************************)

\* How many copies of an edge the first k entries of the file leave.
CopiesAfter(k, e) ==
  LET entries(kind) == {j \in 1..k : file[j][1] = kind /\ {file[j][2][1], file[j][2][2]} = e}
  IN  Cardinality(entries(1)) - Cardinality(entries(0))

\* Whatever is shuffled and drawn, no entry deletes an edge that is not in the graph
\* at that point; with filter no entry inserts one that is; and once the window is
\* full there are never more edges than fit into it.
SequenceLegal ==
  LET entries(k, kind) == {j \in 1..k : file[j][1] = kind}
  IN  pc \in {"written", "undefined"} =>
        \A k \in DOMAIN file :
          LET e == {file[k][2][1], file[k][2][2]}
          IN  /\ e \in Edge
              /\ file[k][1] = 0 => CopiesAfter(k - 1, e) > 0
              /\ file[k][1] = 1 /\ options.filter => CopiesAfter(k - 1, e) = 0
              /\ options.sliding_window > 0 =>
                   Cardinality(entries(k, 1)) - Cardinality(entries(k, 0)) <= sliding_window_size

\* The graph a written file leads to: without a window the input graph again, with
\* one the last edges of the sequence.
FileGraph ==
  IF options.sliding_window = 0
    THEN graph
    ELSE {{sequence[k][1], sequence[k][2]} :
            k \in Len(sequence) - sliding_window_size + 1..Len(sequence)}
=============================================================================
