--------------------------- MODULE AdjacencyLists ---------------------------
(****************************************************************************)
(* The adjacency lists of the exact algorithms, entry by entry.             *)
(*                                                                          *)
(* lists[u] holds one entry per edge at u, first the active ones (the arcs  *)
(* that leave u), then the passive ones; degree[u] says how many are        *)
(* active.  An entry names the neighbour and the position of the mirror     *)
(* entry in the neighbour's list, so that an edge is turned, and deleted,   *)
(* without searching the neighbour's list.  Positions start at 1 here, at 0 *)
(* in the code.  Every operator stands for the run of assignments that the  *)
(* code makes; parallel edges are allowed.                                  *)
(****************************************************************************)
EXTENDS Orientations

Entry == [first : Node, second : Nat \ {0}]

NoLists == [v \in Node |-> <<>>]

(****************************************************************************)
(* Elementary changes.                                                      *)
(****************************************************************************)

Swapped(list, i, j) == [list EXCEPT ![i] = list[j], ![j] = list[i]]

\* UPDATE_SECOND(v, offset, update)
UPDATE_SECOND(lists, v, offset, update) == [lists EXCEPT ![v][offset].second = update]

\* Tell the mirror of the entry at position i of u where that entry is.
Relinked(lists, u, i) ==
  UPDATE_SECOND(lists, lists[u][i].first, lists[u][i].second, i)

\* Swap two entries of u and relink the one that has come to position i.
SwapRelinked(lists, u, i, j) ==
  Relinked([lists EXCEPT ![u] = Swapped(@, i, j)], u, i)

(****************************************************************************)
(* Insertion of the arc source -> target: a passive entry at the end of     *)
(* target's list, an active one at the end of source's active entries.      *)
(****************************************************************************)
ArcInserted(lists, degree, source, target) ==
  LET toTarget == [lists EXCEPT ![target] =
                     Append(@, [first |-> source, second |-> degree[source] + 1])]
      both == [toTarget EXCEPT ![source] =
                 Append(@, [first |-> target, second |-> Len(toTarget[target])])]
      last == Len(both[source])
  IN  IF degree[source] + 1 = last
        THEN both
        ELSE SwapRelinked(both, source, last, degree[source] + 1)

(****************************************************************************)
(* Deletion of the entry at position i of u.  An active entry first trades  *)
(* places with the last active one, then the entry does so with the last of *)
(* the list.  (For source the code makes the first trade also when it moves *)
(* nothing; it then writes what is there.)                                  *)
(****************************************************************************)
\* Variant: the last entry is dropped without having traded places.
LastDroppedUnmoved(lists, u, i) == [lists EXCEPT ![u] = SubSeq(@, 1, Len(@) - 1)]

LastDropped(lists, u, i) ==
  LET last == Len(lists[u])
      moved == IF i = last THEN lists ELSE SwapRelinked(lists, u, i, last)
  IN  [moved EXCEPT ![u] = SubSeq(@, 1, last - 1)]

EntryRemoved(lists, degree, u, i) ==
  IF i >= degree[u]
    THEN LastDropped(lists, u, i)
    ELSE LastDropped(SwapRelinked(lists, u, i, degree[u]), u, degree[u])

DegreeAfter(degree, u, i) ==
  IF i > degree[u] THEN degree ELSE [degree EXCEPT ![u] = @ - 1]

\* The position of the first entry for target in source's list.
FirstEntry(lists, source, target) ==
  CHOOSE i \in DOMAIN lists[source] :
    /\ lists[source][i].first = target
    /\ \A j \in 1..i - 1 : lists[source][j].first # target

(****************************************************************************)
(* flip_active_edge(u, e): the entry e of u trades places with the last     *)
(* active entry of u, its mirror with the first passive entry of v, and the *)
(* two end up on the other side of the border that degree draws.            *)
(****************************************************************************)
\* Variant: the entry that takes the place of the flipped one is not relinked.
ActiveFlippedUnlinked(lists, degree, u, e) ==
  LET v == lists[u][e].first
      mirror == lists[u][e].second
      lastActive == degree[u]
      firstPassive == degree[v] + 1
      moved == [lists EXCEPT ![u][e] = lists[u][lastActive],
                             ![v][mirror] = lists[v][firstPassive]]
      vDone == IF mirror = firstPassive THEN moved ELSE Relinked(moved, v, mirror)
  IN  [vDone EXCEPT ![v][firstPassive] = [first |-> u, second |-> lastActive],
                    ![u][lastActive] = [first |-> v, second |-> firstPassive]]

ActiveFlipped(lists, degree, u, e) ==
  LET v == lists[u][e].first
      mirror == lists[u][e].second
      lastActive == degree[u]
      firstPassive == degree[v] + 1
      inU == [lists EXCEPT ![u][e] = lists[u][lastActive]]
      uDone == IF e = lastActive THEN inU ELSE Relinked(inU, u, e)
      inV == [uDone EXCEPT ![v][mirror] = uDone[v][firstPassive]]
      vDone == IF mirror = firstPassive THEN inV ELSE Relinked(inV, v, mirror)
  IN  [vDone EXCEPT ![v][firstPassive] = [first |-> u, second |-> lastActive],
                    ![u][lastActive] = [first |-> v, second |-> firstPassive]]

DegreeFlipped(degree, u, v) == [degree EXCEPT ![u] = @ - 1, ![v] = @ + 1]

(****************************************************************************)
(* What the lists stand for.                                                *)
(****************************************************************************)

\* Each entry and its mirror name each other.
MirrorsAgree(lists) ==
  \A u \in Node : \A i \in DOMAIN lists[u] :
    LET entry == lists[u][i]
    IN  /\ entry.second \in DOMAIN lists[entry.first]
        /\ lists[entry.first][entry.second] = [first |-> u, second |-> i]

\* Exactly one of the two is active: every edge has one direction.
OneSideActive(lists, degree) ==
  \A u \in Node : \A i \in DOMAIN lists[u] :
    i <= degree[u] <=> lists[u][i].second > degree[lists[u][i].first]

\* How many entries u has for v.
Multiplicity(lists, u, v) == Cardinality({i \in DOMAIN lists[u] : lists[u][i].first = v})

OutNeighbours(lists, degree) ==
  [u \in Node |-> {lists[u][i].first : i \in 1..degree[u]}]
=============================================================================
