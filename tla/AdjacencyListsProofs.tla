------------------------ MODULE AdjacencyListsProofs ------------------------
(****************************************************************************)
(* Theorems about modules AdjacencyLists and PathFlips, for every finite    *)
(* set of nodes and any number of parallel edges.                           *)
(*                                                                          *)
(* Inside an operation some entries are loose: their links are not to be    *)
(* relied upon, as the entry has just been written, is about to be dropped, *)
(* or is being moved.  Every operation is a sequence of steps that each     *)
(* keep all other entries linked.                                           *)
(****************************************************************************)
EXTENDS PathFlips, OrientationsProofs

\* The form of lists and degrees: no list is shorter than its active part.
ListsOK(entries, degree) ==
  /\ entries \in [Node -> Seq(Entry)]
  /\ degree \in [Node -> Nat]
  /\ \A u \in Node : degree[u] <= Len(entries[u])

\* The entry has a mirror that is not loose, in the list of another node and on the
\* other side of the border.
LinkedAt(entries, degree, loose, u, i) ==
  LET v == entries[u][i].first
      k == entries[u][i].second
  IN  /\ v \in Node /\ v # u
      /\ k \in 1..Len(entries[v]) /\ <<v, k>> \notin loose
      /\ entries[v][k].first = u /\ entries[v][k].second = i
      /\ i <= degree[u] <=> k > degree[v]

LinkedBut(entries, degree, loose) ==
  \A u \in Node : \A i \in 1..Len(entries[u]) :
    <<u, i>> \notin loose => LinkedAt(entries, degree, loose, u, i)

\* The entries of u for v that are not loose.
EntriesFor(entries, loose, u, v) ==
  {i \in 1..Len(entries[u]) : <<u, i>> \notin loose /\ entries[u][i].first = v}

\* The two differ at most at these places.
SameBut(new, entries, places) ==
  /\ new \in [Node -> Seq(Entry)]
  /\ \A w \in Node : Len(new[w]) = Len(entries[w])
  /\ \A w \in Node : \A p \in 1..Len(entries[w]) :
       <<w, p>> \notin places => new[w][p] = entries[w][p]

\* The fields of an entry, and what its link says.
LEMMA EntryFields ==
  ASSUME NEW entries \in [Node -> Seq(Entry)], NEW u \in Node, NEW i \in 1..Len(entries[u])
  PROVE  /\ entries[u][i] \in Entry
         /\ entries[u][i].first \in Node /\ entries[u][i].second \in Nat \ {0}
<1>1. entries[u] \in Seq(Entry)
  OBVIOUS
<1>2. entries[u][i] \in Entry
  BY <1>1
<1>3. QED
  BY <1>2 DEF Entry

\* An entry takes the place of a loose one on the same side of the border and is
\* relinked; the place it leaves is loose.
LEMMA Relocated ==
  ASSUME NEW entries, NEW degree, NEW loose, ListsOK(entries, degree),
         LinkedBut(entries, degree, loose),
         NEW u \in Node, NEW i \in 1..Len(entries[u]), NEW j \in 1..Len(entries[u]),
         <<u, i>> \in loose, <<u, j>> \notin loose,
         i <= degree[u] <=> j <= degree[u],
         NEW v, v = entries[u][j].first, NEW k, k = entries[u][j].second,
         NEW new, SameBut(new, entries, loose \cup {<<u, j>>, <<v, k>>}),
         new[u][i] = entries[u][j],
         new[v][k].first = u, new[v][k].second = i
  PROVE  LinkedBut(new, degree, (loose \ {<<u, i>>}) \cup {<<u, j>>})
<1> DEFINE after == (loose \ {<<u, i>>}) \cup {<<u, j>>}
<1>1. /\ v \in Node /\ v # u /\ k \in 1..Len(entries[v]) /\ <<v, k>> \notin loose
      /\ entries[v][k].first = u /\ entries[v][k].second = j
      /\ j <= degree[u] <=> k > degree[v]
  <2>1. LinkedAt(entries, degree, loose, u, j)
    BY DEF LinkedBut
  <2>2. QED
    BY <2>1 DEF LinkedAt
<1> SUFFICES ASSUME NEW w \in Node, NEW p \in 1..Len(new[w]), <<w, p>> \notin after
             PROVE  LinkedAt(new, degree, after, w, p)
  BY DEF LinkedBut
<1>0. /\ p \in 1..Len(entries[w])
      /\ Len(new[v]) = Len(entries[v]) /\ Len(new[u]) = Len(entries[u])
      /\ degree[u] \in Nat /\ degree[v] \in Nat
  BY <1>1 DEF SameBut, ListsOK
<1>2. CASE w = u /\ p = i
  <2>1. new[w][p].first = v /\ new[w][p].second = k
    BY <1>2
  <2>2. <<v, k>> \notin after
    BY <1>1
  <2>3. QED
    BY <2>1, <2>2, <1>0, <1>1, <1>2 DEF LinkedAt
<1>3. CASE w = v /\ p = k
  <2>1. new[w][p].first = u /\ new[w][p].second = i
    BY <1>3
  <2>2. <<u, i>> \notin after
    BY <1>1
  <2>3. new[u][i].first = v /\ new[u][i].second = k
    OBVIOUS
  <2>4. QED
    BY <2>1, <2>2, <2>3, <1>0, <1>1, <1>3 DEF LinkedAt
<1>4. CASE ~(w = u /\ p = i) /\ ~(w = v /\ p = k)
  <2> DEFINE x == entries[w][p].first
             y == entries[w][p].second
  <2>1. <<w, p>> \notin loose /\ ~(w = u /\ p = j) /\ new[w][p] = entries[w][p]
    BY <1>4, <1>0 DEF SameBut
  <2>2. LinkedAt(entries, degree, loose, w, p)
    BY <2>1, <1>0 DEF LinkedBut
  <2>3. ~(x = u /\ y = j) /\ ~(x = u /\ y = i) /\ ~(x = v /\ y = k)
    BY <2>1, <2>2, <1>1, <1>4 DEF LinkedAt
  <2>4. new[x][y] = entries[x][y] /\ <<x, y>> \notin after /\ Len(new[x]) = Len(entries[x])
    BY <2>2, <2>3 DEF SameBut, LinkedAt
  <2>5. QED
    BY <2>1, <2>2, <2>4 DEF LinkedAt
<1>5. QED
  BY <1>2, <1>3, <1>4

\* An entry and its mirror are loosened together.
LEMMA Loosened ==
  ASSUME NEW entries, NEW degree, NEW loose, ListsOK(entries, degree),
         LinkedBut(entries, degree, loose),
         NEW u \in Node, NEW i \in 1..Len(entries[u]), <<u, i>> \notin loose,
         NEW v, v = entries[u][i].first, NEW k, k = entries[u][i].second
  PROVE  /\ LinkedBut(entries, degree, loose \cup {<<u, i>>, <<v, k>>})
         /\ LinkedAt(entries, degree, loose, u, i)
<1> DEFINE after == loose \cup {<<u, i>>, <<v, k>>}
<1>1. LinkedAt(entries, degree, loose, u, i)
  BY DEF LinkedBut
<1>2. ASSUME NEW w \in Node, NEW p \in 1..Len(entries[w]), <<w, p>> \notin after
      PROVE  LinkedAt(entries, degree, after, w, p)
  <2>1. LinkedAt(entries, degree, loose, w, p)
    BY <1>2 DEF LinkedBut
  <2>2. QED
    BY <1>1, <1>2, <2>1 DEF LinkedAt
<1>3. QED
  BY <1>1, <1>2 DEF LinkedBut

\* What is written into loose places does not matter.
LEMMA Overwritten ==
  ASSUME NEW entries, NEW degree, NEW loose, LinkedBut(entries, degree, loose),
         NEW new, SameBut(new, entries, loose)
  PROVE  LinkedBut(new, degree, loose)
<1> SUFFICES ASSUME NEW w \in Node, NEW p \in 1..Len(new[w]), <<w, p>> \notin loose
             PROVE  LinkedAt(new, degree, loose, w, p)
  BY DEF LinkedBut
<1>1. p \in 1..Len(entries[w]) /\ new[w][p] = entries[w][p]
  BY DEF SameBut
<1>2. LinkedAt(entries, degree, loose, w, p)
  BY <1>1 DEF LinkedBut
<1>3. QED
  BY <1>1, <1>2 DEF LinkedAt, SameBut

\* A border may move over loose entries.
LEMMA BorderMoved ==
  ASSUME NEW entries, NEW degree, NEW loose, ListsOK(entries, degree),
         LinkedBut(entries, degree, loose),
         NEW new \in [Node -> Nat],
         \A w \in Node : \A p \in 1..Len(entries[w]) :
           <<w, p>> \notin loose => (p <= new[w] <=> p <= degree[w])
  PROVE  LinkedBut(entries, new, loose)
<1> SUFFICES ASSUME NEW w \in Node, NEW p \in 1..Len(entries[w]), <<w, p>> \notin loose
             PROVE  LinkedAt(entries, new, loose, w, p)
  BY DEF LinkedBut
<1> DEFINE x == entries[w][p].first
           y == entries[w][p].second
<1>1. LinkedAt(entries, degree, loose, w, p)
  BY DEF LinkedBut
<1>2. /\ x \in Node /\ y \in 1..Len(entries[x]) /\ <<x, y>> \notin loose
      /\ p <= degree[w] <=> y > degree[x]
  BY <1>1 DEF LinkedAt
<1>3. (p <= new[w] <=> p <= degree[w]) /\ (y <= new[x] <=> y <= degree[x])
  BY <1>2
<1>4. new[x] \in Nat /\ degree[x] \in Nat /\ y \in Nat
  BY <1>2 DEF ListsOK
<1>5. p <= new[w] <=> y > new[x]
  BY <1>2, <1>3, <1>4
<1>6. QED
  BY <1>1, <1>5 DEF LinkedAt

\* A loose entry at the end of its list is dropped.
WithoutLast(entries, u, n) == [entries EXCEPT ![u] = SubSeq(@, 1, n - 1)]

AfterDrop(new, entries, degree, loose, u, n) ==
  /\ new \in [Node -> Seq(Entry)]
  /\ Len(new[u]) = n - 1 /\ \A w \in Node \ {u} : Len(new[w]) = Len(entries[w])
  /\ \A w \in Node : \A p \in 1..Len(new[w]) : new[w][p] = entries[w][p]
  /\ LinkedBut(new, degree, loose \ {<<u, n>>})

LEMMA Dropped ==
  ASSUME NEW entries, NEW degree, NEW loose, ListsOK(entries, degree),
         LinkedBut(entries, degree, loose),
         NEW u \in Node, NEW n, n = Len(entries[u]), n >= 1, <<u, n>> \in loose
  PROVE  AfterDrop(WithoutLast(entries, u, n), entries, degree, loose, u, n)
<1> DEFINE new == WithoutLast(entries, u, n)
<1>1. entries \in [Node -> Seq(Entry)] /\ entries[u] \in Seq(Entry) /\ n \in Nat
  BY DEF ListsOK
<1>2. /\ SubSeq(entries[u], 1, n - 1) \in Seq(Entry)
      /\ Len(SubSeq(entries[u], 1, n - 1)) = n - 1
      /\ \A p \in 1..n - 1 : SubSeq(entries[u], 1, n - 1)[p] = entries[u][p]
  BY <1>1
<1>3. /\ new \in [Node -> Seq(Entry)]
      /\ Len(new[u]) = n - 1 /\ \A w \in Node \ {u} : Len(new[w]) = Len(entries[w])
      /\ \A w \in Node : \A p \in 1..Len(new[w]) : new[w][p] = entries[w][p]
  BY <1>1, <1>2 DEF WithoutLast
<1> HIDE DEF new
<1>4. ASSUME NEW w \in Node, NEW p \in 1..Len(new[w]), <<w, p>> \notin loose \ {<<u, n>>}
      PROVE  LinkedAt(new, degree, loose \ {<<u, n>>}, w, p)
  <2> DEFINE x == entries[w][p].first
             y == entries[w][p].second
  <2>1. p \in 1..Len(entries[w]) /\ new[w][p] = entries[w][p] /\ <<w, p>> \notin loose
    BY <1>1, <1>3, <1>4
  <2>2. LinkedAt(entries, degree, loose, w, p)
    BY <2>1 DEF LinkedBut
  <2>3. x \in Node /\ y \in 1..Len(entries[x]) /\ ~(x = u /\ y = n)
    BY <2>2 DEF LinkedAt
  <2>4. y \in 1..Len(new[x]) /\ new[x][y] = entries[x][y]
    BY <1>1, <1>3, <2>3
  <2>5. QED
    BY <2>1, <2>2, <2>4 DEF LinkedAt
<1>5. QED
  BY <1>3, <1>4 DEF LinkedBut, new, AfterDrop

\* An entry that is appended is loose.
WithLast(entries, u, entry) == [entries EXCEPT ![u] = Append(@, entry)]

AfterAppend(new, entries, degree, loose, u, n, entry) ==
  /\ new \in [Node -> Seq(Entry)]
  /\ Len(new[u]) = n /\ \A w \in Node \ {u} : Len(new[w]) = Len(entries[w])
  /\ \A w \in Node : \A p \in 1..Len(entries[w]) : new[w][p] = entries[w][p]
  /\ new[u][n] = entry
  /\ LinkedBut(new, degree, loose \cup {<<u, n>>})

LEMMA Appended ==
  ASSUME NEW entries, NEW degree, NEW loose, ListsOK(entries, degree),
         LinkedBut(entries, degree, loose),
         NEW u \in Node, NEW entry \in Entry,
         NEW n, n = Len(entries[u]) + 1
  PROVE  AfterAppend(WithLast(entries, u, entry), entries, degree, loose, u, n, entry)
<1> DEFINE new == WithLast(entries, u, entry)
<1>1. entries \in [Node -> Seq(Entry)] /\ entries[u] \in Seq(Entry) /\ n \in Nat
  BY DEF ListsOK
<1>2. /\ Append(entries[u], entry) \in Seq(Entry)
      /\ Len(Append(entries[u], entry)) = n
      /\ \A p \in 1..Len(entries[u]) : Append(entries[u], entry)[p] = entries[u][p]
      /\ Append(entries[u], entry)[n] = entry
  BY <1>1
<1>3. /\ new \in [Node -> Seq(Entry)]
      /\ Len(new[u]) = n /\ \A w \in Node \ {u} : Len(new[w]) = Len(entries[w])
      /\ \A w \in Node : \A p \in 1..Len(entries[w]) : new[w][p] = entries[w][p]
      /\ new[u][n] = entry
  BY <1>1, <1>2 DEF WithLast
<1> HIDE DEF new
<1>4. ASSUME NEW w \in Node, NEW p \in 1..Len(new[w]), <<w, p>> \notin loose \cup {<<u, n>>}
      PROVE  LinkedAt(new, degree, loose \cup {<<u, n>>}, w, p)
  <2> DEFINE x == entries[w][p].first
             y == entries[w][p].second
  <2>1. p \in 1..Len(entries[w]) /\ new[w][p] = entries[w][p] /\ <<w, p>> \notin loose
    BY <1>1, <1>3, <1>4
  <2>2. LinkedAt(entries, degree, loose, w, p)
    BY <2>1 DEF LinkedBut
  <2>3. x \in Node /\ y \in 1..Len(entries[x]) /\ ~(x = u /\ y = n) /\ Len(entries[x]) \in Nat
    BY <1>1, <2>2 DEF LinkedAt
  <2>4. y \in 1..Len(new[x]) /\ new[x][y] = entries[x][y]
    BY <1>1, <1>3, <2>3
  <2>5. QED
    BY <2>1, <2>2, <2>3, <2>4 DEF LinkedAt
<1>5. QED
  BY <1>3, <1>4 DEF LinkedBut, new, AfterAppend

\* The last two loose entries are linked when they name each other across the border.
LEMMA Tied ==
  ASSUME NEW entries, NEW degree, NEW u \in Node, NEW v \in Node, u # v,
         NEW i \in 1..Len(entries[u]), NEW k \in 1..Len(entries[v]),
         LinkedBut(entries, degree, {<<u, i>>, <<v, k>>}),
         entries[u][i].first = v, entries[u][i].second = k,
         entries[v][k].first = u, entries[v][k].second = i,
         degree[u] \in Int, degree[v] \in Int, i \in Int, k \in Int,
         i <= degree[u] <=> k > degree[v]
  PROVE  LinkedBut(entries, degree, {})
<1> DEFINE loose == {<<u, i>>, <<v, k>>}
<1> SUFFICES ASSUME NEW w \in Node, NEW p \in 1..Len(entries[w])
             PROVE  LinkedAt(entries, degree, {}, w, p)
  BY DEF LinkedBut
<1>1. CASE w = u /\ p = i
  BY <1>1 DEF LinkedAt
<1>2. CASE w = v /\ p = k
  BY <1>2 DEF LinkedAt
<1>3. CASE ~(w = u /\ p = i) /\ ~(w = v /\ p = k)
  <2>1. LinkedAt(entries, degree, loose, w, p)
    BY <1>3 DEF LinkedBut
  <2>2. QED
    BY <2>1 DEF LinkedAt
<1>4. QED
  BY <1>1, <1>2, <1>3

(****************************************************************************)
(* The elementary changes.                                                  *)
(****************************************************************************)

\* An entry is written.
WithEntry(entries, u, i, entry) == [entries EXCEPT ![u][i] = entry]

LEMMA Written ==
  ASSUME NEW entries \in [Node -> Seq(Entry)], NEW u \in Node, NEW i \in 1..Len(entries[u]),
         NEW entry \in Entry
  PROVE  /\ SameBut(WithEntry(entries, u, i, entry), entries, {<<u, i>>})
         /\ WithEntry(entries, u, i, entry)[u][i] = entry
<1> DEFINE list == [entries[u] EXCEPT ![i] = entry]
           new == [entries EXCEPT ![u] = list]
<1>1. entries[u] \in Seq(Entry)
  OBVIOUS
<1>2. /\ list \in Seq(Entry) /\ Len(list) = Len(entries[u]) /\ list[i] = entry
      /\ \A p \in 1..Len(entries[u]) : p # i => list[p] = entries[u][p]
  BY <1>1
<1>3. WithEntry(entries, u, i, entry) = new
  BY DEF WithEntry
<1> HIDE DEF list
<1>4. SameBut(new, entries, {<<u, i>>}) /\ new[u][i] = entry
  BY <1>2 DEF SameBut
<1>5. QED
  BY <1>3, <1>4

\* UPDATE_SECOND changes nothing but the link of one entry.
LEMMA Updated ==
  ASSUME NEW entries \in [Node -> Seq(Entry)], NEW v \in Node, NEW k \in 1..Len(entries[v]),
         NEW position \in Nat \ {0}
  PROVE  /\ SameBut(UPDATE_SECOND(entries, v, k, position), entries, {<<v, k>>})
         /\ UPDATE_SECOND(entries, v, k, position)[v][k].first = entries[v][k].first
         /\ UPDATE_SECOND(entries, v, k, position)[v][k].second = position
<1> DEFINE entry == [entries[v][k] EXCEPT !.second = position]
           list == [entries[v] EXCEPT ![k] = entry]
           new == UPDATE_SECOND(entries, v, k, position)
<1>1. entries[v] \in Seq(Entry) /\ entries[v][k] \in Entry
  BY EntryFields
<1>2. entry \in Entry /\ entry.first = entries[v][k].first /\ entry.second = position
  BY <1>1 DEF Entry
<1>3. new = [entries EXCEPT ![v] = list]
  BY DEF UPDATE_SECOND
<1> HIDE DEF entry
<1> HIDE DEF new
<1>4. /\ list \in Seq(Entry) /\ Len(list) = Len(entries[v]) /\ list[k] = entry
      /\ \A p \in 1..Len(entries[v]) : p # k => list[p] = entries[v][p]
  BY <1>1, <1>2
<1> HIDE DEF list
<1>5. SameBut(new, entries, {<<v, k>>}) /\ new[v][k] = entry
  BY <1>3, <1>4 DEF SameBut
<1>6. QED
  BY <1>2, <1>5 DEF new

(****************************************************************************)
(* Counting.                                                                *)
(****************************************************************************)
Tally(entries, loose, u, v) == Cardinality(EntriesFor(entries, loose, u, v))

SameTally(new, after, entries, loose) ==
  \A w, x \in Node : Tally(new, after, w, x) = Tally(entries, loose, w, x)

\* The two have entries for the same neighbours, except at these places.
SameFirsts(new, entries, places) ==
  \A w \in Node : \A p \in 1..Len(entries[w]) :
    <<w, p>> \notin places => new[w][p].first = entries[w][p].first

SameLengths(new, entries) == \A w \in Node : Len(new[w]) = Len(entries[w])

LEMMA EntriesForFinite ==
  ASSUME NEW entries \in [Node -> Seq(Entry)], NEW loose, NEW u \in Node, NEW v
  PROVE  IsFiniteSet(EntriesFor(entries, loose, u, v))
<1>1. Len(entries[u]) \in Nat
  OBVIOUS
<1>2. IsFiniteSet(1..Len(entries[u]))
  BY <1>1, FS_Interval
<1>3. EntriesFor(entries, loose, u, v) \subseteq 1..Len(entries[u])
  BY DEF EntriesFor
<1>4. QED
  BY <1>2, <1>3, FS_Subset

LEMMA TallyIsMultiplicity ==
  ASSUME NEW entries \in [Node -> Seq(Entry)], NEW u \in Node, NEW v
  PROVE  Multiplicity(entries, u, v) = Tally(entries, {}, u, v)
<1>1. EntriesFor(entries, {}, u, v) = {i \in DOMAIN entries[u] : entries[u][i].first = v}
  BY DEF EntriesFor
<1>2. QED
  BY <1>1 DEF Multiplicity, Tally

\* An entry that moves to a loose place is still counted once.
LEMMA MovedTally ==
  ASSUME NEW entries \in [Node -> Seq(Entry)], NEW new, NEW loose,
         NEW u \in Node, NEW i \in 1..Len(entries[u]), NEW j \in 1..Len(entries[u]),
         <<u, i>> \in loose, <<u, j>> \notin loose,
         SameLengths(new, entries), SameFirsts(new, entries, loose \cup {<<u, j>>}),
         new[u][i].first = entries[u][j].first
  PROVE  SameTally(new, (loose \ {<<u, i>>}) \cup {<<u, j>>}, entries, loose)
<1> DEFINE after == (loose \ {<<u, i>>}) \cup {<<u, j>>}
<1> SUFFICES ASSUME NEW w \in Node, NEW x \in Node
             PROVE  Tally(new, after, w, x) = Tally(entries, loose, w, x)
  BY DEF SameTally
<1> DEFINE before == EntriesFor(entries, loose, w, x)
<1>1. CASE w = u /\ x = entries[u][j].first
  <2>1. j \in before /\ i \notin before
    BY <1>1 DEF EntriesFor
  <2>2. EntriesFor(new, after, w, x) = (before \ {j}) \cup {i}
    BY <1>1 DEF EntriesFor, SameLengths, SameFirsts
  <2>3. IsFiniteSet(before)
    BY EntriesForFinite
  <2> HIDE DEF before
  <2>4. IsFiniteSet(before \ {j}) /\ Cardinality(before \ {j}) = Cardinality(before) - 1
    BY <2>1, <2>3, FS_RemoveElement
  <2>5. Cardinality((before \ {j}) \cup {i}) = Cardinality(before \ {j}) + 1
    BY <2>1, <2>4, FS_AddElement
  <2>6. Cardinality(before) \in Nat
    BY <2>3, FS_CardinalityType
  <2>7. Cardinality((before \ {j}) \cup {i}) = Cardinality(before)
    BY <2>4, <2>5, <2>6
  <2>8. QED
    BY <2>2, <2>7 DEF Tally, before
<1>2. CASE ~(w = u /\ x = entries[u][j].first)
  <2>1. EntriesFor(new, after, w, x) = before
    BY <1>2 DEF EntriesFor, SameLengths, SameFirsts
  <2>2. QED
    BY <2>1 DEF Tally
<1>3. QED
  BY <1>1, <1>2

\* Loosening an entry takes it out of the count.
FewerTally(entries, loose, u, v) ==
  /\ \A w, x \in Node : {w, x} # {u, v} =>
       Tally(entries, loose, w, x) = Tally(entries, {}, w, x)
  /\ Tally(entries, loose, u, v) = Tally(entries, {}, u, v) - 1
  /\ Tally(entries, loose, v, u) = Tally(entries, {}, v, u) - 1

LEMMA LoosenedTally ==
  ASSUME NEW entries \in [Node -> Seq(Entry)], NEW u \in Node, NEW v \in Node, u # v,
         NEW i \in 1..Len(entries[u]), NEW k \in 1..Len(entries[v]),
         entries[u][i].first = v, entries[v][k].first = u
  PROVE  FewerTally(entries, {<<u, i>>, <<v, k>>}, u, v)
<1> DEFINE loose == {<<u, i>>, <<v, k>>}
<1>1. ASSUME NEW w \in Node, NEW x \in Node, {w, x} # {u, v}
      PROVE  Tally(entries, loose, w, x) = Tally(entries, {}, w, x)
  <2>1. EntriesFor(entries, loose, w, x) = EntriesFor(entries, {}, w, x)
    BY <1>1 DEF EntriesFor
  <2>2. QED
    BY <2>1 DEF Tally
<1>2. Tally(entries, loose, u, v) = Tally(entries, {}, u, v) - 1
  <2>1. i \in EntriesFor(entries, {}, u, v)
    BY DEF EntriesFor
  <2>2. EntriesFor(entries, loose, u, v) = EntriesFor(entries, {}, u, v) \ {i}
    BY DEF EntriesFor
  <2>3. IsFiniteSet(EntriesFor(entries, {}, u, v))
    BY EntriesForFinite
  <2>4. QED
    BY <2>1, <2>2, <2>3, FS_RemoveElement DEF Tally
<1>3. Tally(entries, loose, v, u) = Tally(entries, {}, v, u) - 1
  <2>1. k \in EntriesFor(entries, {}, v, u)
    BY DEF EntriesFor
  <2>2. EntriesFor(entries, loose, v, u) = EntriesFor(entries, {}, v, u) \ {k}
    BY DEF EntriesFor
  <2>3. IsFiniteSet(EntriesFor(entries, {}, v, u))
    BY EntriesForFinite
  <2>4. QED
    BY <2>1, <2>2, <2>3, FS_RemoveElement DEF Tally
<1>4. QED
  BY <1>1, <1>2, <1>3 DEF FewerTally

(****************************************************************************)
(* Moving entries.                                                          *)
(****************************************************************************)

\* The entry at position j of u has moved to position i, and position j is loose.
AfterMove(new, entries, degree, loose, u, i, j) ==
  LET after == (loose \ {<<u, i>>}) \cup {<<u, j>>}
  IN  /\ ListsOK(new, degree)
      /\ LinkedBut(new, degree, after)
      /\ SameTally(new, after, entries, loose)
      /\ SameLengths(new, entries)
      /\ SameFirsts(new, entries, {<<u, i>>, <<u, j>>})

\* The two agree at these places.
SameAt(new, entries, places) ==
  \A w \in Node : \A p \in 1..Len(entries[w]) : <<w, p>> \in places => new[w][p] = entries[w][p]

\* A linked entry that has been copied or moved to the place of a loose one on the same
\* side of the border is relinked.
LEMMA MoveRelinked ==
  ASSUME NEW entries, NEW degree, NEW loose, ListsOK(entries, degree),
         LinkedBut(entries, degree, loose),
         NEW u \in Node, NEW i \in 1..Len(entries[u]), NEW j \in 1..Len(entries[u]),
         <<u, i>> \in loose, <<u, j>> \notin loose,
         i <= degree[u] <=> j <= degree[u],
         NEW mid, SameBut(mid, entries, {<<u, i>>, <<u, j>>}), mid[u][i] = entries[u][j]
  PROVE  /\ AfterMove(Relinked(mid, u, i), entries, degree, loose, u, i, j)
         /\ SameAt(Relinked(mid, u, i), mid, loose \cup {<<u, j>>})
<1> DEFINE v == entries[u][j].first
           k == entries[u][j].second
           new == UPDATE_SECOND(mid, v, k, i)
<1>1. LinkedAt(entries, degree, loose, u, j)
  BY DEF LinkedBut
<1>2. /\ v \in Node /\ v # u /\ k \in 1..Len(entries[v]) /\ <<v, k>> \notin loose
      /\ entries[v][k].first = u
  BY <1>1 DEF LinkedAt
<1>3. /\ mid \in [Node -> Seq(Entry)] /\ SameLengths(mid, entries)
      /\ k \in 1..Len(mid[v]) /\ i \in Nat \ {0}
  BY <1>2 DEF SameBut, SameLengths, ListsOK
<1>4. mid[v][k].first = u
  BY <1>2 DEF SameBut
<1>5. Relinked(mid, u, i) = new
  BY DEF Relinked
<1> HIDE DEF v, k, new
<1>6. /\ SameBut(new, mid, {<<v, k>>})
      /\ new[v][k].first = mid[v][k].first /\ new[v][k].second = i
  <2>1. /\ mid \in [Node -> Seq(Entry)] /\ v \in Node /\ k \in 1..Len(mid[v])
        /\ i \in Nat \ {0}
    BY <1>2, <1>3
  <2>2. QED
    BY ONLY <2>1, Updated DEF new
<1>7. ListsOK(new, degree) /\ SameLengths(new, entries)
  BY <1>3, <1>6 DEF SameBut, SameLengths, ListsOK
<1>8. ASSUME NEW w \in Node, NEW p \in 1..Len(entries[w]),
             <<w, p>> \notin {<<u, i>>, <<u, j>>, <<v, k>>}
      PROVE  new[w][p] = entries[w][p]
  <2>1. p \in 1..Len(mid[w]) /\ mid[w][p] = entries[w][p]
    BY <1>8 DEF SameBut
  <2>2. QED
    BY <1>6, <1>8, <2>1 DEF SameBut
<1>9. SameFirsts(new, entries, {<<u, i>>, <<u, j>>})
  <2> SUFFICES ASSUME NEW w \in Node, NEW p \in 1..Len(entries[w]),
                      <<w, p>> \notin {<<u, i>>, <<u, j>>}
               PROVE  new[w][p].first = entries[w][p].first
    BY DEF SameFirsts
  <2>1. CASE w = v /\ p = k
    BY <2>1, <1>2, <1>4, <1>6
  <2>2. CASE ~(w = v /\ p = k)
    BY <2>2, <1>8
  <2>3. QED
    BY <2>1, <2>2
<1>10. new[u][i] = entries[u][j]
  <2>1. i \in 1..Len(mid[u]) /\ <<u, i>> # <<v, k>>
    BY <1>2, <1>3 DEF SameLengths
  <2>2. QED
    BY <2>1, <1>6 DEF SameBut
<1>11. SameBut(new, entries, loose \cup {<<u, j>>, <<v, k>>})
  BY <1>7, <1>8, <1>6 DEF SameBut, SameLengths
<1>12. LinkedBut(new, degree, (loose \ {<<u, i>>}) \cup {<<u, j>>})
  BY <1>4, <1>6, <1>10, <1>11, Relocated DEF v, k
<1>13. SameTally(new, (loose \ {<<u, i>>}) \cup {<<u, j>>}, entries, loose)
  <2>1. entries \in [Node -> Seq(Entry)]
    BY DEF ListsOK
  <2>2. SameFirsts(new, entries, loose \cup {<<u, j>>})
    BY <1>9 DEF SameFirsts
  <2>3. QED
    BY <1>7, <1>10, <2>1, <2>2, MovedTally
<1>14. SameAt(new, mid, loose \cup {<<u, j>>})
  BY <1>2, <1>6 DEF SameAt, SameBut
<1>15. QED
  BY <1>5, <1>7, <1>9, <1>12, <1>13, <1>14 DEF AfterMove

LEMMA SwapMoves ==
  ASSUME NEW entries, NEW degree, NEW loose, ListsOK(entries, degree),
         LinkedBut(entries, degree, loose),
         NEW u \in Node, NEW i \in 1..Len(entries[u]), NEW j \in 1..Len(entries[u]),
         <<u, i>> \in loose, <<u, j>> \notin loose,
         i <= degree[u] <=> j <= degree[u]
  PROVE  /\ AfterMove(SwapRelinked(entries, u, i, j), entries, degree, loose, u, i, j)
         /\ SwapRelinked(entries, u, i, j)[u][j] = entries[u][i]
         /\ \A w \in Node \ {u} : \A p \in 1..Len(entries[w]) :
              <<w, p>> \in loose => SwapRelinked(entries, u, i, j)[w][p] = entries[w][p]
<1> DEFINE list == Swapped(entries[u], i, j)
           mid == [entries EXCEPT ![u] = list]
<1>1. entries \in [Node -> Seq(Entry)] /\ entries[u] \in Seq(Entry)
  BY DEF ListsOK
<1>2. entries[u][i] \in Entry /\ entries[u][j] \in Entry
  BY <1>1, EntryFields
<1>3. /\ list \in Seq(Entry) /\ Len(list) = Len(entries[u]) /\ list[i] = entries[u][j]
      /\ list[j] = entries[u][i]
      /\ \A p \in 1..Len(entries[u]) : p # i /\ p # j => list[p] = entries[u][p]
  BY <1>1, <1>2 DEF Swapped
<1>4. SwapRelinked(entries, u, i, j) = Relinked(mid, u, i)
  BY DEF SwapRelinked
<1> HIDE DEF list
<1>5. SameBut(mid, entries, {<<u, i>>, <<u, j>>}) /\ mid[u][i] = entries[u][j]
  BY <1>1, <1>3 DEF SameBut
<1> HIDE DEF mid
<1>6. /\ AfterMove(Relinked(mid, u, i), entries, degree, loose, u, i, j)
      /\ SameAt(Relinked(mid, u, i), mid, loose \cup {<<u, j>>})
  BY <1>5, MoveRelinked
<1>7. Relinked(mid, u, i)[u][j] = entries[u][i]
  <2>1. j \in 1..Len(mid[u]) /\ mid[u][j] = entries[u][i]
    BY <1>1, <1>3 DEF mid
  <2>2. QED
    BY <1>6, <2>1 DEF SameAt
<1>8. ASSUME NEW w \in Node \ {u}, NEW p \in 1..Len(entries[w]), <<w, p>> \in loose
      PROVE  Relinked(mid, u, i)[w][p] = entries[w][p]
  <2>1. mid[w] = entries[w]
    BY <1>1 DEF mid
  <2>2. QED
    BY <1>6, <1>8, <2>1 DEF SameAt
<1>9. QED
  BY <1>4, <1>6, <1>7, <1>8

\* One entry of u has been copied over another.
CopiedOver(entries, u, i, j) == [entries EXCEPT ![u][i] = entries[u][j]]

LEMMA Copied ==
  ASSUME NEW entries \in [Node -> Seq(Entry)],
         NEW u \in Node, NEW i \in 1..Len(entries[u]), NEW j \in 1..Len(entries[u])
  PROVE  /\ SameBut(CopiedOver(entries, u, i, j), entries, {<<u, i>>})
         /\ CopiedOver(entries, u, i, j)[u][i] = entries[u][j]
<1> DEFINE list == [entries[u] EXCEPT ![i] = entries[u][j]]
           mid == [entries EXCEPT ![u] = list]
<1>1. entries[u] \in Seq(Entry) /\ entries[u][j] \in Entry
  BY EntryFields
<1>2. /\ list \in Seq(Entry) /\ Len(list) = Len(entries[u]) /\ list[i] = entries[u][j]
      /\ \A p \in 1..Len(entries[u]) : p # i => list[p] = entries[u][p]
  BY <1>1
<1>3. CopiedOver(entries, u, i, j) = mid
  BY DEF CopiedOver
<1> HIDE DEF list
<1>4. SameBut(mid, entries, {<<u, i>>}) /\ mid[u][i] = entries[u][j]
  BY <1>2 DEF SameBut
<1>5. QED
  BY <1>3, <1>4

\* The step of ActiveFlipped on one of its two lists.
CopyRelinked(entries, u, i, j) ==
  IF i = j THEN CopiedOver(entries, u, i, j) ELSE Relinked(CopiedOver(entries, u, i, j), u, i)

\* It makes position j loose instead of position i.
LEMMA CopyMoves ==
  ASSUME NEW entries, NEW degree, NEW loose, ListsOK(entries, degree),
         LinkedBut(entries, degree, loose),
         NEW u \in Node, NEW i \in 1..Len(entries[u]), NEW j \in 1..Len(entries[u]),
         <<u, i>> \in loose, i # j => <<u, j>> \notin loose,
         i <= degree[u] <=> j <= degree[u]
  PROVE  AfterMove(CopyRelinked(entries, u, i, j), entries, degree, loose, u, i, j)
<1> DEFINE mid == CopiedOver(entries, u, i, j)
<1>1. SameBut(mid, entries, {<<u, i>>}) /\ mid[u][i] = entries[u][j]
  BY Copied DEF ListsOK
<1> HIDE DEF mid
<1>2. CASE i # j
  <2>1. SameBut(mid, entries, {<<u, i>>, <<u, j>>})
    BY <1>1 DEF SameBut
  <2>2. AfterMove(Relinked(mid, u, i), entries, degree, loose, u, i, j)
    BY <1>1, <1>2, <2>1, MoveRelinked
  <2>3. QED
    BY <1>2, <2>2 DEF CopyRelinked, mid
<1>3. CASE i = j
  <2>1. /\ mid \in [Node -> Seq(Entry)] /\ SameLengths(mid, entries)
        /\ \A w \in Node : \A p \in 1..Len(entries[w]) : mid[w][p] = entries[w][p]
    BY <1>1, <1>3 DEF SameBut, SameLengths
  <2>2. (loose \ {<<u, i>>}) \cup {<<u, j>>} = loose
    BY <1>3
  <2>3. ListsOK(mid, degree) /\ SameFirsts(mid, entries, {<<u, i>>, <<u, j>>})
    BY <2>1 DEF ListsOK, SameFirsts, SameLengths
  <2>4. LinkedBut(mid, degree, loose)
    <3>1. SameBut(mid, entries, loose)
      BY <2>1 DEF SameBut, SameLengths
    <3>2. QED
      BY <3>1, Overwritten
  <2>5. SameTally(mid, loose, entries, loose)
    <3>1. \A w, x \in Node : EntriesFor(mid, loose, w, x) = EntriesFor(entries, loose, w, x)
      BY <2>1 DEF EntriesFor, SameLengths
    <3>2. QED
      BY <3>1 DEF SameTally, Tally
  <2>6. AfterMove(mid, entries, degree, loose, u, i, j)
    BY <2>1, <2>2, <2>3, <2>4, <2>5 DEF AfterMove
  <2>7. QED
    BY <1>3, <2>6 DEF CopyRelinked, mid
<1>4. QED
  BY <1>2, <1>3

\* The lists name the same neighbours at the same places.
SameNames(new, entries) ==
  /\ new \in [Node -> Seq(Entry)]
  /\ SameLengths(new, entries)
  /\ SameFirsts(new, entries, {})

LEMMA RelinkedNames ==
  ASSUME NEW entries \in [Node -> Seq(Entry)], NEW u \in Node, NEW i \in 1..Len(entries[u])
  PROVE  SameNames(Relinked(entries, u, i), entries)
<1> DEFINE v == entries[u][i].first
           k == entries[u][i].second
           new == Relinked(entries, u, i)
<1>1. v \in Node /\ k \in Nat \ {0}
  BY EntryFields
<1>2. i \in Nat \ {0}
  OBVIOUS
<1>3. new = UPDATE_SECOND(entries, v, k, i)
  BY DEF Relinked
<1> HIDE DEF v, k, new
<1>4. CASE k \in 1..Len(entries[v])
  <2>1. SameBut(new, entries, {<<v, k>>}) /\ new[v][k].first = entries[v][k].first
    BY <1>1, <1>2, <1>3, <1>4, Updated
  <2>2. SameFirsts(new, entries, {})
    BY <1>4, <2>1 DEF SameFirsts, SameBut
  <2>3. QED
    BY <2>1, <2>2 DEF SameNames, SameLengths, SameBut, new
<1>5. CASE k \notin 1..Len(entries[v])
  <2>1. new = [entries EXCEPT ![v] = [entries[v] EXCEPT ![k] = [entries[v][k] EXCEPT !.second = i]]]
    BY <1>3 DEF UPDATE_SECOND
  <2>2. entries[v] \in Seq(Entry)
    BY <1>1
  <2>3. [entries[v] EXCEPT ![k] = [entries[v][k] EXCEPT !.second = i]] = entries[v]
    <3> PICK list \in Seq(Entry) : list = entries[v]
      BY <2>2
    <3> PICK w : w = [entries[v][k] EXCEPT !.second = i]
      OBVIOUS
    <3>1. k \notin DOMAIN list
      BY <1>5
    <3>2. [list EXCEPT ![k] = w] = list
      BY <3>1
    <3>3. QED
      BY <3>2
  <2>4. new = entries
    BY <1>1, <2>1, <2>3
  <2>5. QED
    BY <2>4 DEF SameNames, SameLengths, SameFirsts, new
<1>6. QED
  BY <1>4, <1>5

\* One list names a neighbour at place i as it did, and does, at place j.
NameCopied(new, entries, u, i, j) ==
  /\ new \in [Node -> Seq(Entry)] /\ SameLengths(new, entries)
  /\ SameFirsts(new, entries, {<<u, i>>})
  /\ new[u][i].first = entries[u][j].first

LEMMA CopiedNames ==
  ASSUME NEW entries \in [Node -> Seq(Entry)],
         NEW u \in Node, NEW i \in 1..Len(entries[u]), NEW j \in 1..Len(entries[u]),
         NEW new, new = CopyRelinked(entries, u, i, j)
  PROVE  NameCopied(new, entries, u, i, j)
<1> DEFINE mid == CopiedOver(entries, u, i, j)
<1>1. SameBut(mid, entries, {<<u, i>>}) /\ mid[u][i] = entries[u][j]
  BY Copied
<1>2. NameCopied(mid, entries, u, i, j)
  BY <1>1 DEF NameCopied, SameBut, SameLengths, SameFirsts
<1>3. new = IF i = j THEN mid ELSE Relinked(mid, u, i)
  BY DEF CopyRelinked
<1> HIDE DEF mid
<1>4. CASE i # j
  <2>1. mid \in [Node -> Seq(Entry)] /\ i \in 1..Len(mid[u])
    BY <1>1 DEF SameBut
  <2>2. SameNames(new, mid)
    BY <1>3, <1>4, <2>1, RelinkedNames
  <2>3. SameLengths(new, entries)
    BY <1>2, <2>2 DEF SameNames, NameCopied, SameLengths
  <2>4. ASSUME NEW w \in Node, NEW p \in 1..Len(entries[w])
        PROVE  new[w][p].first = mid[w][p].first
    <3>1. p \in 1..Len(mid[w])
      BY <1>2 DEF NameCopied, SameLengths
    <3>2. QED
      BY <2>2, <3>1 DEF SameNames, SameFirsts
  <2>5. SameFirsts(new, entries, {<<u, i>>})
    BY <1>2, <2>4 DEF NameCopied, SameFirsts
  <2>6. QED
    BY <1>2, <2>2, <2>3, <2>4, <2>5 DEF NameCopied, SameNames
<1>5. CASE i = j
  BY <1>2, <1>3, <1>5
<1>6. QED
  BY <1>4, <1>5

(****************************************************************************)
(* Deletion.                                                                *)
(****************************************************************************)

\* The loose entry i of u is gone.
AfterRemoval(new, degreeAfter, entries, loose, u, i) ==
  /\ ListsOK(new, degreeAfter)
  /\ LinkedBut(new, degreeAfter, loose \ {<<u, i>>})
  /\ SameTally(new, loose \ {<<u, i>>}, entries, loose)
  /\ \A w \in Node \ {u} : Len(new[w]) = Len(entries[w])

LEMMA LastDrops ==
  ASSUME NEW entries, NEW degree, NEW loose, ListsOK(entries, degree),
         LinkedBut(entries, degree, loose),
         NEW u \in Node, NEW n, n = Len(entries[u]), n > degree[u], <<u, n>> \in loose
  PROVE  AfterRemoval(WithoutLast(entries, u, n), degree, entries, loose, u, n)
<1> DEFINE new == WithoutLast(entries, u, n)
<1>1. n \in Nat /\ degree[u] \in Nat /\ n >= 1 /\ n - 1 >= degree[u]
  BY DEF ListsOK
<1>2. AfterDrop(new, entries, degree, loose, u, n)
  BY <1>1, Dropped
<1> HIDE DEF new
<1>3. ListsOK(new, degree)
  <2>1. \A w \in Node : degree[w] <= Len(new[w])
    BY <1>1, <1>2 DEF ListsOK, AfterDrop
  <2>2. QED
    BY <1>2, <2>1 DEF ListsOK, AfterDrop
<1>4. ASSUME NEW w \in Node, NEW x \in Node
      PROVE  EntriesFor(new, loose \ {<<u, n>>}, w, x) = EntriesFor(entries, loose, w, x)
  <2>1. CASE w = u
    <3>1. 1..n - 1 = 1..n \ {n}
      BY <1>1
    <3>2. QED
      BY <1>2, <2>1, <3>1 DEF EntriesFor, AfterDrop
  <2>2. CASE w # u
    BY <1>2, <2>2 DEF EntriesFor, AfterDrop
  <2>3. QED
    BY <2>1, <2>2
<1>5. SameTally(new, loose \ {<<u, n>>}, entries, loose)
  BY <1>4 DEF SameTally, Tally
<1>6. QED
  BY <1>2, <1>3, <1>5 DEF AfterRemoval, AfterDrop, new

LEMMA LastDroppedRemoves ==
  ASSUME NEW entries, NEW degree, NEW loose, ListsOK(entries, degree),
         LinkedBut(entries, degree, loose),
         NEW u \in Node, NEW i \in 1..Len(entries[u]), i > degree[u], <<u, i>> \in loose,
         \A p \in 1..Len(entries[u]) : <<u, p>> \in loose => p = i
  PROVE  AfterRemoval(LastDropped(entries, u, i), degree, entries, loose, u, i)
<1> DEFINE n == Len(entries[u])
<1>1. n \in Nat /\ degree[u] \in Nat /\ i \in 1..n /\ n \in 1..n /\ n > degree[u]
  BY DEF ListsOK
<1>2. CASE i = n
  <2>1. LastDropped(entries, u, i) = WithoutLast(entries, u, n)
    BY <1>2 DEF LastDropped, WithoutLast
  <2> HIDE DEF n
  <2>2. AfterRemoval(WithoutLast(entries, u, n), degree, entries, loose, u, n)
    BY <1>1, <1>2, LastDrops DEF n
  <2>3. QED
    BY <1>2, <2>1, <2>2
<1>3. CASE i # n
  <2> DEFINE moved == SwapRelinked(entries, u, i, n)
             after == (loose \ {<<u, i>>}) \cup {<<u, n>>}
  <2>1. LastDropped(entries, u, i) = WithoutLast(moved, u, n)
    BY <1>3 DEF LastDropped, WithoutLast
  <2>2. AfterMove(moved, entries, degree, loose, u, i, n)
    <3>1. <<u, n>> \notin loose /\ (i <= degree[u] <=> n <= degree[u])
      BY <1>1, <1>3
    <3> HIDE DEF n
    <3>2. QED
      BY <1>1, <3>1, SwapMoves DEF n
  <2> HIDE DEF moved
  <2>3. ListsOK(moved, degree) /\ LinkedBut(moved, degree, after) /\ n = Len(moved[u])
    BY <2>2 DEF AfterMove, SameLengths
  <2>4. n > degree[u] /\ <<u, n>> \in after
    BY <1>1
  <2>5. after \ {<<u, n>>} = loose \ {<<u, i>>}
    BY <1>1, <1>3
  <2> HIDE DEF n, after
  <2>6. AfterRemoval(WithoutLast(moved, u, n), degree, moved, after, u, n)
    BY <2>3, <2>4, LastDrops
  <2>7. SameTally(moved, after, entries, loose) /\ SameLengths(moved, entries)
    BY <2>2 DEF AfterMove, after
  <2>8. AfterRemoval(WithoutLast(moved, u, n), degree, entries, loose, u, i)
    BY <2>5, <2>6, <2>7 DEF AfterRemoval, SameTally, SameLengths
  <2>9. QED
    BY <2>1, <2>8
<1>4. QED
  BY <1>2, <1>3

LEMMA EntryRemovedRemoves ==
  ASSUME NEW entries, NEW degree, NEW loose, ListsOK(entries, degree),
         LinkedBut(entries, degree, loose),
         NEW u \in Node, NEW i \in 1..Len(entries[u]), <<u, i>> \in loose,
         \A p \in 1..Len(entries[u]) : <<u, p>> \in loose => p = i
  PROVE  AfterRemoval(EntryRemoved(entries, degree, u, i), DegreeAfter(degree, u, i),
                      entries, loose, u, i)
<1> DEFINE d == degree[u]
           less == [degree EXCEPT ![u] = @ - 1]
<1>1. d \in Nat /\ d <= Len(entries[u]) /\ i \in Nat /\ i >= 1 /\ Len(entries[u]) \in Nat
  BY DEF ListsOK
<1>2. CASE i > degree[u]
  <2>1. EntryRemoved(entries, degree, u, i) = LastDropped(entries, u, i)
    BY <1>1, <1>2 DEF EntryRemoved
  <2>2. AfterRemoval(LastDropped(entries, u, i), degree, entries, loose, u, i)
    BY <1>2, LastDroppedRemoves
  <2>3. QED
    BY <1>2, <2>1, <2>2 DEF DegreeAfter
<1>3. CASE i <= degree[u]
  <2>1. DegreeAfter(degree, u, i) = less
    BY <1>1, <1>3 DEF DegreeAfter
  <2>2. less \in [Node -> Nat] /\ less[u] = d - 1 /\ \A w \in Node : less[w] <= degree[w]
    BY <1>1, <1>3 DEF ListsOK
  <2>3. \A w \in Node \ {u} : less[w] = degree[w]
    BY DEF ListsOK
  <2> HIDE DEF less
  <2>4. ASSUME NEW now, NEW l, ListsOK(now, degree), LinkedBut(now, degree, l),
               <<u, d>> \in l
        PROVE  ListsOK(now, less) /\ LinkedBut(now, less, l)
    <3>1. ListsOK(now, less)
      BY <2>2, <2>4 DEF ListsOK
    <3>2. ASSUME NEW w \in Node, NEW p \in 1..Len(now[w]), <<w, p>> \notin l
          PROVE  p <= less[w] <=> p <= degree[w]
      <4>1. CASE w = u
        BY <1>1, <2>2, <2>4, <3>2, <4>1
      <4>2. CASE w # u
        BY <2>3, <4>2
      <4>3. QED
        BY <4>1, <4>2
    <3>3. LinkedBut(now, less, l)
      BY <2>2, <2>4, <3>2, BorderMoved
    <3>4. QED
      BY <3>1, <3>3
  <2>5. CASE i = d
    <3>1. EntryRemoved(entries, degree, u, i) = LastDropped(entries, u, i)
      BY <1>1, <2>5 DEF EntryRemoved
    <3>2. ListsOK(entries, less) /\ LinkedBut(entries, less, loose) /\ i > less[u]
      BY <1>1, <2>2, <2>4, <2>5
    <3>3. AfterRemoval(LastDropped(entries, u, i), less, entries, loose, u, i)
      BY <3>2, LastDroppedRemoves
    <3>4. QED
      BY <2>1, <3>1, <3>3
  <2>6. CASE i # d
    <3> DEFINE moved == SwapRelinked(entries, u, i, d)
               after == (loose \ {<<u, i>>}) \cup {<<u, d>>}
    <3>1. EntryRemoved(entries, degree, u, i) = LastDropped(moved, u, d)
      BY <1>1, <1>3, <2>6 DEF EntryRemoved
    <3>2. d \in 1..Len(entries[u]) /\ <<u, d>> \notin loose
      BY <1>1, <1>3, <2>6
    <3>3. i <= degree[u] <=> d <= degree[u]
      BY <1>1, <1>3
    <3>4. AfterMove(moved, entries, degree, loose, u, i, d)
      <4> HIDE DEF d
      <4>1. QED
        BY <3>2, <3>3, SwapMoves
    <3> HIDE DEF moved
    <3>5. ListsOK(moved, less) /\ LinkedBut(moved, less, after)
      BY <2>4, <3>4 DEF AfterMove
    <3>6. /\ d \in 1..Len(moved[u]) /\ d > less[u] /\ <<u, d>> \in after
          /\ \A p \in 1..Len(moved[u]) : <<u, p>> \in after => p = d
      BY <1>1, <2>2, <3>2, <3>4 DEF AfterMove, SameLengths
    <3>7. after \ {<<u, d>>} = loose \ {<<u, i>>}
      BY <3>2
    <3> HIDE DEF after, d
    <3>8. AfterRemoval(LastDropped(moved, u, d), less, moved, after, u, d)
      BY <3>5, <3>6, LastDroppedRemoves
    <3>9. SameTally(moved, after, entries, loose) /\ SameLengths(moved, entries)
      BY <3>4 DEF AfterMove, after
    <3>10. AfterRemoval(LastDropped(moved, u, d), less, entries, loose, u, i)
      BY <3>7, <3>8, <3>9 DEF AfterRemoval, SameTally, SameLengths
    <3>11. QED
      BY <2>1, <3>1, <3>10
  <2>7. QED
    BY <2>5, <2>6
<1>4. QED
  BY <1>1, <1>2, <1>3

\* The lists are as they should be between two operations.
WellLinked(entries, degree) == ListsOK(entries, degree) /\ LinkedBut(entries, degree, {})

\* There are this many more entries for the edge, on both sides, and as many as before
\* for every other edge.
CopiesAdded(new, entries, u, v, more) ==
  /\ \A w, x \in Node : {w, x} # {u, v} =>
       Multiplicity(new, w, x) = Multiplicity(entries, w, x)
  /\ Multiplicity(new, u, v) = Multiplicity(entries, u, v) + more
  /\ Multiplicity(new, v, u) = Multiplicity(entries, v, u) + more

\* The deletion of an entry and its mirror.
LEMMA EdgeDeleted ==
  ASSUME NEW entries, NEW degree, WellLinked(entries, degree),
         NEW u \in Node, NEW i \in 1..Len(entries[u]),
         NEW v, v = entries[u][i].first, NEW k, k = entries[u][i].second,
         NEW one, one = EntryRemoved(entries, degree, u, i),
         NEW d1, d1 = DegreeAfter(degree, u, i),
         NEW new, new = EntryRemoved(one, d1, v, k),
         NEW d2, d2 = DegreeAfter(d1, v, k)
  PROVE  /\ v \in Node /\ v # u
         /\ WellLinked(new, d2)
         /\ CopiesAdded(new, entries, u, v, -1)
<1> DEFINE loose == {<<u, i>>, <<v, k>>}
<1>1. /\ ListsOK(entries, degree) /\ LinkedBut(entries, degree, {})
      /\ entries \in [Node -> Seq(Entry)]
  BY DEF WellLinked, ListsOK
<1>2. LinkedAt(entries, degree, {}, u, i)
  BY <1>1 DEF LinkedBut
<1>3. v \in Node /\ v # u /\ k \in 1..Len(entries[v]) /\ entries[v][k].first = u
  BY <1>2 DEF LinkedAt
<1>4. LinkedBut(entries, degree, loose)
  <2>1. LinkedBut(entries, degree, {} \cup {<<u, i>>, <<v, k>>})
    BY <1>1, Loosened
  <2>2. QED
    BY <2>1
<1>5. AfterRemoval(one, d1, entries, loose, u, i)
  <2>1. <<u, i>> \in loose /\ \A p \in 1..Len(entries[u]) : <<u, p>> \in loose => p = i
    BY <1>3
  <2> HIDE DEF loose
  <2>2. QED
    BY <1>1, <1>4, <2>1, EntryRemovedRemoves
<1>6. loose \ {<<u, i>>} = {<<v, k>>} /\ {<<v, k>>} \ {<<v, k>>} = {}
  BY <1>3
<1>7. /\ ListsOK(one, d1) /\ LinkedBut(one, d1, {<<v, k>>}) /\ k \in 1..Len(one[v])
      /\ SameTally(one, {<<v, k>>}, entries, loose)
  BY <1>3, <1>5, <1>6 DEF AfterRemoval
<1>8. AfterRemoval(new, d2, one, {<<v, k>>}, v, k)
  <2>1. <<v, k>> \in {<<v, k>>} /\ \A p \in 1..Len(one[v]) : <<v, p>> \in {<<v, k>>} => p = k
    OBVIOUS
  <2>2. QED
    BY <1>3, <1>7, <2>1, EntryRemovedRemoves
<1> HIDE DEF loose
<1>9. WellLinked(new, d2)
  BY <1>6, <1>8 DEF AfterRemoval, WellLinked
<1>10. SameTally(new, {}, one, {<<v, k>>})
  BY <1>6, <1>8 DEF AfterRemoval
<1>11. SameTally(new, {}, entries, loose)
  <2>1. SameTally(one, {<<v, k>>}, entries, loose)
    BY <1>7
  <2>2. QED
    BY ONLY <1>10, <2>1 DEF SameTally
<1>12. new \in [Node -> Seq(Entry)]
  BY <1>9 DEF WellLinked, ListsOK
<1>13. FewerTally(entries, loose, u, v)
  BY <1>1, <1>3, LoosenedTally DEF loose
<1>14. ASSUME NEW w \in Node, NEW x \in Node
       PROVE  Multiplicity(new, w, x) = Tally(entries, loose, w, x)
  BY <1>11, <1>12, TallyIsMultiplicity DEF SameTally
<1>15. ASSUME NEW w \in Node, NEW x \in Node
       PROVE  Multiplicity(entries, w, x) = Tally(entries, {}, w, x)
  BY <1>1, TallyIsMultiplicity
<1>16. ASSUME NEW w \in Node, NEW x \in Node, {w, x} # {u, v}
       PROVE  Multiplicity(new, w, x) = Multiplicity(entries, w, x)
  BY <1>13, <1>14, <1>15, <1>16 DEF FewerTally
<1>17. Multiplicity(entries, u, v) \in Nat /\ Multiplicity(entries, v, u) \in Nat
  BY <1>1, <1>3, <1>15, EntriesForFinite, FS_CardinalityType DEF Tally
<1>18. /\ Multiplicity(new, u, v) = Multiplicity(entries, u, v) + -1
       /\ Multiplicity(new, v, u) = Multiplicity(entries, v, u) + -1
  BY <1>3, <1>13, <1>14, <1>15, <1>17 DEF FewerTally
<1>19. QED
  BY <1>3, <1>9, <1>16, <1>18 DEF CopiesAdded

(****************************************************************************)
(* Insertion.                                                               *)
(****************************************************************************)

\* A loose entry at the end of a list is not counted.
LEMMA AppendedTally ==
  ASSUME NEW entries \in [Node -> Seq(Entry)], NEW new, NEW degree, NEW loose, NEW entry,
         NEW u \in Node, NEW n, n = Len(entries[u]) + 1,
         AfterAppend(new, entries, degree, loose, u, n, entry)
  PROVE  SameTally(new, loose \cup {<<u, n>>}, entries, loose)
<1>1. ASSUME NEW w \in Node, NEW x \in Node
      PROVE  EntriesFor(new, loose \cup {<<u, n>>}, w, x) = EntriesFor(entries, loose, w, x)
  <2>1. CASE w = u
    <3>1. 1..n = 1..Len(entries[u]) \cup {n} /\ n \notin 1..Len(entries[u])
      OBVIOUS
    <3>2. QED
      BY <2>1, <3>1 DEF EntriesFor, AfterAppend
  <2>2. CASE w # u
    BY <2>2 DEF EntriesFor, AfterAppend
  <2>3. QED
    BY <2>1, <2>2
<1>2. QED
  BY <1>1 DEF SameTally, Tally

OneMore(degree, s) == [degree EXCEPT ![s] = @ + 1]

LEMMA ArcInsertedLinks ==
  ASSUME NEW entries, NEW degree, WellLinked(entries, degree),
         NEW s \in Node, NEW t \in Node, s # t,
         NEW new, new = ArcInserted(entries, degree, s, t),
         NEW more, more = OneMore(degree, s)
  PROVE  /\ WellLinked(new, more)
         /\ CopiesAdded(new, entries, s, t, 1)
<1> DEFINE d == degree[s] + 1
           last == Len(entries[s]) + 1
           end == Len(entries[t]) + 1
           passive == [first |-> s, second |-> d]
           active == [first |-> t, second |-> end]
           one == WithLast(entries, t, passive)
           both == WithLast(one, s, active)
<1>1. /\ ListsOK(entries, degree) /\ LinkedBut(entries, degree, {})
      /\ entries \in [Node -> Seq(Entry)] /\ degree \in [Node -> Nat]
      /\ degree[s] <= Len(entries[s]) /\ degree[t] <= Len(entries[t])
  BY DEF WellLinked, ListsOK
<1>2. d \in Nat \ {0} /\ last \in Nat \ {0} /\ end \in Nat \ {0} /\ d <= last
  BY <1>1
<1>3. /\ passive \in Entry /\ passive.first = s /\ passive.second = d
      /\ active \in Entry /\ active.first = t /\ active.second = end
  BY <1>2 DEF Entry
<1>4. new = IF d = last THEN both ELSE SwapRelinked(both, s, last, d)
  <2>1. one[t] = Append(entries[t], passive) /\ one[s] = entries[s] /\ Len(one[t]) = end
    BY <1>1, <1>3 DEF WithLast
  <2>2. Len(both[s]) = last
    BY <1>1, <1>3, <2>1 DEF WithLast
  <2> DEFINE sameBoth == WithLast(one, s, [first |-> t, second |-> Len(one[t])])
  <2>3. sameBoth = both
    BY <2>1
  <2>4. new = IF d = Len(sameBoth[s]) THEN sameBoth
              ELSE SwapRelinked(sameBoth, s, Len(sameBoth[s]), d)
    BY DEF ArcInserted, WithLast
  <2> HIDE DEF sameBoth, both, d, last
  <2>5. QED
    BY <2>2, <2>3, <2>4
<1> HIDE DEF passive, active, d
<1>5. AfterAppend(one, entries, degree, {}, t, end, passive)
  BY <1>1, <1>3, Appended
<1> HIDE DEF one, end
<1>6. ListsOK(one, degree) /\ Len(one[s]) + 1 = last
  BY <1>1, <1>5 DEF AfterAppend, ListsOK, end
<1>7. AfterAppend(both, one, degree, {} \cup {<<t, end>>}, s, last, active)
  <2>1. LinkedBut(one, degree, {} \cup {<<t, end>>}) /\ Len(entries[s]) + 1 = last
    BY <1>5 DEF AfterAppend
  <2> HIDE DEF last
  <2>2. QED
    BY <1>3, <1>6, <2>1, Appended
<1> HIDE DEF both, last
<1>8. /\ ListsOK(both, degree) /\ LinkedBut(both, degree, {<<t, end>>, <<s, last>>})
      /\ Len(both[s]) = last /\ Len(both[t]) = end
      /\ both[s][last] = active /\ both[t][end] = passive
      /\ \A w \in Node : degree[w] <= Len(both[w])
  <2>1. ListsOK(both, degree) /\ \A w \in Node : degree[w] <= Len(both[w])
    BY <1>6, <1>7 DEF AfterAppend, ListsOK
  <2>2. LinkedBut(both, degree, {<<t, end>>, <<s, last>>})
    <3>1. {} \cup {<<t, end>>} \cup {<<s, last>>} = {<<t, end>>, <<s, last>>}
      OBVIOUS
    <3>2. QED
      BY <1>7, <3>1 DEF AfterAppend
  <2>3. Len(both[s]) = last /\ Len(both[t]) = end
    BY <1>5, <1>7 DEF AfterAppend
  <2>4. both[s][last] = active /\ both[t][end] = passive
    <3>1. both[s][last] = active /\ both[t][end] = one[t][end]
      <4>1. end \in 1..Len(one[t])
        BY <1>2, <1>5 DEF AfterAppend
      <4>2. QED
        BY <1>7, <4>1 DEF AfterAppend
    <3>2. one[t][end] = passive
      BY <1>5 DEF AfterAppend
    <3>3. QED
      BY <3>1, <3>2
  <2>5. QED
    BY <2>1, <2>2, <2>3, <2>4
<1>9. SameTally(both, {<<t, end>>, <<s, last>>}, entries, {})
  <2>1. SameTally(one, {} \cup {<<t, end>>}, entries, {})
    BY <1>1, <1>5, AppendedTally DEF end
  <2>2. SameTally(both, {} \cup {<<t, end>>} \cup {<<s, last>>}, one, {} \cup {<<t, end>>})
    BY <1>6, <1>7, AppendedTally DEF ListsOK
  <2>3. {} \cup {<<t, end>>} \cup {<<s, last>>} = {<<t, end>>, <<s, last>>}
    OBVIOUS
  <2>4. QED
    BY ONLY <2>1, <2>2, <2>3 DEF SameTally
<1> DEFINE loose == {<<t, end>>, <<s, d>>}
<1>10. /\ ListsOK(new, degree) /\ LinkedBut(new, degree, loose)
       /\ d \in 1..Len(new[s]) /\ end \in 1..Len(new[t])
       /\ new[s][d] = active /\ new[t][end] = passive
       /\ SameTally(new, loose, entries, {})
  <2>1. CASE d = last
    BY <1>2, <1>4, <1>8, <1>9, <2>1
  <2>2. CASE d # last
    <3> DEFINE before == {<<t, end>>, <<s, last>>}
    <3>1. /\ last \in 1..Len(both[s]) /\ d \in 1..Len(both[s])
          /\ <<s, last>> \in before /\ <<s, d>> \notin before
          /\ last <= degree[s] <=> d <= degree[s]
      BY <1>1, <1>2, <1>8, <2>2 DEF d
    <3>2. (before \ {<<s, last>>}) \cup {<<s, d>>} = loose /\ <<t, end>> \in before
      OBVIOUS
    <3>3. ListsOK(both, degree) /\ LinkedBut(both, degree, before)
      BY <1>8
    <3> HIDE DEF before
    <3>4. /\ AfterMove(SwapRelinked(both, s, last, d), both, degree, before, s, last, d)
          /\ SwapRelinked(both, s, last, d)[s][d] = both[s][last]
          /\ \A w \in Node \ {s} : \A p \in 1..Len(both[w]) :
               <<w, p>> \in before => SwapRelinked(both, s, last, d)[w][p] = both[w][p]
      BY <3>1, <3>3, SwapMoves
    <3>5. AfterMove(new, both, degree, before, s, last, d) /\ new[s][d] = active
      BY <1>4, <1>8, <2>2, <3>4
    <3>6. new[t][end] = passive
      BY <1>2, <1>4, <1>8, <2>2, <3>2, <3>4
    <3>7. /\ ListsOK(new, degree) /\ LinkedBut(new, degree, loose)
          /\ SameTally(new, loose, both, before) /\ SameLengths(new, both)
      BY <3>2, <3>5 DEF AfterMove
    <3>8. SameTally(new, loose, entries, {})
      <4>1. SameTally(both, before, entries, {}) /\ SameTally(new, loose, both, before)
        BY <1>9, <3>7 DEF before
      <4>2. QED
        BY ONLY <4>1 DEF SameTally
    <3>9. d \in 1..Len(new[s]) /\ end \in 1..Len(new[t])
      BY <1>2, <1>8, <3>7 DEF SameLengths
    <3>10. QED
      BY <3>5, <3>6, <3>7, <3>8, <3>9
  <2>3. QED
    BY <2>1, <2>2
<1>11. more \in [Node -> Nat] /\ more[s] = d /\ \A w \in Node \ {s} : more[w] = degree[w]
  BY <1>1 DEF d, OneMore
<1>12. ListsOK(new, more)
  <2>1. ASSUME NEW w \in Node
        PROVE  more[w] <= Len(new[w])
    <3>1. CASE w = s
      BY <1>2, <1>10, <1>11, <3>1
    <3>2. CASE w # s
      BY <1>10, <1>11, <3>2 DEF ListsOK
    <3>3. QED
      BY <3>1, <3>2
  <2>2. QED
    BY <1>10, <1>11, <2>1 DEF ListsOK
<1>13. LinkedBut(new, more, loose)
  <2>1. ASSUME NEW w \in Node, NEW p \in 1..Len(new[w]), <<w, p>> \notin loose
        PROVE  p <= more[w] <=> p <= degree[w]
    <3>1. CASE w = s
      <4>1. p # d
        BY <2>1, <3>1
      <4>2. QED
        BY <1>1, <1>11, <3>1, <4>1 DEF d
    <3>2. CASE w # s
      BY <1>11, <3>2
    <3>3. QED
      BY <3>1, <3>2
  <2> HIDE DEF loose
  <2>2. QED
    BY <1>10, <1>11, <2>1, BorderMoved
<1>14. LinkedBut(new, more, {})
  <2>1. d <= more[s] <=> end > more[t]
    BY <1>1, <1>2, <1>11 DEF end
  <2>2. new[s][d].first = t /\ new[s][d].second = end
    BY <1>3, <1>10
  <2>3. new[t][end].first = s /\ new[t][end].second = d
    BY <1>3, <1>10
  <2>4. LinkedBut(new, more, {<<s, d>>, <<t, end>>})
    <3>1. {<<s, d>>, <<t, end>>} = loose
      OBVIOUS
    <3>2. QED
      BY <1>13, <3>1
  <2>5. more[s] \in Int /\ more[t] \in Int /\ d \in Int /\ end \in Int
    BY <1>2, <1>11
  <2>6. d \in 1..Len(new[s]) /\ end \in 1..Len(new[t])
    BY <1>10
  <2>7. s \in Node /\ t \in Node /\ s # t
    OBVIOUS
  <2>8. QED
    BY ONLY <2>1, <2>2, <2>3, <2>4, <2>5, <2>6, <2>7, Tied
<1>15. FewerTally(new, loose, s, t)
  <2>1. new[s][d].first = t /\ new[t][end].first = s
    BY <1>3, <1>10
  <2>2. FewerTally(new, {<<s, d>>, <<t, end>>}, s, t)
    BY <1>10, <2>1, LoosenedTally DEF ListsOK
  <2>3. {<<s, d>>, <<t, end>>} = loose
    OBVIOUS
  <2>4. QED
    BY <2>2, <2>3
<1> HIDE DEF loose
<1>16. ASSUME NEW w \in Node, NEW x \in Node
       PROVE  Tally(new, loose, w, x) = Multiplicity(entries, w, x)
  <2>1. SameTally(new, loose, entries, {})
    BY <1>10
  <2>2. Tally(new, loose, w, x) = Tally(entries, {}, w, x)
    BY <2>1 DEF SameTally
  <2>3. Multiplicity(entries, w, x) = Tally(entries, {}, w, x)
    BY <1>1, TallyIsMultiplicity
  <2>4. QED
    BY <2>2, <2>3
<1>17. ASSUME NEW w \in Node, NEW x \in Node
       PROVE  /\ Tally(new, {}, w, x) = Multiplicity(new, w, x)
              /\ Multiplicity(new, w, x) \in Nat
  <2>1. new \in [Node -> Seq(Entry)]
    BY <1>10 DEF ListsOK
  <2>2. Tally(new, {}, w, x) = Multiplicity(new, w, x)
    BY <2>1, TallyIsMultiplicity
  <2>3. Tally(new, {}, w, x) \in Nat
    BY <2>1, EntriesForFinite, FS_CardinalityType DEF Tally
  <2>4. QED
    BY <2>2, <2>3
<1>18. ASSUME NEW w \in Node, NEW x \in Node, {w, x} # {s, t}
       PROVE  Multiplicity(new, w, x) = Multiplicity(entries, w, x)
  BY <1>15, <1>16, <1>17, <1>18 DEF FewerTally
<1>19. /\ Multiplicity(new, s, t) = Multiplicity(entries, s, t) + 1
       /\ Multiplicity(new, t, s) = Multiplicity(entries, t, s) + 1
  BY <1>15, <1>16, <1>17 DEF FewerTally
<1>20. QED
  BY <1>12, <1>14, <1>18, <1>19 DEF WellLinked, CopiesAdded

(****************************************************************************)
(* The flip of an active entry.                                             *)
(****************************************************************************)
SameCopies(new, entries) ==
  \A w, x \in Node : Multiplicity(new, w, x) = Multiplicity(entries, w, x)

\* What the active entries name when the one at position e of u has become passive.
FlippedNames(new, entries, degree, u, e, v) ==
  /\ new[v][degree[v] + 1].first = u
  /\ \A p \in 1..degree[u] - 1 :
       new[u][p].first = IF p = e THEN entries[u][degree[u]].first ELSE entries[u][p].first

LEMMA ActiveFlippedLinks ==
  ASSUME NEW entries, NEW degree, WellLinked(entries, degree),
         NEW u \in Node, NEW e \in 1..degree[u],
         NEW v, v = entries[u][e].first, NEW m, m = entries[u][e].second,
         NEW new, new = ActiveFlipped(entries, degree, u, e),
         NEW turned, turned = DegreeFlipped(degree, u, v)
  PROVE  /\ v \in Node /\ v # u
         /\ WellLinked(new, turned)
         /\ SameCopies(new, entries)
         /\ SameLengths(new, entries)
         /\ SameFirsts(new, entries, {<<u, e>>, <<u, degree[u]>>, <<v, m>>, <<v, degree[v] + 1>>})
         /\ FlippedNames(new, entries, degree, u, e, v)
         /\ m > degree[v]
<1> DEFINE a == degree[u]
           f == degree[v] + 1
           one == CopyRelinked(entries, u, e, a)
           two == CopyRelinked(one, v, m, f)
           passive == [first |-> u, second |-> a]
           active == [first |-> v, second |-> f]
           three == WithEntry(two, v, f, passive)
           loose0 == {<<u, e>>, <<v, m>>}
           loose1 == {<<u, a>>, <<v, m>>}
           loose2 == {<<u, a>>, <<v, f>>}
<1>1. /\ ListsOK(entries, degree) /\ LinkedBut(entries, degree, {})
      /\ entries \in [Node -> Seq(Entry)] /\ degree \in [Node -> Nat]
      /\ degree[u] <= Len(entries[u]) /\ e \in 1..Len(entries[u]) /\ a \in 1..Len(entries[u])
  BY DEF WellLinked, ListsOK
<1>2. LinkedAt(entries, degree, {}, u, e)
  BY <1>1 DEF LinkedBut
<1>3. /\ v \in Node /\ v # u /\ m \in 1..Len(entries[v]) /\ entries[v][m].first = u
      /\ m > degree[v] /\ f \in 1..Len(entries[v])
  <2>1. v \in Node /\ v # u /\ m \in 1..Len(entries[v]) /\ entries[v][m].first = u
    BY <1>2 DEF LinkedAt
  <2>2. m > degree[v]
    BY <1>2 DEF LinkedAt
  <2>3. degree[v] \in Nat /\ m \in Nat /\ Len(entries[v]) \in Nat
    BY <1>1, <2>1
  <2>4. QED
    BY <2>1, <2>2, <2>3
<1>4. new = WithEntry(three, u, a, active)
  <2>1. one = IF e = a THEN [entries EXCEPT ![u][e] = entries[u][a]]
              ELSE Relinked([entries EXCEPT ![u][e] = entries[u][a]], u, e)
    BY DEF CopyRelinked, CopiedOver
  <2>2. two = IF m = f THEN [one EXCEPT ![v][m] = one[v][f]]
              ELSE Relinked([one EXCEPT ![v][m] = one[v][f]], v, m)
    BY DEF CopyRelinked, CopiedOver
  <2>3. new = [two EXCEPT ![v][f] = passive, ![u][a] = active]
    <3> DEFINE x == entries[u][e].first
               y == entries[u][e].second
               uDone == IF e = degree[u] THEN [entries EXCEPT ![u][e] = entries[u][degree[u]]]
                        ELSE Relinked([entries EXCEPT ![u][e] = entries[u][degree[u]]], u, e)
               vDone == IF y = degree[x] + 1 THEN [uDone EXCEPT ![x][y] = uDone[x][degree[x] + 1]]
                        ELSE Relinked([uDone EXCEPT ![x][y] = uDone[x][degree[x] + 1]], x, y)
    <3>1. new = [vDone EXCEPT ![x][degree[x] + 1] = [first |-> u, second |-> degree[u]],
                              ![u][degree[u]] = [first |-> x, second |-> degree[x] + 1]]
      BY DEF ActiveFlipped
    <3>2. x = v /\ y = m
      OBVIOUS
    <3>3. one = uDone
      BY <2>1
    <3> HIDE DEF one, two, uDone, x, y
    <3>4. two = vDone
      BY <2>2, <3>2, <3>3
    <3> HIDE DEF vDone
    <3>5. QED
      BY <3>1, <3>2, <3>4
  <2>4. [two EXCEPT ![v][f] = passive, ![u][a] = active] = WithEntry(three, u, a, active)
    <3> HIDE DEF two, passive, active, a, f
    <3>1. QED
      BY <1>3 DEF WithEntry
  <2>5. QED
    BY <2>3, <2>4
<1>5. LinkedBut(entries, degree, loose0)
  <2>1. LinkedBut(entries, degree, {} \cup {<<u, e>>, <<v, m>>})
    BY <1>1, Loosened
  <2>2. QED
    BY <2>1
<1> HIDE DEF a
<1>5a. one[u][e].first = entries[u][a].first
  <2>1. NameCopied(one, entries, u, e, a)
    BY <1>1, <1>3, CopiedNames
  <2>2. QED
    BY <2>1 DEF NameCopied
<1> USE DEF a
<1>6. AfterMove(one, entries, degree, loose0, u, e, a)
  <2>1. <<u, e>> \in loose0 /\ (e # a => <<u, a>> \notin loose0)
    BY <1>3
  <2>2. e <= degree[u] <=> a <= degree[u]
    BY <1>1
  <2> HIDE DEF loose0, a
  <2>3. QED
    BY <1>1, <1>5, <2>1, <2>2, CopyMoves
<1> HIDE DEF one
<1>7. /\ ListsOK(one, degree) /\ LinkedBut(one, degree, loose1)
      /\ SameTally(one, loose1, entries, loose0) /\ SameLengths(one, entries)
      /\ SameFirsts(one, entries, {<<u, e>>, <<u, a>>})
  <2>1. (loose0 \ {<<u, e>>}) \cup {<<u, a>>} = loose1
    BY <1>3
  <2>2. QED
    BY <1>6, <2>1 DEF AfterMove
<1>8. AfterMove(two, one, degree, loose1, v, m, f)
  <2>1. <<v, m>> \in loose1 /\ (m # f => <<v, f>> \notin loose1)
    BY <1>3
  <2>2. m <= degree[v] <=> f <= degree[v]
    BY <1>1, <1>3
  <2>3. m \in 1..Len(one[v]) /\ f \in 1..Len(one[v])
    BY <1>3, <1>7 DEF SameLengths
  <2> HIDE DEF loose1, f
  <2>4. QED
    BY <1>3, <1>7, <2>1, <2>2, <2>3, CopyMoves
<1> HIDE DEF two
<1>9. /\ ListsOK(two, degree) /\ LinkedBut(two, degree, loose2)
      /\ SameTally(two, loose2, one, loose1) /\ SameLengths(two, one)
      /\ SameFirsts(two, one, {<<v, m>>, <<v, f>>})
  <2>1. (loose1 \ {<<v, m>>}) \cup {<<v, f>>} = loose2
    BY <1>3
  <2>2. QED
    BY <1>8, <2>1 DEF AfterMove
<1>10. /\ two \in [Node -> Seq(Entry)] /\ a \in 1..Len(two[u]) /\ f \in 1..Len(two[v])
       /\ a \in Nat \ {0} /\ f \in Nat \ {0}
  BY <1>1, <1>3, <1>7, <1>9 DEF SameLengths, ListsOK
<1>11. /\ passive \in Entry /\ passive.first = u /\ passive.second = a
       /\ active \in Entry /\ active.first = v /\ active.second = f
  BY <1>3, <1>10 DEF Entry
<1> HIDE DEF passive, active
<1>12. SameBut(three, two, {<<v, f>>}) /\ three[v][f] = passive
  BY <1>3, <1>10, <1>11, Written
<1> HIDE DEF three
<1>13. three \in [Node -> Seq(Entry)] /\ a \in 1..Len(three[u])
  BY <1>10, <1>12 DEF SameBut
<1>14. SameBut(new, three, {<<u, a>>}) /\ new[u][a] = active
  <2>1. active \in Entry /\ u \in Node
    BY <1>11
  <2> HIDE DEF a
  <2>2. QED
    BY ONLY <1>4, <1>13, <2>1, Written
<1>15. new[v][f] = passive
  BY <1>3, <1>10, <1>12, <1>14 DEF SameBut
<1>16. SameBut(new, two, loose2)
  <2>1. new \in [Node -> Seq(Entry)] /\ \A w \in Node : Len(new[w]) = Len(two[w])
    BY <1>12, <1>14 DEF SameBut
  <2>2. ASSUME NEW w \in Node, NEW p \in 1..Len(two[w]), <<w, p>> \notin loose2
        PROVE  new[w][p] = two[w][p]
    <3>1. p \in 1..Len(three[w]) /\ three[w][p] = two[w][p]
      BY <1>12, <2>2 DEF SameBut
    <3>2. QED
      BY <1>14, <2>2, <3>1 DEF SameBut
  <2>3. QED
    BY <2>1, <2>2 DEF SameBut
<1> HIDE DEF loose0, loose1, loose2
<1>17. LinkedBut(new, degree, loose2) /\ ListsOK(new, degree) /\ SameLengths(new, two)
  <2>1. LinkedBut(new, degree, loose2)
    BY <1>9, <1>16, Overwritten
  <2>2. QED
    BY <1>9, <1>16, <2>1 DEF ListsOK, SameBut, SameLengths
<1>18. /\ turned \in [Node -> Nat] /\ turned[u] = a - 1 /\ turned[v] = f
       /\ \A w \in Node \ {u, v} : turned[w] = degree[w]
  <2>1. degree[u] \in Nat /\ degree[u] >= 1 /\ degree[v] \in Nat
    BY <1>1, <1>3
  <2>2. turned[u] = a - 1 /\ turned[v] = f /\ \A w \in Node \ {u, v} : turned[w] = degree[w]
    BY <1>1, <1>3 DEF DegreeFlipped
  <2>3. ASSUME NEW w \in Node PROVE turned[w] \in Nat
    <3>1. CASE w = u
      BY <2>1, <2>2, <3>1
    <3>2. CASE w = v
      BY <2>1, <2>2, <3>2
    <3>3. CASE w \notin {u, v}
      BY <1>1, <2>2, <3>3
    <3>4. QED
      BY <3>1, <3>2, <3>3
  <2>4. turned = [w \in Node |-> turned[w]]
    BY <1>1 DEF DegreeFlipped
  <2>5. QED
    BY <2>2, <2>3, <2>4
<1>19. SameLengths(new, entries)
  BY <1>7, <1>9, <1>17 DEF SameLengths
<1>20. ListsOK(new, turned)
  <2>1. \A w \in Node : turned[w] <= Len(new[w])
    <3>1. a - 1 <= Len(entries[u]) /\ f <= Len(entries[v])
      BY <1>1, <1>3
    <3>2. \A w \in Node : degree[w] <= Len(entries[w]) /\ Len(new[w]) = Len(entries[w])
      BY <1>1, <1>19 DEF ListsOK, SameLengths
    <3> HIDE DEF a, f
    <3>3. QED
      BY <1>3, <1>18, <3>1, <3>2
  <2>2. QED
    BY <1>17, <1>18, <2>1 DEF ListsOK
<1>21. LinkedBut(new, turned, loose2)
  <2>1. ASSUME NEW w \in Node, NEW p \in 1..Len(new[w]), <<w, p>> \notin loose2
        PROVE  p <= turned[w] <=> p <= degree[w]
    <3>1. CASE w = u
      <4>1. p # a
        BY <2>1, <3>1 DEF loose2
      <4>2. QED
        BY <1>1, <1>18, <3>1, <4>1
    <3>2. CASE w = v
      <4>1. p # f
        BY <2>1, <3>2 DEF loose2
      <4>2. QED
        BY <1>1, <1>3, <1>18, <3>2, <4>1
    <3>3. CASE w \notin {u, v}
      BY <1>18, <3>3
    <3>4. QED
      BY <3>1, <3>2, <3>3
  <2>2. QED
    BY <1>17, <1>18, <2>1, BorderMoved
<1>22. /\ new[u][a].first = v /\ new[u][a].second = f
       /\ new[v][f].first = u /\ new[v][f].second = a
       /\ a \in 1..Len(new[u]) /\ f \in 1..Len(new[v])
  BY <1>1, <1>3, <1>11, <1>14, <1>15, <1>19 DEF SameLengths
<1>23. LinkedBut(new, turned, {})
  <2>1. a <= turned[u] <=> f > turned[v]
    BY <1>1, <1>3, <1>18
  <2>2. LinkedBut(new, turned, {<<u, a>>, <<v, f>>})
    BY <1>21 DEF loose2
  <2>3. turned[u] \in Int /\ turned[v] \in Int /\ a \in Int /\ f \in Int
    BY <1>3, <1>10, <1>18
  <2>4. u \in Node /\ v \in Node /\ u # v
    BY <1>3
  <2> HIDE DEF a, f
  <2>5. QED
    BY ONLY <1>22, <2>1, <2>2, <2>3, <2>4, Tied
<1>24. ASSUME NEW w \in Node, NEW x \in Node
       PROVE  Multiplicity(new, w, x) = Multiplicity(entries, w, x)
  <2>1. SameTally(new, loose2, two, loose2)
    <3>1. \A y, z \in Node : EntriesFor(new, loose2, y, z) = EntriesFor(two, loose2, y, z)
      BY <1>16 DEF EntriesFor, SameBut
    <3>2. QED
      BY <3>1 DEF SameTally, Tally
  <2>2. Tally(new, loose2, w, x) = Tally(entries, loose0, w, x)
    <3>1. SameTally(two, loose2, one, loose1) /\ SameTally(one, loose1, entries, loose0)
      BY <1>7, <1>9
    <3>2. QED
      BY ONLY <2>1, <3>1, w \in Node, x \in Node DEF SameTally
  <2>3. FewerTally(entries, loose0, u, v)
    BY <1>1, <1>3, LoosenedTally DEF loose0
  <2>4. new \in [Node -> Seq(Entry)]
    BY <1>17 DEF ListsOK
  <2>5. FewerTally(new, loose2, u, v)
    <3> HIDE DEF a, f
    <3>1. QED
      BY <1>3, <1>22, <2>4, LoosenedTally DEF loose2
  <2>6. Tally(new, {}, w, x) \in Nat /\ Tally(entries, {}, w, x) \in Nat
    BY <1>1, <2>4, EntriesForFinite, FS_CardinalityType DEF Tally
  <2>7. Tally(new, {}, w, x) = Tally(entries, {}, w, x)
    <3>1. CASE {w, x} # {u, v}
      BY <2>2, <2>3, <2>5, <3>1 DEF FewerTally
    <3>2. CASE {w, x} = {u, v}
      <4>1. (w = u /\ x = v) \/ (w = v /\ x = u)
        BY <1>3, <3>2
      <4>2. QED
        BY <2>2, <2>3, <2>5, <2>6, <4>1 DEF FewerTally
    <3>3. QED
      BY <3>1, <3>2
  <2>8. QED
    BY <1>1, <2>4, <2>7, TallyIsMultiplicity
<1>25. SameFirsts(new, entries, {<<u, e>>, <<u, degree[u]>>, <<v, m>>, <<v, degree[v] + 1>>})
  <2> SUFFICES ASSUME NEW w \in Node, NEW p \in 1..Len(entries[w]),
                      <<w, p>> \notin {<<u, e>>, <<u, a>>, <<v, m>>, <<v, f>>}
               PROVE  new[w][p].first = entries[w][p].first
    BY DEF SameFirsts
  <2>1. p \in 1..Len(one[w]) /\ p \in 1..Len(two[w])
    BY <1>7, <1>9 DEF SameLengths
  <2>2. one[w][p].first = entries[w][p].first
    BY <1>7 DEF SameFirsts
  <2>3. two[w][p].first = one[w][p].first
    BY <1>9, <2>1 DEF SameFirsts
  <2>4. new[w][p] = two[w][p]
    BY <1>16, <2>1 DEF SameBut, loose2
  <2>5. QED
    BY <2>2, <2>3, <2>4
<1>26. ASSUME NEW p \in 1..a - 1
       PROVE  new[u][p].first = IF p = e THEN entries[u][a].first ELSE entries[u][p].first
  <2>1. p # a /\ p \in 1..Len(entries[u]) /\ p \in Nat
    BY <1>1
  <2>2. CASE p = e
    <3>1. new[u][e] = two[u][e]
      <4>1. <<u, e>> \notin loose2 /\ e \in 1..Len(two[u])
        BY <1>1, <1>3, <1>7, <1>9, <2>1, <2>2 DEF SameLengths, loose2
      <4>2. QED
        BY <1>16, <4>1 DEF SameBut
    <3>2. two[u][e].first = one[u][e].first
      <4>1. <<u, e>> \notin {<<v, m>>, <<v, f>>} /\ e \in 1..Len(one[u])
        BY <1>1, <1>3, <1>7 DEF SameLengths
      <4>2. QED
        BY <1>9, <4>1 DEF SameFirsts
    <3>3. QED
      BY <1>5a, <2>2, <3>1, <3>2
  <2>3. CASE p # e
    <3>1. <<u, p>> \notin {<<u, e>>, <<u, degree[u]>>, <<v, m>>, <<v, degree[v] + 1>>}
      BY <1>3, <2>1, <2>3
    <3>2. QED
      BY <1>25, <2>1, <2>3, <3>1 DEF SameFirsts
  <2>4. QED
    BY <2>2, <2>3
<1>27. FlippedNames(new, entries, degree, u, e, v)
  BY <1>22, <1>26 DEF FlippedNames
<1>28. QED
  BY <1>3, <1>19, <1>20, <1>23, <1>24, <1>25, <1>27 DEF WellLinked, SameCopies

(****************************************************************************)
(* What the updates make of well-linked lists that hold this many copies of *)
(* each edge.                                                               *)
(****************************************************************************)
Matched(entries, copies) ==
  \A u, v \in Node : Multiplicity(entries, u, v) = IF u = v THEN 0 ELSE copies[{u, v}]

\* Before the first update.
LEMMA NoListsMatched ==
  WellLinked(NoLists, [v \in Node |-> 0]) /\ Matched(NoLists, [e \in Edge |-> 0])
<1>1. WellLinked(NoLists, [v \in Node |-> 0])
  BY DEF WellLinked, NoLists, ListsOK, LinkedBut
<1>2. ASSUME NEW u \in Node, NEW v \in Node
      PROVE  Multiplicity(NoLists, u, v) = 0
  <2>1. {i \in DOMAIN NoLists[u] : NoLists[u][i].first = v} = {}
    BY DEF NoLists
  <2>2. QED
    BY <2>1, FS_EmptySet DEF Multiplicity
<1>3. \A u, v \in Node : u # v => [e \in Edge |-> 0][{u, v}] = 0
  BY DEF Edge
<1>4. QED
  BY <1>1, <1>2, <1>3 DEF Matched

LEMMA Recounted ==
  ASSUME NEW entries, NEW new, NEW copies \in [Edge -> Nat], NEW after, Matched(entries, copies),
         NEW s \in Node, NEW t \in Node, s # t,
         NEW more \in Int, copies[{s, t}] + more >= 0,
         after = [copies EXCEPT ![{s, t}] = copies[{s, t}] + more],
         CopiesAdded(new, entries, s, t, more)
  PROVE  Matched(new, after) /\ after \in [Edge -> Nat]
<1> DEFINE n == copies[{s, t}] + more
<1>1. {s, t} \in Edge /\ {t, s} = {s, t}
  BY DEF Edge
<1>2. n \in Nat /\ after = [copies EXCEPT ![{s, t}] = n]
  BY <1>1
<1>3. Multiplicity(entries, s, t) = copies[{s, t}] /\ Multiplicity(entries, t, s) = copies[{s, t}]
  BY <1>1 DEF Matched
<1>4. Multiplicity(new, s, t) = n /\ Multiplicity(new, t, s) = n
  BY <1>3 DEF CopiesAdded
<1> HIDE DEF n
<1>5. ASSUME NEW w \in Node, NEW x \in Node
      PROVE  Multiplicity(new, w, x) = IF w = x THEN 0 ELSE after[{w, x}]
  <2>1. CASE w = x
    <3>1. {w, x} # {s, t}
      <4>1. ~(s \in {w, x} /\ t \in {w, x})
        BY <2>1
      <4>2. QED
        BY <4>1
    <3>2. QED
      BY <2>1, <3>1 DEF Matched, CopiesAdded
  <2>2. CASE w # x /\ {w, x} # {s, t}
    <3>1. {w, x} \in Edge
      BY <2>2 DEF Edge
    <3>2. after[{w, x}] = copies[{w, x}]
      BY <1>2, <2>2, <3>1
    <3>3. QED
      BY <2>2, <3>2 DEF Matched, CopiesAdded
  <2>3. CASE w # x /\ {w, x} = {s, t}
    <3>1. (w = s /\ x = t) \/ (w = t /\ x = s)
      BY <2>3
    <3>2. after[{w, x}] = n
      BY <1>1, <1>2, <2>3
    <3>3. QED
      BY <1>4, <2>3, <3>1, <3>2
  <2>4. QED
    BY <2>1, <2>2, <2>3
<1>6. Matched(new, after)
  BY <1>5 DEF Matched
<1>7. QED
  BY <1>1, <1>2, <1>6

LEMMA FirstEntryExists ==
  ASSUME NEW entries \in [Node -> Seq(Entry)], NEW u \in Node, NEW v,
         Multiplicity(entries, u, v) # 0
  PROVE  /\ FirstEntry(entries, u, v) \in 1..Len(entries[u])
         /\ entries[u][FirstEntry(entries, u, v)].first = v
<1> DEFINE places == {i \in DOMAIN entries[u] : entries[u][i].first = v}
<1>1. DOMAIN entries[u] = 1..Len(entries[u])
  OBVIOUS
<1>2. places # {} /\ places \in SUBSET Nat
  <2>1. Multiplicity(entries, u, v) = Cardinality(places)
    BY DEF Multiplicity
  <2>2. places \in SUBSET Nat
    BY <1>1
  <2> HIDE DEF places
  <2>3. QED
    BY <2>1, <2>2, FS_EmptySet
<1>3. PICK i \in places : \A j \in places : i <= j
  <2> HIDE DEF places
  <2>1. QED
    BY <1>2, LeastNatural
<1>4. \A j \in 1..i - 1 : entries[u][j].first # v
  BY <1>1, <1>3
<1>5. \E k \in DOMAIN entries[u] : /\ entries[u][k].first = v
                                 /\ \A j \in 1..k - 1 : entries[u][j].first # v
  BY <1>3, <1>4
<1>6. QED
  BY <1>1, <1>5 DEF FirstEntry

(****************************************************************************)
(* An update leaves the lists well linked and matching the graph.           *)
(****************************************************************************)
LEMMA ListsInserted ==
  ASSUME WellLinked(m_adj, m_out_degree), NEW copies, NEW after,
         copies \in [Edge -> Nat], Matched(m_adj, copies),
         NEW s \in Node, NEW t \in Node, s # t,
         m_adj' = ArcInserted(m_adj, m_out_degree, s, t),
         m_out_degree' = [m_out_degree EXCEPT ![s] = @ + 1],
         after = [copies EXCEPT ![{s, t}] = @ + 1]
  PROVE  WellLinked(m_adj', m_out_degree') /\ Matched(m_adj', after) /\ after \in [Edge -> Nat]
<1>1. PICK entries : entries = m_adj
  OBVIOUS
<1>2. PICK degree : degree = m_out_degree
  OBVIOUS
<1>3. PICK new : new = ArcInserted(entries, degree, s, t)
  OBVIOUS
<1>4. PICK more : more = OneMore(degree, s)
  OBVIOUS
<1>5. WellLinked(entries, degree) /\ Matched(entries, copies)
  BY <1>1, <1>2
<1>6. WellLinked(new, more) /\ CopiesAdded(new, entries, s, t, 1)
  BY ONLY <1>3, <1>4, <1>5, s \in Node, t \in Node, s # t, ArcInsertedLinks
<1>7. {s, t} \in Edge
  BY DEF Edge
<1>8. copies[{s, t}] + 1 >= 0 /\ 1 \in Int
  BY <1>7
<1>9. after = [copies EXCEPT ![{s, t}] = copies[{s, t}] + 1]
  OBVIOUS
<1>10. Matched(new, after) /\ after \in [Edge -> Nat]
  BY ONLY copies \in [Edge -> Nat], s \in Node, t \in Node, s # t,
          <1>5, <1>6, <1>8, <1>9, Recounted
<1>11. m_adj' = new /\ m_out_degree' = more
  BY <1>1, <1>2, <1>3, <1>4 DEF OneMore
<1>12. QED
  BY <1>6, <1>10, <1>11

LEMMA ListsDeleted ==
  ASSUME WellLinked(m_adj, m_out_degree), NEW copies, NEW after,
         copies \in [Edge -> Nat], Matched(m_adj, copies),
         NEW source \in Node, NEW target \in Node, source # target, copies[{source, target}] > 0,
         NEW one, one = EntryRemoved(m_adj, m_out_degree, source,
                                     FirstEntry(m_adj, source, target)),
         NEW d1, d1 = DegreeAfter(m_out_degree, source, FirstEntry(m_adj, source, target)),
         NEW k, k = m_adj[source][FirstEntry(m_adj, source, target)].second,
         m_adj' = EntryRemoved(one, d1, target, k),
         m_out_degree' = DegreeAfter(d1, target, k),
         after = [copies EXCEPT ![{source, target}] = @ - 1]
  PROVE  WellLinked(m_adj', m_out_degree') /\ Matched(m_adj', after) /\ after \in [Edge -> Nat]
<1>1. PICK entries : entries = m_adj
  OBVIOUS
<1>2. PICK degree : degree = m_out_degree
  OBVIOUS
<1>3. PICK i : i = FirstEntry(entries, source, target)
  OBVIOUS
<1>4. PICK new : new = EntryRemoved(one, d1, target, k)
  OBVIOUS
<1>5. PICK d2 : d2 = DegreeAfter(d1, target, k)
  OBVIOUS
<1>6. WellLinked(entries, degree) /\ Matched(entries, copies)
  BY <1>1, <1>2
<1>7. /\ one = EntryRemoved(entries, degree, source, i)
      /\ d1 = DegreeAfter(degree, source, i)
      /\ k = entries[source][i].second
  BY <1>1, <1>2, <1>3
<1>8. {source, target} \in Edge /\ entries \in [Node -> Seq(Entry)]
  BY <1>6 DEF Edge, WellLinked, ListsOK
<1>9. copies[{source, target}] \in Nat /\ Multiplicity(entries, source, target) # 0
  BY <1>6, <1>8 DEF Matched
<1>10. i \in 1..Len(entries[source]) /\ target = entries[source][i].first
  BY <1>3, <1>8, <1>9, FirstEntryExists
<1>11. WellLinked(new, d2) /\ CopiesAdded(new, entries, source, target, -1)
  BY ONLY source \in Node, <1>4, <1>5, <1>6, <1>7, <1>10, EdgeDeleted
<1>12. /\ after = [copies EXCEPT ![{source, target}] = copies[{source, target}] + -1]
       /\ copies[{source, target}] + -1 >= 0 /\ -1 \in Int
  <2>1. copies[{source, target}] - 1 = copies[{source, target}] + -1
    BY <1>9
  <2>2. after = [copies EXCEPT ![{source, target}] = copies[{source, target}] + -1]
    BY <2>1
  <2>3. copies[{source, target}] + -1 >= 0 /\ -1 \in Int
    BY <1>9
  <2>4. QED
    BY <2>2, <2>3
<1>13. Matched(new, after) /\ after \in [Edge -> Nat]
  BY ONLY copies \in [Edge -> Nat], source \in Node, target \in Node, source # target,
          <1>6, <1>11, <1>12, Recounted
<1>14. m_adj' = new /\ m_out_degree' = d2
  BY <1>4, <1>5
<1>15. QED
  BY <1>11, <1>13, <1>14

\* Well-linked lists pass the check of the properties.
LEMMA LinkedThroughout ==
  ASSUME NEW entries, NEW degree, WellLinked(entries, degree)
  PROVE  MirrorsAgree(entries) /\ OneSideActive(entries, degree)
<1>1. LinkedBut(entries, degree, {}) /\ entries \in [Node -> Seq(Entry)]
  BY DEF WellLinked, ListsOK
<1>2. ASSUME NEW u \in Node, NEW i \in DOMAIN entries[u]
      PROVE  LET entry == entries[u][i]
             IN  /\ entry.second \in DOMAIN entries[entry.first]
                 /\ entries[entry.first][entry.second] = [first |-> u, second |-> i]
                 /\ i <= degree[u] <=> entry.second > degree[entry.first]
  <2> DEFINE v == entries[u][i].first
             k == entries[u][i].second
  <2>1. i \in 1..Len(entries[u])
    BY <1>1
  <2>2. LinkedAt(entries, degree, {}, u, i)
    BY <1>1, <2>1 DEF LinkedBut
  <2>3. /\ v \in Node /\ k \in 1..Len(entries[v])
        /\ entries[v][k].first = u /\ entries[v][k].second = i
        /\ i <= degree[u] <=> k > degree[v]
    BY <2>2 DEF LinkedAt
  <2> HIDE DEF v, k
  <2>4. entries[v][k] \in Entry
    BY <1>1, <2>3, EntryFields
  <2>5. entries[v][k] = [first |-> u, second |-> i]
    BY <2>3, <2>4 DEF Entry
  <2>6. k \in DOMAIN entries[v]
    BY <1>1, <2>3
  <2>7. QED
    BY <2>3, <2>5, <2>6 DEF v, k
<1>3. QED
  BY <1>2 DEF MirrorsAgree, OneSideActive

(****************************************************************************)
(* The search, the walk back and the path of PathFlips.                     *)
(****************************************************************************)
\* The step names an entry of the side that the search goes through.
StepValid(u, offset, v) ==
  /\ u \in Node /\ offset \in 1..Len(m_adj[u])
  /\ m_adj[u][offset].first = v
  /\ offset <= m_out_degree[u] <=> direction = "forward"

\* Each of these nodes is a source, or was found over a valid entry of one of them that
\* was found before it.
Tree(nodes, rank) ==
  /\ rank \in [nodes -> Nat]
  /\ \A v \in nodes :
       \/ m_parent[v][1] = v
       \/ /\ m_parent[v][1] \in nodes
          /\ rank[m_parent[v][1]] < rank[v]
          /\ StepValid(m_parent[v][1], m_parent[v][2], v)

\* The steps collected so far lie above the node to which the walk back has come.
WalkedDown(nodes, rank) ==
  /\ curNode \in nodes
  /\ \A k \in 1..Len(path) : path[k][1] \in nodes /\ rank[path[k][1]] >= rank[curNode]

\* The path can be flipped: its steps are valid and lie in the lists of different nodes.
PathValid ==
  /\ path \in Seq(Node \X Nat \X Node)
  /\ \A k \in 1..Len(path) : StepValid(path[k][1], path[k][2], path[k][3])
  /\ \A k, l \in 1..Len(path) : k # l => path[k][1] # path[l][1]

LEMMA StepValidKept ==
  ASSUME NEW u, NEW i, NEW v, StepValid(u, i, v), UNCHANGED lists, UNCHANGED direction
  PROVE  StepValid(u, i, v)'
BY DEF StepValid, lists

\* A search finds nodes over entries of one that it has found.
LEMMA TreeGrows ==
  ASSUME NEW nodes \in SUBSET Node, NEW rank, Tree(nodes, rank), NEW node \in nodes,
         NEW found \in SUBSET Node, found \cap nodes = {},
         UNCHANGED lists, UNCHANGED direction,
         \A v \in nodes : m_parent'[v] = m_parent[v],
         \A v \in found : m_parent'[v][1] = node /\ StepValid(node, m_parent'[v][2], v)
  PROVE  \E later : Tree(nodes \cup found, later)'
<1> PICK later :
      later = [v \in nodes \cup found |-> IF v \in nodes THEN rank[v] ELSE rank[node] + 1]
  OBVIOUS
<1>1. rank \in [nodes -> Nat]
  BY DEF Tree
<1>2. later \in [nodes \cup found -> Nat]
  BY <1>1
<1>3. ASSUME NEW v \in nodes \cup found
      PROVE  \/ m_parent'[v][1] = v
             \/ /\ m_parent'[v][1] \in nodes \cup found
                /\ later[m_parent'[v][1]] < later[v]
                /\ StepValid(m_parent[v][1], m_parent[v][2], v)'
  <2>1. CASE v \in nodes
    <3>1. m_parent'[v] = m_parent[v]
      BY <2>1
    <3>2. \/ m_parent[v][1] = v
          \/ /\ m_parent[v][1] \in nodes
             /\ rank[m_parent[v][1]] < rank[v]
             /\ StepValid(m_parent[v][1], m_parent[v][2], v)
      BY <2>1 DEF Tree
    <3>3. CASE m_parent[v][1] = v
      BY <3>1, <3>3
    <3>4. CASE /\ m_parent[v][1] \in nodes
               /\ rank[m_parent[v][1]] < rank[v]
               /\ StepValid(m_parent[v][1], m_parent[v][2], v)
      <4>1. StepValid(m_parent[v][1], m_parent[v][2], v)'
        BY <3>1, <3>4, StepValidKept
      <4>2. m_parent'[v][1] \in nodes /\ later[m_parent'[v][1]] < later[v]
        BY <2>1, <3>1, <3>4
      <4>3. QED
        BY <4>1, <4>2
    <3>5. QED
      BY <3>2, <3>3, <3>4
  <2>2. CASE v \notin nodes
    <3>1. m_parent'[v][1] = node /\ StepValid(node, m_parent'[v][2], v)
      BY <2>2
    <3>2. StepValid(m_parent[v][1], m_parent[v][2], v)'
      BY <3>1, StepValidKept
    <3>3. later[node] < later[v]
      <4>1. later[node] = rank[node] /\ later[v] = rank[node] + 1 /\ rank[node] \in Nat
        BY <1>1, <2>2
      <4>2. QED
        BY <4>1
    <3>4. QED
      BY <3>1, <3>2, <3>3
  <2>3. QED
    BY <2>1, <2>2
<1>4. QED
  BY <1>2, <1>3 DEF Tree

LEMMA TreeKept ==
  ASSUME NEW nodes, NEW rank, Tree(nodes, rank),
         UNCHANGED lists, UNCHANGED direction, UNCHANGED m_parent
  PROVE  Tree(nodes, rank)'
BY StepValidKept DEF Tree

LEMMA PathKept ==
  ASSUME PathValid, UNCHANGED lists, UNCHANGED direction, UNCHANGED path
  PROVE  PathValid'
BY StepValidKept DEF PathValid

\* The step has come into the path at this place.
PathInserted(n, step) ==
  /\ path' \in Seq(Node \X Nat \X Node) /\ Len(path') = Len(path) + 1
  /\ path'[n] = step
  /\ \A k \in 1..n - 1 : path'[k] = path[k]
  /\ \A k \in n + 1..Len(path) + 1 : path'[k] = path[k - 1]

LEMMA PathExtended ==
  ASSUME PathValid, NEW step \in Node \X Nat \X Node,
         StepValid(step[1], step[2], step[3]),
         \A k \in 1..Len(path) : path[k][1] # step[1],
         path' = <<step>> \o path \/ path' = Append(path, step),
         UNCHANGED lists, UNCHANGED direction
  PROVE  /\ PathValid' /\ Len(path') = Len(path) + 1
         /\ \A k \in 1..Len(path') : \/ path'[k] = step
                                     \/ \E l \in 1..Len(path) : path'[k] = path[l]
<1>1. path \in Seq(Node \X Nat \X Node) /\ Len(path) \in Nat
  BY DEF PathValid
<1>2. PathInserted(1, step) \/ PathInserted(Len(path) + 1, step)
  <2>1. CASE path' = <<step>> \o path
    <3>1. /\ path' \in Seq(Node \X Nat \X Node) /\ Len(path') = Len(path) + 1
          /\ path'[1] = step
          /\ \A k \in 2..Len(path) + 1 : path'[k] = path[k - 1]
      BY <1>1, <2>1
    <3>2. \A k \in 1 + 1..Len(path) + 1 : path'[k] = path[k - 1]
      BY <3>1
    <3>3. \A k \in 1..1 - 1 : path'[k] = path[k]
      OBVIOUS
    <3>4. QED
      BY <3>1, <3>2, <3>3 DEF PathInserted
  <2>2. CASE path' = Append(path, step)
    <3>1. /\ path' \in Seq(Node \X Nat \X Node) /\ Len(path') = Len(path) + 1
          /\ path'[Len(path) + 1] = step
          /\ \A k \in 1..Len(path) : path'[k] = path[k]
      BY <1>1, <2>2
    <3>2. \A k \in 1..Len(path) + 1 - 1 : path'[k] = path[k]
      BY <1>1, <3>1
    <3>3. \A k \in Len(path) + 1 + 1..Len(path) + 1 : path'[k] = path[k - 1]
      BY <1>1
    <3>4. QED
      BY <3>1, <3>2, <3>3 DEF PathInserted
  <2>3. QED
    BY <2>1, <2>2
<1>3. PICK n \in 1..Len(path) + 1 : PathInserted(n, step)
  <2>1. 1 \in 1..Len(path) + 1 /\ Len(path) + 1 \in 1..Len(path) + 1
    BY <1>1
  <2>2. QED
    BY <1>2, <2>1
<1> DEFINE old(k) == IF k < n THEN k ELSE k - 1
<1>4. ASSUME NEW k \in 1..Len(path'), k # n
      PROVE  old(k) \in 1..Len(path) /\ path'[k] = path[old(k)]
  <2>1. /\ Len(path') = Len(path) + 1 /\ k \in Nat /\ n \in Nat
        /\ \A j \in 1..n - 1 : path'[j] = path[j]
        /\ \A j \in n + 1..Len(path) + 1 : path'[j] = path[j - 1]
    BY <1>1, <1>3 DEF PathInserted
  <2>2. CASE k < n
    <3>1. k \in 1..n - 1 /\ k \in 1..Len(path) /\ old(k) = k
      BY <1>1, <2>1, <2>2
    <3>2. QED
      BY <2>1, <3>1
  <2>3. CASE ~(k < n)
    <3>1. k \in n + 1..Len(path) + 1 /\ k - 1 \in 1..Len(path) /\ old(k) = k - 1
      BY <1>1, <1>4, <2>1, <2>3
    <3>2. QED
      BY <2>1, <3>1
  <2>4. QED
    BY <2>2, <2>3
<1>5. /\ path' \in Seq(Node \X Nat \X Node) /\ Len(path') = Len(path) + 1
      /\ path'[n] = step
  BY <1>3 DEF PathInserted
<1>6. \A k \in 1..Len(path') : StepValid(path'[k][1], path'[k][2], path'[k][3])
  BY <1>5, <1>4 DEF PathValid
<1>7. \A k \in 1..Len(path') : StepValid(path[k][1], path[k][2], path[k][3])'
  BY <1>6, StepValidKept
<1>8. ASSUME NEW k \in 1..Len(path'), NEW l \in 1..Len(path'), k # l
      PROVE  path'[k][1] # path'[l][1]
  <2>1. CASE k = n
    BY <1>4, <1>5, <1>8, <2>1
  <2>2. CASE l = n
    BY <1>4, <1>5, <1>8, <2>2
  <2>3. CASE k # n /\ l # n
    <3>1. k \in Nat /\ l \in Nat /\ n \in Nat
      BY <1>1, <1>5
    <3>2. old(k) # old(l)
      BY ONLY <1>8, <2>3, <3>1
    <3>3. /\ old(k) \in 1..Len(path) /\ path'[k] = path[old(k)]
          /\ old(l) \in 1..Len(path) /\ path'[l] = path[old(l)]
      BY <1>4, <2>3
    <3> HIDE DEF old
    <3>4. QED
      BY <3>2, <3>3 DEF PathValid
  <2>4. QED
    BY <2>1, <2>2, <2>3
<1>9. QED
  BY <1>4, <1>5, <1>7, <1>8 DEF PathValid

LEMMA WalkBackKeeps ==
  ASSUME m_adj \in [Node -> Seq(Entry)], PathValid, walkBack,
         NEW nodes \in SUBSET Node, NEW rank, Tree(nodes, rank), WalkedDown(nodes, rank)
  PROVE  /\ PathValid' /\ pc' \in {"trace", "flip"}
         /\ Tree(nodes, rank)' /\ (pc' = "trace" => WalkedDown(nodes, rank)')
<1> DEFINE parent == m_parent[curNode]
           step == <<parent[1], parent[2], curNode>>
<1>1. /\ UNCHANGED lists /\ UNCHANGED direction /\ UNCHANGED m_parent
      /\ IF parent[1] = curNode
           THEN pc' = "flip" /\ UNCHANGED path
           ELSE /\ path' = <<step>> \o path \/ path' = Append(path, step)
                /\ curNode' = parent[1] /\ pc' = "trace"
  BY DEF walkBack
<1>2. Tree(nodes, rank)'
  BY <1>1, TreeKept
<1>3. CASE parent[1] = curNode
  <2>1. PathValid'
    BY <1>1, <1>3, PathKept
  <2>2. QED
    BY <1>1, <1>2, <1>3, <2>1
<1>4. CASE parent[1] # curNode
  <2>1. /\ path' = <<step>> \o path \/ path' = Append(path, step)
        /\ curNode' = parent[1] /\ pc' = "trace"
    BY <1>1, <1>4
  <2>2. /\ rank \in [nodes -> Nat] /\ curNode \in nodes
        /\ parent[1] \in nodes /\ rank[parent[1]] < rank[curNode]
        /\ StepValid(parent[1], parent[2], curNode)
    BY <1>4 DEF Tree, WalkedDown
  <2>3. \A k \in 1..Len(path) : path[k][1] \in nodes /\ rank[path[k][1]] >= rank[curNode]
    BY DEF WalkedDown
  <2>4. parent[1] \in Node /\ parent[2] \in Nat /\ curNode \in Node
    BY <2>2 DEF StepValid
  <2> HIDE DEF parent
  <2>5. /\ step \in Node \X Nat \X Node /\ step[1] = parent[1]
        /\ StepValid(step[1], step[2], step[3])
    BY <2>2, <2>4
  <2> HIDE DEF step
  <2>6. \A k \in 1..Len(path) : path[k][1] # step[1]
    BY <2>2, <2>3, <2>5
  <2>7. /\ PathValid' /\ Len(path') = Len(path) + 1
        /\ \A k \in 1..Len(path') : \/ path'[k] = step
                                    \/ \E l \in 1..Len(path) : path'[k] = path[l]
    BY <1>1, <2>1, <2>5, <2>6, PathExtended
  <2>8. WalkedDown(nodes, rank)'
    <3>1. ASSUME NEW k \in 1..Len(path')
          PROVE  path'[k][1] \in nodes /\ rank[path'[k][1]] >= rank[parent[1]]
      <4>1. CASE path'[k] = step
        BY <2>2, <2>5, <4>1
      <4>2. CASE \E l \in 1..Len(path) : path'[k] = path[l]
        BY <2>2, <2>3, <4>2
      <4>3. QED
        BY <2>7, <4>1, <4>2
    <3>2. QED
      BY <2>1, <2>2, <3>1 DEF WalkedDown
  <2>9. QED
    BY <1>2, <2>1, <2>7, <2>8
<1>5. QED
  BY <1>3, <1>4

(****************************************************************************)
(* The flips.  The entry of u at position e goes to the other side of the   *)
(* border; no other entry leaves its place on the side of the search, but   *)
(* for entries of the node whose step it is.                                *)
(****************************************************************************)
LEMMA FlipKeepsSteps ==
  ASSUME WellLinked(m_adj, m_out_degree), UNCHANGED direction,
         NEW u \in Node, NEW e \in 1..m_out_degree[u],
         NEW v, v = m_adj[u][e].first, NEW m, m = m_adj[u][e].second,
         m_adj' = ActiveFlipped(m_adj, m_out_degree, u, e),
         m_out_degree' = DegreeFlipped(m_out_degree, u, v),
         NEW w, NEW p, NEW x, StepValid(w, p, x),
         w # IF direction = "forward" THEN u ELSE v
  PROVE  StepValid(w, p, x)'
<1>1. /\ v \in Node /\ v # u /\ m > m_out_degree[v] /\ SameLengths(m_adj', m_adj)
      /\ SameFirsts(m_adj', m_adj, {<<u, e>>, <<u, m_out_degree[u]>>,
                                    <<v, m>>, <<v, m_out_degree[v] + 1>>})
  BY ActiveFlippedLinks
<1>2. /\ w \in Node /\ p \in 1..Len(m_adj[w]) /\ m_adj[w][p].first = x
      /\ p <= m_out_degree[w] <=> direction = "forward"
  BY DEF StepValid
<1>3. /\ m_adj \in [Node -> Seq(Entry)] /\ m_out_degree \in [Node -> Nat]
      /\ p \in Nat /\ m_out_degree[u] \in Nat /\ m_out_degree[v] \in Nat
      /\ m \in Nat
  <2>1. m_adj \in [Node -> Seq(Entry)] /\ m_out_degree \in [Node -> Nat]
    BY DEF WellLinked, ListsOK
  <2>2. e \in 1..Len(m_adj[u])
    BY <2>1 DEF WellLinked, ListsOK
  <2>3. m \in Nat
    BY <2>1, <2>2, EntryFields
  <2>4. Len(m_adj[w]) \in Nat /\ p \in Nat
    BY <1>2, <2>1
  <2>5. QED
    BY <1>1, <2>1, <2>3, <2>4
<1>4. ~(w = u /\ p = e) /\ ~(w = u /\ p = m_out_degree[u])
  BY <1>1, <1>2, <1>3
<1>5. ~(w = v /\ p = m) /\ ~(w = v /\ p = m_out_degree[v] + 1)
  BY <1>1, <1>2, <1>3
<1>6. m_adj'[w][p].first = x
  BY <1>1, <1>2, <1>4, <1>5 DEF SameFirsts
<1>7. /\ m_out_degree'[u] = m_out_degree[u] - 1 /\ m_out_degree'[v] = m_out_degree[v] + 1
      /\ \A y \in Node \ {u, v} : m_out_degree'[y] = m_out_degree[y]
  BY <1>1, <1>3 DEF DegreeFlipped
<1>8. p <= m_out_degree'[w] <=> direction = "forward"
  <2>1. CASE w = u
    BY <1>2, <1>3, <1>7, <2>1
  <2>2. CASE w = v
    BY <1>2, <1>3, <1>7, <2>2
  <2>3. CASE w \notin {u, v}
    BY <1>2, <1>7, <2>3
  <2>4. QED
    BY <2>1, <2>2, <2>3
<1>9. QED
  BY <1>1, <1>2, <1>6, <1>8 DEF StepValid, SameLengths

LEMMA FlipNextKeeps ==
  ASSUME WellLinked(m_adj, m_out_degree), PathValid, flipNext
  PROVE  WellLinked(m_adj', m_out_degree') /\ SameCopies(m_adj', m_adj) /\ PathValid'
<1> DEFINE u == Head(path)[1]
           offset == Head(path)[2]
           passive == m_adj[u][offset]
           tail == IF direction = "forward" THEN u ELSE passive.first
           entry == IF direction = "forward" THEN offset ELSE passive.second
           v == m_adj[tail][entry].first
<1>1. /\ path # <<>> /\ path' = Tail(path)
      /\ m_adj' = ActiveFlipped(m_adj, m_out_degree, tail, entry)
      /\ m_out_degree' = DegreeFlipped(m_out_degree, tail, v)
      /\ UNCHANGED direction
  BY DEF flipNext
<1>2. WellLinked(m_adj, m_out_degree) /\ PathValid
  OBVIOUS
<1>3. path \in Seq(Node \X Nat \X Node) /\ 1 \in 1..Len(path) /\ Head(path) = path[1]
  <2>1. path \in Seq(Node \X Nat \X Node) /\ path # <<>>
    BY <1>1, <1>2 DEF PathValid
  <2> HIDE DEF u, offset, tail, entry
  <2>2. QED
    BY <2>1
<1>4. StepValid(u, offset, path[1][3])
  BY <1>2, <1>3 DEF PathValid
<1> HIDE DEF u, offset
<1>5. /\ u \in Node /\ offset \in 1..Len(m_adj[u])
      /\ offset <= m_out_degree[u] <=> direction = "forward"
  BY <1>4 DEF StepValid
<1>6. /\ m_adj \in [Node -> Seq(Entry)] /\ m_out_degree \in [Node -> Nat]
      /\ LinkedBut(m_adj, m_out_degree, {})
  BY <1>2 DEF WellLinked, ListsOK
<1>7. /\ tail \in Node /\ entry \in 1..m_out_degree[tail]
      /\ u = IF direction = "forward" THEN tail ELSE v
  <2>1. CASE direction = "forward"
    <3>1. tail = u /\ entry = offset /\ m_out_degree[u] \in Nat /\ offset \in Nat /\ offset >= 1
      BY <1>5, <1>6, <2>1
    <3>2. QED
      BY <1>5, <2>1, <3>1
  <2>2. CASE direction # "forward"
    <3>1. tail = passive.first /\ entry = passive.second
      BY <2>2
    <3>2. LinkedAt(m_adj, m_out_degree, {}, u, offset)
      BY <1>5, <1>6 DEF LinkedBut
    <3>3. /\ tail \in Node /\ entry \in 1..Len(m_adj[tail])
          /\ m_adj[tail][entry].first = u
          /\ offset <= m_out_degree[u] <=> entry > m_out_degree[tail]
      BY <3>1, <3>2 DEF LinkedAt
    <3>4. entry <= m_out_degree[tail] /\ m_out_degree[tail] \in Nat
      BY <1>5, <1>6, <2>2, <3>3
    <3>5. QED
      BY <2>2, <3>3, <3>4
  <2>3. QED
    BY <2>1, <2>2
<1> HIDE DEF tail, entry
<1>8. WellLinked(m_adj', m_out_degree') /\ SameCopies(m_adj', m_adj)
  BY <1>1, <1>2, <1>7, ActiveFlippedLinks
<1>11. /\ path' \in Seq(Node \X Nat \X Node) /\ Len(path') = Len(path) - 1
       /\ \A k \in 1..Len(path') : k + 1 \in 2..Len(path) /\ path'[k] = path[k + 1]
  BY <1>1, <1>3
<1>12. ASSUME NEW k \in 1..Len(path')
       PROVE  StepValid(path[k][1], path[k][2], path[k][3])'
  <2>1. k + 1 \in 1..Len(path) /\ k + 1 # 1 /\ path'[k] = path[k + 1]
    BY <1>3, <1>11
  <2>2. StepValid(path'[k][1], path'[k][2], path'[k][3])
    BY <1>2, <2>1 DEF PathValid
  <2>3. path'[k][1] # u
    BY <1>2, <1>3, <2>1 DEF PathValid, u
  <2>4. path'[k][1] # IF direction = "forward" THEN tail ELSE v
    BY <1>7, <2>3
  <2>5. QED
    BY <1>1, <1>2, <1>7, <2>2, <2>4, FlipKeepsSteps
<1>13. \A k, l \in 1..Len(path') : k # l => path'[k][1] # path'[l][1]
  <2>1. ASSUME NEW k \in 1..Len(path'), NEW l \in 1..Len(path'), k # l
        PROVE  path'[k][1] # path'[l][1]
    <3>1. k + 1 \in 2..Len(path) /\ path'[k] = path[k + 1]
      BY <1>11, <2>1
    <3>2. l + 1 \in 2..Len(path) /\ path'[l] = path[l + 1]
      BY <1>11, <2>1
    <3>3. Len(path) \in Nat
      BY <1>2 DEF PathValid
    <3>4. k + 1 \in 1..Len(path) /\ l + 1 \in 1..Len(path) /\ k + 1 # l + 1
      BY <2>1, <3>1, <3>2, <3>3
    <3>5. QED
      BY <1>2, <3>1, <3>2, <3>4 DEF PathValid
  <2>2. QED
    BY <2>1
<1>14. PathValid'
  BY <1>11, <1>12, <1>13 DEF PathValid
<1>15. QED
  BY <1>8, <1>14

\* Between the flips the recorded positions name the entries that were meant.
LEMMA ValidPathStays ==
  ASSUME m_adj \in [Node -> Seq(Entry)], PathValid
  PROVE  PathStaysValid
<1>1. DOMAIN path = 1..Len(path)
  BY DEF PathValid
<1>2. ASSUME NEW k \in 1..Len(path)
      PROVE  /\ path[k][2] \in DOMAIN m_adj[path[k][1]]
             /\ m_adj[path[k][1]][path[k][2]].first = path[k][3]
             /\ path[k][2] <= m_out_degree[path[k][1]] <=> direction = "forward"
  BY DEF PathValid, StepValid
<1>3. QED
  BY <1>1, <1>2 DEF PathStaysValid

(****************************************************************************)
(* How many arcs lead from one node to another: an operation moves active   *)
(* entries around, but only one of them comes, goes or is turned.           *)
(****************************************************************************)
ActiveFor(entries, degree, u, v) == {i \in 1..degree[u] : entries[u][i].first = v}

ArcCounts(entries, degree) ==
  [u \in Node |-> [v \in Node |-> Cardinality(ActiveFor(entries, degree, u, v))]]

\* The entries at two places have been exchanged.
NamesTraded(new, entries, u, i, j) ==
  /\ new \in [Node -> Seq(Entry)] /\ SameLengths(new, entries)
  /\ SameFirsts(new, entries, {<<u, i>>, <<u, j>>})
  /\ new[u][i].first = entries[u][j].first
  /\ new[u][j].first = entries[u][i].first

LEMMA SwappedNames ==
  ASSUME NEW entries \in [Node -> Seq(Entry)], NEW u \in Node,
         NEW i \in 1..Len(entries[u]), NEW j \in 1..Len(entries[u]),
         NEW new, new = SwapRelinked(entries, u, i, j)
  PROVE  NamesTraded(new, entries, u, i, j)
<1> DEFINE list == Swapped(entries[u], i, j)
           mid == [entries EXCEPT ![u] = list]
<1>1. /\ list \in Seq(Entry) /\ Len(list) = Len(entries[u])
      /\ list[i] = entries[u][j] /\ list[j] = entries[u][i]
      /\ \A p \in 1..Len(entries[u]) : p # i /\ p # j => list[p] = entries[u][p]
  <2>1. entries[u] \in Seq(Entry) /\ entries[u][j] \in Entry /\ entries[u][i] \in Entry
    BY EntryFields
  <2>2. QED
    BY <2>1 DEF Swapped
<1> HIDE DEF list
<1>2. /\ mid \in [Node -> Seq(Entry)] /\ mid[u] = list
      /\ \A w \in Node \ {u} : mid[w] = entries[w]
  BY <1>1
<1>3. new = Relinked(mid, u, i)
  BY DEF SwapRelinked, list
<1> HIDE DEF mid
<1>4. SameNames(new, mid)
  BY <1>1, <1>2, <1>3, RelinkedNames
<1>5. SameLengths(new, entries)
  BY <1>1, <1>2, <1>4 DEF SameNames, SameLengths
<1>6. ASSUME NEW w \in Node, NEW p \in 1..Len(entries[w])
      PROVE  new[w][p].first = mid[w][p].first
  <2>1. p \in 1..Len(mid[w])
    BY <1>1, <1>2
  <2>2. QED
    BY <1>4, <2>1 DEF SameNames, SameFirsts
<1>7. new[u][i].first = entries[u][j].first /\ new[u][j].first = entries[u][i].first
  BY <1>1, <1>2, <1>6
<1>8. SameFirsts(new, entries, {<<u, i>>, <<u, j>>})
  BY <1>1, <1>2, <1>6 DEF SameFirsts
<1>9. QED
  BY <1>4, <1>5, <1>7, <1>8 DEF SameNames, NamesTraded

LEMMA ActiveForFinite ==
  ASSUME NEW entries, NEW degree \in [Node -> Nat], NEW u \in Node, NEW v
  PROVE  /\ IsFiniteSet(ActiveFor(entries, degree, u, v))
         /\ Cardinality(ActiveFor(entries, degree, u, v)) \in Nat
<1>1. IsFiniteSet(1..degree[u]) /\ ActiveFor(entries, degree, u, v) \subseteq 1..degree[u]
  BY FS_Interval DEF ActiveFor
<1>2. QED
  BY <1>1, FS_Subset, FS_CardinalityType

LEMMA ArcCountsType ==
  ASSUME NEW entries, NEW degree \in [Node -> Nat]
  PROVE  ArcCounts(entries, degree) \in [Node -> [Node -> Nat]]
BY ActiveForFinite DEF ArcCounts

LEMMA ArcCount ==
  ASSUME NEW entries, NEW degree, NEW u \in Node, NEW v \in Node
  PROVE  ArcCounts(entries, degree)[u][v] = Cardinality(ActiveFor(entries, degree, u, v))
BY DEF ArcCounts

\* There is an arc if there is an active entry.
LEMMA ArcExists ==
  ASSUME NEW entries, NEW degree \in [Node -> Nat], NEW u \in Node, NEW v \in Node
  PROVE  ArcCounts(entries, degree)[u][v] > 0 <=> \E i \in 1..degree[u] : entries[u][i].first = v
<1>1. ActiveFor(entries, degree, u, v) # {} <=> \E i \in 1..degree[u] : entries[u][i].first = v
  BY DEF ActiveFor
<1>2. QED
  BY <1>1, ArcCount, ActiveForFinite, FS_EmptySet

\* The places among the first n that hold x.
Holding(f, n, x) == {p \in 1..n : f[p] = x}

\* The last of n places is given up, and what it holds goes to another one.
LEMMA PlacesMoved ==
  ASSUME NEW n \in Nat \ {0}, NEW e \in 1..n, NEW old, NEW new, NEW x,
         \A p \in 1..n - 1 : new[p] = IF p = e THEN old[n] ELSE old[p]
  PROVE  Cardinality(Holding(new, n - 1, x))
           = Cardinality(Holding(old, n, x)) - (IF old[e] = x THEN 1 ELSE 0)
<1> DEFINE A == {p \in 1..n : old[p] = x}
           B == {p \in 1..n - 1 : new[p] = x}
           C == A \ {e, n}
<1>1. IsFiniteSet(A) /\ IsFiniteSet(C) /\ Cardinality(C) \in Nat /\ Cardinality(A) \in Nat
  <2>1. IsFiniteSet(1..n) /\ A \subseteq 1..n /\ C \subseteq 1..n
    BY FS_Interval
  <2> HIDE DEF A, C
  <2>2. QED
    BY <2>1, FS_Subset, FS_CardinalityType
<1>2. CASE e = n
  <2>1. B = A \ {e}
    BY <1>2
  <2>2. e \in A <=> old[e] = x
    OBVIOUS
  <2>3. e \notin A => A \ {e} = A
    OBVIOUS
  <2> HIDE DEF A, B, C
  <2>4. Cardinality(A \ {e}) = IF e \in A THEN Cardinality(A) - 1 ELSE Cardinality(A)
    BY <1>1, <2>3, FS_RemoveElement
  <2>5. Cardinality(B) = Cardinality(A) - (IF old[e] = x THEN 1 ELSE 0)
    BY <1>1, <2>1, <2>2, <2>4
  <2>6. QED
    BY <2>5 DEF A, B, Holding
<1>3. CASE e # n
  <2>1. B = C \cup (IF old[n] = x THEN {e} ELSE {})
    <3>1. ASSUME NEW p \in B PROVE p \in C \cup (IF old[n] = x THEN {e} ELSE {})
      BY <1>3
    <3>2. ASSUME NEW p \in C \cup (IF old[n] = x THEN {e} ELSE {}) PROVE p \in B
      BY <1>3
    <3>3. QED
      BY <3>1, <3>2
  <2>2. A = C \cup (IF old[n] = x THEN {n} ELSE {}) \cup (IF old[e] = x THEN {e} ELSE {})
    OBVIOUS
  <2>3. e \notin C /\ n \notin C
    OBVIOUS
  <2> HIDE DEF A, B, C
  <2>4. Cardinality(B) = Cardinality(C) + (IF old[n] = x THEN 1 ELSE 0)
    <3>1. CASE old[n] = x
      <4>1. B = C \cup {e}
        BY <2>1, <3>1
      <4>2. QED
        BY <1>1, <2>3, <3>1, <4>1, FS_AddElement
    <3>2. CASE old[n] # x
      <4>1. B = C
        BY <2>1, <3>2
      <4>2. QED
        BY <1>1, <3>2, <4>1
    <3>3. QED
      BY <3>1, <3>2
  <2> DEFINE D == C \cup (IF old[n] = x THEN {n} ELSE {})
  <2>5. IsFiniteSet(D) /\ Cardinality(D) = Cardinality(C) + (IF old[n] = x THEN 1 ELSE 0)
    <3>1. CASE old[n] = x
      <4>1. D = C \cup {n}
        BY <3>1
      <4>2. QED
        BY <1>1, <2>3, <3>1, <4>1, FS_AddElement
    <3>2. CASE old[n] # x
      <4>1. D = C
        BY <3>2
      <4>2. QED
        BY <1>1, <3>2, <4>1
    <3>3. QED
      BY <3>1, <3>2
  <2>6. e \notin D
    BY <1>3, <2>3
  <2>7. A = D \cup (IF old[e] = x THEN {e} ELSE {})
    BY <2>2
  <2> HIDE DEF D
  <2>8. Cardinality(A) = Cardinality(D) + (IF old[e] = x THEN 1 ELSE 0)
    <3>1. CASE old[e] = x
      <4>1. A = D \cup {e}
        BY <2>7, <3>1
      <4>2. QED
        BY <2>5, <2>6, <3>1, <4>1, FS_AddElement
    <3>2. CASE old[e] # x
      <4>1. A = D
        BY <2>7, <3>2
      <4>2. Cardinality(A) = Cardinality(D)
        BY <4>1
      <4>3. QED
        BY <1>1, <3>2, <4>2
    <3>3. QED
      BY <3>1, <3>2
  <2>9. Cardinality(B) = Cardinality(A) - (IF old[e] = x THEN 1 ELSE 0)
    BY <1>1, <2>4, <2>5, <2>8
  <2>10. QED
    BY <2>9 DEF A, B, Holding
<1>4. QED
  BY <1>2, <1>3

\* One more place is filled.
LEMMA PlaceFilled ==
  ASSUME NEW n \in Nat, NEW old, NEW new, NEW x,
         \A p \in 1..n : new[p] = old[p]
  PROVE  Cardinality(Holding(new, n + 1, x))
           = Cardinality(Holding(old, n, x)) + (IF new[n + 1] = x THEN 1 ELSE 0)
<1> DEFINE A == {p \in 1..n : old[p] = x}
           B == {p \in 1..n + 1 : new[p] = x}
<1>1. IsFiniteSet(A) /\ Cardinality(A) \in Nat
  <2>1. IsFiniteSet(1..n) /\ A \subseteq 1..n
    BY FS_Interval
  <2> HIDE DEF A
  <2>2. QED
    BY <2>1, FS_Subset, FS_CardinalityType
<1>2. n + 1 \notin A
  OBVIOUS
<1>3. B = A \cup (IF new[n + 1] = x THEN {n + 1} ELSE {})
  OBVIOUS
<1> HIDE DEF A, B, Holding
<1>4. CASE new[n + 1] = x
  <2>1. B = A \cup {n + 1}
    BY <1>3, <1>4
  <2>2. Cardinality(B) = Cardinality(A) + 1
    BY <1>1, <1>2, <2>1, FS_AddElement
  <2>3. QED
    BY <1>4, <2>2 DEF A, B, Holding
<1>5. CASE new[n + 1] # x
  <2>1. B = A
    BY <1>3, <1>5
  <2>2. Cardinality(B) = Cardinality(A) + 0
    BY <1>1, <2>1
  <2>3. QED
    BY <1>5, <2>2 DEF A, B, Holding
<1>6. QED
  BY <1>4, <1>5

\* One arc more leads from s to t.
ArcMore(new, old, s, t) ==
  \A x, y \in Node : new[x][y] = old[x][y] + (IF x = s /\ y = t THEN 1 ELSE 0)

\* The arcs that leave u are the same, or there is one more, to v.
SameRow(new, old, u) == \A y \in Node : new[u][y] = old[u][y]

RowMore(new, old, u, v) == \A y \in Node : new[u][y] = old[u][y] + (IF y = v THEN 1 ELSE 0)

SameArcs(new, old) == \A x, y \in Node : new[x][y] = old[x][y]

\* The first n entries of u name the same neighbours in both lists.
SameActive(new, entries, n, u) == \A p \in 1..n : new[u][p].first = entries[u][p].first

LEMMA SameActiveCounts ==
  ASSUME NEW entries, NEW new, NEW degree, NEW after, NEW u \in Node,
         after[u] = degree[u], SameActive(new, entries, degree[u], u)
  PROVE  SameRow(ArcCounts(new, after), ArcCounts(entries, degree), u)
<1> SUFFICES ASSUME NEW y \in Node
             PROVE  ArcCounts(new, after)[u][y] = ArcCounts(entries, degree)[u][y]
  BY DEF SameRow
<1>1. ActiveFor(new, after, u, y) = ActiveFor(entries, degree, u, y)
  BY DEF ActiveFor, SameActive
<1>2. QED
  BY <1>1, ArcCount

\* An active entry of u is filled in behind the others.
LEMMA EntryActivated ==
  ASSUME NEW entries, NEW new, NEW degree \in [Node -> Nat], NEW after, NEW u \in Node, NEW v,
         NEW n \in Nat, degree[u] = n, NEW m, m = n + 1, after[u] = m,
         SameActive(new, entries, n, u), new[u][m].first = v
  PROVE  RowMore(ArcCounts(new, after), ArcCounts(entries, degree), u, v)
<1> SUFFICES ASSUME NEW y \in Node
             PROVE  ArcCounts(new, after)[u][y]
                      = ArcCounts(entries, degree)[u][y] + (IF y = v THEN 1 ELSE 0)
  BY DEF RowMore
<1> DEFINE f == [p \in 1..n |-> entries[u][p].first]
           g == [p \in 1..n + 1 |-> new[u][p].first]
<1>1. \A p \in 1..n : g[p] = f[p]
  BY DEF SameActive
<1>2. /\ ActiveFor(new, after, u, y) = Holding(g, n + 1, y)
      /\ ActiveFor(entries, degree, u, y) = Holding(f, n, y)
      /\ g[n + 1] = v
  BY DEF ActiveFor, Holding
<1> HIDE DEF f, g
<1>3. Cardinality(Holding(g, n + 1, y))
        = Cardinality(Holding(f, n, y)) + (IF g[n + 1] = y THEN 1 ELSE 0)
  BY <1>1, PlaceFilled
<1>4. QED
  BY <1>2, <1>3, ArcCount

\* The active entry at position e of u is given up, and the last one takes its place.
LEMMA EntryDeactivated ==
  ASSUME NEW entries, NEW new, NEW degree \in [Node -> Nat], NEW after, NEW u \in Node,
         NEW n \in Nat \ {0}, degree[u] = n, NEW e \in 1..n, NEW m, m = n - 1, after[u] = m,
         \A p \in 1..m :
           new[u][p].first = IF p = e THEN entries[u][n].first ELSE entries[u][p].first
  PROVE  RowMore(ArcCounts(entries, degree), ArcCounts(new, after), u, entries[u][e].first)
<1> SUFFICES ASSUME NEW y \in Node
             PROVE  ArcCounts(entries, degree)[u][y]
                      = ArcCounts(new, after)[u][y] + (IF y = entries[u][e].first THEN 1 ELSE 0)
  BY DEF RowMore
<1> DEFINE f == [p \in 1..n |-> entries[u][p].first]
           g == [p \in 1..n - 1 |-> new[u][p].first]
<1>1. \A p \in 1..n - 1 : g[p] = IF p = e THEN f[n] ELSE f[p]
  OBVIOUS
<1>2. /\ ActiveFor(new, after, u, y) = Holding(g, n - 1, y)
      /\ ActiveFor(entries, degree, u, y) = Holding(f, n, y)
      /\ f[e] = entries[u][e].first
  BY DEF ActiveFor, Holding
<1> HIDE DEF f, g
<1>3. Cardinality(Holding(g, n - 1, y))
        = Cardinality(Holding(f, n, y)) - (IF f[e] = y THEN 1 ELSE 0)
  BY <1>1, PlacesMoved
<1>4. Cardinality(Holding(f, n, y)) \in Nat
  BY <1>2, ActiveForFinite
<1>5. Cardinality(Holding(f, n, y))
        = Cardinality(Holding(g, n - 1, y)) + (IF y = f[e] THEN 1 ELSE 0)
  BY <1>3, <1>4
<1>6. QED
  BY <1>2, <1>5, ArcCount

\* The insertion of an arc.
LEMMA ArcInsertedCounts ==
  ASSUME NEW entries, NEW degree, ListsOK(entries, degree),
         NEW s \in Node, NEW t \in Node, s # t,
         NEW new, new = ArcInserted(entries, degree, s, t),
         NEW more, more = OneMore(degree, s)
  PROVE  ArcMore(ArcCounts(new, more), ArcCounts(entries, degree), s, t)
<1> DEFINE passive == [first |-> s, second |-> degree[s] + 1]
           one == [entries EXCEPT ![t] = Append(@, passive)]
           active == [first |-> t, second |-> Len(one[t])]
           both == [one EXCEPT ![s] = Append(@, active)]
           n == Len(entries[s]) + 1
           d == degree[s] + 1
<1>1. /\ entries \in [Node -> Seq(Entry)] /\ degree \in [Node -> Nat]
      /\ degree[s] \in Nat /\ degree[s] <= Len(entries[s]) /\ Len(entries[s]) \in Nat
      /\ \A w \in Node : degree[w] <= Len(entries[w])
  BY DEF ListsOK
<1>2. /\ one \in [Node -> Seq(Entry)] /\ one[t] = Append(entries[t], passive)
      /\ \A w \in Node \ {t} : one[w] = entries[w]
      /\ Len(one[t]) = Len(entries[t]) + 1
      /\ \A p \in 1..Len(entries[t]) : one[t][p] = entries[t][p]
  <2>1. passive \in Entry
    BY <1>1 DEF Entry
  <2> HIDE DEF passive
  <2>2. QED
    BY <1>1, <2>1
<1> HIDE DEF one
<1>3. /\ both \in [Node -> Seq(Entry)] /\ both[s] = Append(entries[s], active)
      /\ \A w \in Node \ {s} : both[w] = one[w]
      /\ Len(both[s]) = n /\ both[s][n] = active
      /\ \A p \in 1..Len(entries[s]) : both[s][p] = entries[s][p]
  <2>1. Len(one[t]) \in Nat \ {0}
    BY <1>1, <1>2
  <2>2. active \in Entry
    BY <2>1 DEF Entry
  <2> HIDE DEF active
  <2>3. QED
    BY <1>2, <2>2
<1>4. active.first = t
  OBVIOUS
<1>5. new = IF d = n THEN both ELSE SwapRelinked(both, s, n, d)
  <2>1. Len(both[s]) = n
    BY <1>1, <1>3
  <2>2. new = IF d = Len(both[s]) THEN both ELSE SwapRelinked(both, s, Len(both[s]), d)
    BY DEF ArcInserted, one
  <2> HIDE DEF both, n, d
  <2>3. QED
    BY <2>1, <2>2
<1> HIDE DEF active, both, passive
<1>6. /\ \A w \in Node : SameActive(both, entries, Len(entries[w]), w)
      /\ \A w \in Node : Len(both[w]) >= Len(entries[w]) /\ Len(both[w]) \in Nat
      /\ Len(both[s]) = n /\ both[s][n].first = t
  <2>1. Len(both[s]) = n /\ both[s][n].first = t
    BY <1>1, <1>3, <1>4
  <2>2. ASSUME NEW w \in Node
        PROVE  /\ Len(both[w]) >= Len(entries[w]) /\ Len(both[w]) \in Nat
               /\ \A p \in 1..Len(entries[w]) : both[w][p] = entries[w][p]
    <3>1. CASE w = s
      <4>1. Len(entries[s]) \in Nat /\ Len(both[s]) = Len(entries[s]) + 1
        BY <1>1, <1>3
      <4>2. \A p \in 1..Len(entries[s]) : both[s][p] = entries[s][p]
        BY <1>3
      <4>3. QED
        BY <3>1, <4>1, <4>2
    <3>2. CASE w = t
      <4>1. /\ both[w] = one[t] /\ Len(one[t]) = Len(entries[t]) + 1
            /\ \A p \in 1..Len(entries[t]) : one[t][p] = entries[t][p]
        BY <1>2, <1>3, <3>2
      <4>2. Len(entries[t]) \in Nat
        BY <1>1
      <4>3. QED
        BY <3>2, <4>1, <4>2
    <3>3. CASE w # s /\ w # t
      BY <1>1, <1>2, <1>3, <3>3
    <3>4. QED
      BY <3>1, <3>2, <3>3
  <2>3. QED
    BY <2>1, <2>2 DEF SameActive
<1>7. /\ \A w \in Node : SameActive(new, entries, degree[w], w)
      /\ new[s][d].first = t
  <2>1. CASE d = n
    BY <1>1, <1>5, <1>6, <2>1 DEF SameActive
  <2>2. CASE d # n
    <3>1. n \in 1..Len(both[s]) /\ d \in 1..Len(both[s])
      BY <1>1, <1>6
    <3>2. new = SwapRelinked(both, s, n, d)
      BY <1>5, <2>2
    <3>3. SameFirsts(new, both, {<<s, n>>, <<s, d>>}) /\ new[s][d].first = both[s][n].first
      <4> HIDE DEF n, d
      <4>1. QED
        <5> PICK i, j, l : i = n /\ j = d /\ l = both
          OBVIOUS
        <5>1. i \in 1..Len(l[s]) /\ j \in 1..Len(l[s]) /\ new = SwapRelinked(l, s, i, j)
          BY <3>1, <3>2
        <5>2. SameFirsts(new, l, {<<s, i>>, <<s, j>>}) /\ new[s][j].first = l[s][i].first
          <6>1. l \in [Node -> Seq(Entry)]
            BY <1>3
          <6>2. QED
            <7>1. NamesTraded(new, l, s, i, j)
              BY ONLY <6>1, <5>1, s \in Node, SwappedNames
            <7>2. QED
              BY <7>1 DEF NamesTraded
        <5>3. QED
          BY <5>2
    <3>4. ASSUME NEW w \in Node, NEW p \in 1..degree[w]
          PROVE  new[w][p].first = entries[w][p].first
      <4>1. p \in 1..Len(entries[w]) /\ p \in 1..Len(both[w])
        BY <1>1, <1>6
      <4>2. w = s => p < d /\ p < n
        BY <1>1
      <4>3. <<w, p>> \notin {<<s, n>>, <<s, d>>}
        BY <1>1, <4>2
      <4>4. new[w][p].first = both[w][p].first
        BY <3>3, <4>1, <4>3 DEF SameFirsts
      <4>5. QED
        BY <1>6, <4>1, <4>4 DEF SameActive
    <3>5. QED
      BY <1>6, <3>3, <3>4 DEF SameActive
  <2>3. QED
    BY <2>1, <2>2
<1>8. more[s] = degree[s] + 1 /\ \A w \in Node \ {s} : more[w] = degree[w]
  BY <1>1 DEF OneMore
<1>9. RowMore(ArcCounts(new, more), ArcCounts(entries, degree), s, t)
  <2> PICK k \in Nat, m \in Nat : k = degree[s] /\ m = k + 1
    BY <1>1
  <2>1. degree[s] = k /\ more[s] = m /\ SameActive(new, entries, k, s) /\ new[s][m].first = t
    BY <1>7, <1>8
  <2>2. degree \in [Node -> Nat]
    BY <1>1
  <2>3. QED
    BY ONLY <2>1, <2>2, m = k + 1, k \in Nat, s \in Node, EntryActivated
<1>10. ASSUME NEW x \in Node \ {s}
       PROVE  SameRow(ArcCounts(new, more), ArcCounts(entries, degree), x)
  <2>1. more[x] = degree[x] /\ SameActive(new, entries, degree[x], x)
    BY <1>7, <1>8
  <2>2. QED
    BY ONLY <2>1, x \in Node, SameActiveCounts
<1>11. ArcCounts(entries, degree) \in [Node -> [Node -> Nat]]
  BY <1>1, ArcCountsType
<1>12. ASSUME NEW x \in Node, NEW y \in Node
       PROVE  ArcCounts(new, more)[x][y]
                = ArcCounts(entries, degree)[x][y] + (IF x = s /\ y = t THEN 1 ELSE 0)
  <2>1. CASE x = s
    BY <1>9, <2>1 DEF RowMore
  <2>2. CASE x # s
    <3>1. ArcCounts(entries, degree)[x][y] \in Nat
      BY <1>11
    <3>2. QED
      BY <1>10, <2>2, <3>1 DEF SameRow
  <2>3. QED
    BY <2>1, <2>2
<1>13. QED
  BY <1>12 DEF ArcMore

\* The lists of all other nodes name the same neighbours as before.
OthersNamed(new, entries, u) ==
  /\ new \in [Node -> Seq(Entry)]
  /\ \A w \in Node \ {u} : /\ Len(new[w]) = Len(entries[w])
                           /\ \A p \in 1..Len(entries[w]) : new[w][p].first = entries[w][p].first

LastGone(new, entries, u, n, i) ==
  /\ OthersNamed(new, entries, u) /\ Len(new[u]) = n - 1
  /\ \A p \in 1..n - 1 :
       new[u][p].first = IF p = i THEN entries[u][n].first ELSE entries[u][p].first

LEMMA LastDroppedNames ==
  ASSUME NEW entries \in [Node -> Seq(Entry)], NEW u \in Node, NEW n, n = Len(entries[u]),
         NEW i \in 1..n, NEW new, new = LastDropped(entries, u, i)
  PROVE  LastGone(new, entries, u, n, i)
<1> DEFINE moved == IF i = n THEN entries ELSE SwapRelinked(entries, u, i, n)
<1>1. new = [moved EXCEPT ![u] = SubSeq(@, 1, n - 1)]
  BY DEF LastDropped
<1>2. n \in Nat /\ n \in 1..n /\ n >= 1
  OBVIOUS
<1>3. /\ moved \in [Node -> Seq(Entry)] /\ SameLengths(moved, entries)
      /\ SameFirsts(moved, entries, {<<u, i>>, <<u, n>>})
      /\ i # n => moved[u][i].first = entries[u][n].first
  <2>1. CASE i = n
    BY <2>1 DEF SameLengths, SameFirsts
  <2>2. CASE i # n
    <3>1. moved = SwapRelinked(entries, u, i, n)
      BY <2>2
    <3>2. i \in 1..Len(entries[u]) /\ n \in 1..Len(entries[u])
      BY <1>2
    <3> HIDE DEF moved
    <3>3. /\ moved \in [Node -> Seq(Entry)] /\ SameLengths(moved, entries)
          /\ SameFirsts(moved, entries, {<<u, i>>, <<u, n>>})
          /\ moved[u][i].first = entries[u][n].first
      <4>1. NamesTraded(moved, entries, u, i, n)
        BY ONLY <3>1, <3>2, entries \in [Node -> Seq(Entry)], u \in Node, SwappedNames
      <4>2. QED
        BY <4>1 DEF NamesTraded
    <3>4. QED
      BY <3>3
  <2>3. QED
    BY <2>1, <2>2
<1> HIDE DEF moved
<1>4. Len(moved[u]) = n /\ moved[u] \in Seq(Entry)
  BY <1>3 DEF SameLengths
<1> DEFINE short == SubSeq(moved[u], 1, n - 1)
<1>5. /\ short \in Seq(Entry) /\ Len(short) = n - 1
      /\ \A p \in 1..n - 1 : short[p] = moved[u][p]
  BY <1>2, <1>4
<1>6. new = [moved EXCEPT ![u] = short]
  BY <1>1
<1> HIDE DEF short
<1>7. /\ new \in [Node -> Seq(Entry)] /\ new[u] = short
      /\ \A w \in Node \ {u} : new[w] = moved[w]
  BY <1>3, <1>5, <1>6
<1>8. OthersNamed(new, entries, u)
  BY <1>3, <1>7 DEF OthersNamed, SameLengths, SameFirsts
<1>9. ASSUME NEW p \in 1..n - 1
      PROVE  new[u][p].first = IF p = i THEN entries[u][n].first ELSE entries[u][p].first
  <2>1. new[u][p] = moved[u][p] /\ p \in 1..Len(entries[u]) /\ p # n
    BY <1>2, <1>5, <1>7
  <2>2. CASE p = i
    BY <1>3, <2>1, <2>2
  <2>3. CASE p # i
    <3>1. <<u, p>> \notin {<<u, i>>, <<u, n>>}
      BY <2>1, <2>3
    <3>2. moved[u][p].first = entries[u][p].first
      BY <1>3, <2>1, <3>1 DEF SameFirsts
    <3>3. QED
      BY <2>1, <2>3, <3>2
  <2>4. QED
    BY <2>2, <2>3
<1>10. QED
  BY <1>5, <1>7, <1>8, <1>9 DEF LastGone

\* One list has given up an entry: if it was active, an arc is gone.
EntryGone(entries, degree, u, i, v, new, after) ==
  /\ OthersNamed(new, entries, u) /\ ListsOK(new, after)
  /\ \A w \in Node \ {u} : after[w] = degree[w]
  /\ i > degree[u] => SameArcs(ArcCounts(new, after), ArcCounts(entries, degree))
                      /\ after = degree
  /\ i <= degree[u] => /\ ArcMore(ArcCounts(entries, degree), ArcCounts(new, after), u, v)
                       /\ after = [degree EXCEPT ![u] = @ - 1]

LEMMA EntryRemovedCounts ==
  ASSUME NEW entries, NEW degree, ListsOK(entries, degree),
         NEW u \in Node, NEW i \in 1..Len(entries[u]), NEW v, v = entries[u][i].first,
         NEW new, new = EntryRemoved(entries, degree, u, i),
         NEW after, after = DegreeAfter(degree, u, i)
  PROVE  EntryGone(entries, degree, u, i, v, new, after)
<1> PICK d, n : d = degree[u] /\ n = Len(entries[u])
  OBVIOUS
<1>1. /\ entries \in [Node -> Seq(Entry)] /\ degree \in [Node -> Nat]
      /\ d \in Nat /\ n \in Nat /\ d <= n /\ i \in Nat /\ i >= 1 /\ i <= n
      /\ \A w \in Node : degree[w] <= Len(entries[w])
  BY DEF ListsOK
<1>2. /\ OthersNamed(new, entries, u) /\ Len(new[u]) = n - 1
      /\ i > d => SameActive(new, entries, d, u)
      /\ i <= d => \A p \in 1..d - 1 :
                     new[u][p].first = IF p = i THEN entries[u][d].first ELSE entries[u][p].first
  <2>1. CASE i >= d
    <3>1. new = LastDropped(entries, u, i)
      BY <1>1, <2>1 DEF EntryRemoved
    <3>2. /\ OthersNamed(new, entries, u) /\ Len(new[u]) = n - 1
          /\ \A p \in 1..n - 1 :
               new[u][p].first = IF p = i THEN entries[u][n].first ELSE entries[u][p].first
      <4>1. i \in 1..n /\ n = Len(entries[u]) /\ entries \in [Node -> Seq(Entry)]
        BY <1>1
      <4>2. LastGone(new, entries, u, n, i)
        BY ONLY <3>1, <4>1, u \in Node, LastDroppedNames
      <4>3. QED
        BY <4>2 DEF LastGone
    <3>3. i > d => SameActive(new, entries, d, u)
      BY <1>1, <3>2 DEF SameActive
    <3>4. ASSUME i <= d, NEW p \in 1..d - 1
          PROVE  new[u][p].first = IF p = i THEN entries[u][d].first ELSE entries[u][p].first
      <4>1. p # i /\ p \in 1..n - 1
        BY <1>1, <2>1, <3>4
      <4>2. QED
        BY <3>2, <4>1
    <3>5. QED
      BY <3>2, <3>3, <3>4
  <2>2. CASE i < d
    <3> PICK moved : moved = SwapRelinked(entries, u, i, d)
      OBVIOUS
    <3>1. new = LastDropped(moved, u, d)
      BY <1>1, <2>2 DEF EntryRemoved
    <3>2. i \in 1..Len(entries[u]) /\ d \in 1..Len(entries[u])
      BY <1>1, <2>2
    <3>3. /\ moved \in [Node -> Seq(Entry)] /\ SameLengths(moved, entries)
          /\ SameFirsts(moved, entries, {<<u, i>>, <<u, d>>})
          /\ moved[u][i].first = entries[u][d].first
      <4>1. entries \in [Node -> Seq(Entry)] /\ moved = SwapRelinked(entries, u, i, d)
        BY <1>1
      <4>2. NamesTraded(moved, entries, u, i, d)
        BY ONLY <3>2, <4>1, u \in Node, SwappedNames
      <4>3. QED
        BY <4>2 DEF NamesTraded
    <3>4. n = Len(moved[u]) /\ d \in 1..n
      BY <1>1, <2>2, <3>3 DEF SameLengths
    <3>5. /\ OthersNamed(new, moved, u) /\ Len(new[u]) = n - 1
          /\ \A p \in 1..n - 1 :
               new[u][p].first = IF p = d THEN moved[u][n].first ELSE moved[u][p].first
      <4>1. LastGone(new, moved, u, n, d)
        BY ONLY <3>1, <3>3, <3>4, u \in Node, LastDroppedNames
      <4>2. QED
        BY <4>1 DEF LastGone
    <3>6. OthersNamed(new, entries, u)
      <4>1. ASSUME NEW w \in Node \ {u}
            PROVE  /\ Len(new[w]) = Len(entries[w])
                   /\ \A p \in 1..Len(entries[w]) : new[w][p].first = entries[w][p].first
        <5>1. Len(new[w]) = Len(moved[w]) /\ Len(moved[w]) = Len(entries[w])
          BY <3>3, <3>5 DEF OthersNamed, SameLengths
        <5>2. \A p \in 1..Len(moved[w]) : new[w][p].first = moved[w][p].first
          BY <3>5 DEF OthersNamed
        <5>3. \A p \in 1..Len(entries[w]) : moved[w][p].first = entries[w][p].first
          BY <3>3 DEF SameFirsts
        <5>4. QED
          BY <5>1, <5>2, <5>3
      <4>2. QED
        BY <3>5, <4>1 DEF OthersNamed
    <3>7. ASSUME NEW p \in 1..d - 1
          PROVE  new[u][p].first = IF p = i THEN entries[u][d].first ELSE entries[u][p].first
      <4>1. p \in 1..n - 1 /\ p # d /\ p \in 1..Len(entries[u])
        BY <1>1
      <4>2. new[u][p].first = moved[u][p].first
        BY <3>5, <4>1
      <4>3. p # i => moved[u][p].first = entries[u][p].first
        <5>1. p # i => <<u, p>> \notin {<<u, i>>, <<u, d>>}
          BY <4>1
        <5>2. QED
          BY <3>3, <4>1, <5>1 DEF SameFirsts
      <4>4. QED
        BY <3>3, <4>2, <4>3
    <3>8. QED
      BY <1>1, <2>2, <3>5, <3>6, <3>7
  <2>3. QED
    BY <1>1, <2>1, <2>2
<1>3. ASSUME NEW w \in Node \ {u}
      PROVE  SameActive(new, entries, degree[w], w)
  <2>1. \A p \in 1..degree[w] : p \in 1..Len(entries[w])
    BY <1>1
  <2>2. QED
    BY <1>2, <2>1 DEF SameActive, OthersNamed
<1>4. CASE i > d
  <2>1. after = degree
    BY <1>1, <1>4 DEF DegreeAfter
  <2>2. \A w \in Node : SameActive(new, entries, degree[w], w)
    BY <1>2, <1>3, <1>4
  <2>3. SameArcs(ArcCounts(new, after), ArcCounts(entries, degree))
    <3>1. ASSUME NEW x \in Node
          PROVE  SameRow(ArcCounts(new, after), ArcCounts(entries, degree), x)
      <4>1. after[x] = degree[x] /\ SameActive(new, entries, degree[x], x)
        BY <2>1, <2>2
      <4>2. QED
        BY ONLY <4>1, x \in Node, SameActiveCounts
    <3>2. QED
      BY <3>1 DEF SameArcs, SameRow
  <2>4. ListsOK(new, after)
    <3>1. ASSUME NEW w \in Node PROVE degree[w] <= Len(new[w])
      <4>1. CASE w = u
        BY <1>1, <1>2, <1>4, <4>1
      <4>2. CASE w # u
        BY <1>1, <1>2, <4>2 DEF OthersNamed
      <4>3. QED
        BY <4>1, <4>2
    <3>2. QED
      BY <1>1, <1>2, <2>1, <3>1 DEF ListsOK, OthersNamed
  <2>5. QED
    BY <1>1, <1>2, <1>4, <2>1, <2>3, <2>4 DEF EntryGone
<1>5. CASE i <= d
  <2>1. /\ after = [degree EXCEPT ![u] = @ - 1]
        /\ after[u] = d - 1 /\ \A w \in Node \ {u} : after[w] = degree[w]
    BY <1>1, <1>5 DEF DegreeAfter
  <2>2. after \in [Node -> Nat]
    BY <1>1, <1>5, <2>1
  <2>3. ListsOK(new, after)
    <3>1. ASSUME NEW w \in Node PROVE after[w] <= Len(new[w])
      <4>1. CASE w = u
        BY <1>1, <1>2, <2>1, <4>1
      <4>2. CASE w # u
        BY <1>1, <1>2, <2>1, <4>2 DEF OthersNamed
      <4>3. QED
        BY <4>1, <4>2
    <3>2. QED
      BY <1>2, <2>2, <3>1 DEF ListsOK, OthersNamed
  <2>4. RowMore(ArcCounts(entries, degree), ArcCounts(new, after), u, v)
    <3> PICK m : m = d - 1
      OBVIOUS
    <3>1. d \in Nat \ {0} /\ i \in 1..d /\ degree[u] = d /\ after[u] = m
      BY <1>1, <1>5, <2>1
    <3>2. \A p \in 1..m : new[u][p].first = IF p = i THEN entries[u][d].first
                                                     ELSE entries[u][p].first
      BY <1>2, <1>5
    <3>3. degree \in [Node -> Nat]
      BY <1>1
    <3>4. RowMore(ArcCounts(entries, degree), ArcCounts(new, after), u, entries[u][i].first)
      BY ONLY <3>1, <3>2, <3>3, m = d - 1, u \in Node, EntryDeactivated
    <3>5. QED
      BY <3>4
  <2>5. ASSUME NEW x \in Node \ {u}
        PROVE  SameRow(ArcCounts(new, after), ArcCounts(entries, degree), x)
    <3>1. after[x] = degree[x] /\ SameActive(new, entries, degree[x], x)
      BY <1>3, <2>1
    <3>2. QED
      BY ONLY <3>1, x \in Node, SameActiveCounts
  <2>6. ArcMore(ArcCounts(entries, degree), ArcCounts(new, after), u, v)
    <3>1. ArcCounts(new, after) \in [Node -> [Node -> Nat]]
      BY <2>2, ArcCountsType
    <3> PICK c1, c2 : c1 = ArcCounts(new, after) /\ c2 = ArcCounts(entries, degree)
      OBVIOUS
    <3>2. ASSUME NEW x \in Node, NEW y \in Node
          PROVE  c2[x][y] = c1[x][y] + (IF x = u /\ y = v THEN 1 ELSE 0)
      <4>1. CASE x = u
        BY <2>4, <4>1 DEF RowMore
      <4>2. CASE x # u
        <5>1. c2[x][y] = c1[x][y] /\ c1[x][y] \in Nat
          BY <2>5, <3>1, <4>2 DEF SameRow
        <5>2. QED
          BY <4>2, <5>1
      <4>3. QED
        BY <4>1, <4>2
    <3>3. QED
      BY <3>2 DEF ArcMore
  <2>7. QED
    BY <1>1, <1>2, <1>5, <2>1, <2>3, <2>6 DEF EntryGone
<1>6. QED
  BY <1>1, <1>4, <1>5

\* The out-degree of s alone has grown.
DegMore(new, old, s) == \A x \in Node : new[x] = old[x] + (IF x = s THEN 1 ELSE 0)

\* The deletion of an entry and its mirror takes one arc, that of the end where it was
\* active: the code searches from there (decremented).
LEMMA EdgeDeletedCounts ==
  ASSUME NEW entries, NEW degree, WellLinked(entries, degree),
         NEW u \in Node, NEW i \in 1..Len(entries[u]),
         NEW v, v = entries[u][i].first, NEW k, k = entries[u][i].second,
         NEW one, one = EntryRemoved(entries, degree, u, i),
         NEW d1, d1 = DegreeAfter(degree, u, i),
         NEW new, new = EntryRemoved(one, d1, v, k),
         NEW d2, d2 = DegreeAfter(d1, v, k),
         NEW s, s = IF k <= d1[v] THEN v ELSE u
  PROVE  /\ s \in Node /\ DegMore(degree, d2, s)
         /\ \E t \in Node : ArcMore(ArcCounts(entries, degree), ArcCounts(new, d2), s, t)
<1>1. /\ ListsOK(entries, degree) /\ LinkedBut(entries, degree, {})
      /\ entries \in [Node -> Seq(Entry)] /\ degree \in [Node -> Nat]
  BY DEF WellLinked, ListsOK
<1>2. /\ v \in Node /\ v # u /\ k \in 1..Len(entries[v]) /\ entries[v][k].first = u
      /\ i <= degree[u] <=> k > degree[v]
  BY <1>1 DEF LinkedBut, LinkedAt
<1>3. EntryGone(entries, degree, u, i, v, one, d1)
  BY ONLY <1>1, u \in Node, i \in 1..Len(entries[u]), v = entries[u][i].first,
     one = EntryRemoved(entries, degree, u, i), d1 = DegreeAfter(degree, u, i), EntryRemovedCounts
<1>4. /\ ListsOK(one, d1) /\ k \in 1..Len(one[v]) /\ u = one[v][k].first /\ d1[v] = degree[v]
  BY <1>2, <1>3 DEF EntryGone, OthersNamed
<1>5. EntryGone(one, d1, v, k, u, new, d2)
  BY ONLY <1>2, <1>4, new = EntryRemoved(one, d1, v, k), d2 = DegreeAfter(d1, v, k),
     EntryRemovedCounts
<1>6. degree[u] \in Nat /\ degree[v] \in Nat /\ i \in Nat /\ k \in Nat
  <2>1. Len(entries[u]) \in Nat /\ Len(entries[v]) \in Nat
    BY <1>1, <1>2
  <2>2. QED
    BY <1>1, <1>2, <2>1
<1> PICK c0, c1, c2 : /\ c0 = ArcCounts(entries, degree) /\ c1 = ArcCounts(one, d1)
                      /\ c2 = ArcCounts(new, d2)
  OBVIOUS
<1>7. CASE i <= degree[u]
  <2>1. k > d1[v] /\ ~(k <= d1[v])
    <3>1. degree[v] \in Nat /\ k \in Nat /\ k > degree[v] /\ d1[v] = degree[v]
      BY <1>2, <1>4, <1>6, <1>7
    <3>2. QED
      BY ONLY <3>1
  <2>2. SameArcs(c2, c1) /\ d2 = d1
    BY <1>5, <2>1 DEF EntryGone
  <2>3. ArcMore(c0, c1, u, v) /\ d1 = [degree EXCEPT ![u] = @ - 1]
    BY <1>3, <1>7 DEF EntryGone
  <2>4. ArcMore(c0, c2, u, v)
    <3>1. ASSUME NEW x \in Node, NEW y \in Node
          PROVE  c0[x][y] = c2[x][y] + (IF x = u /\ y = v THEN 1 ELSE 0)
      <4>1. c0[x][y] = c1[x][y] + (IF x = u /\ y = v THEN 1 ELSE 0)
        BY <2>3 DEF ArcMore
      <4>2. c2[x][y] = c1[x][y]
        BY <2>2 DEF SameArcs
      <4>3. QED
        BY <4>1, <4>2
    <3>2. QED
      BY <3>1 DEF ArcMore
  <2>5. DegMore(degree, d2, u)
    BY <1>1, <2>2, <2>3 DEF DegMore
  <2>6. QED
    BY <1>2, <2>1, <2>4, <2>5
<1>8. CASE i > degree[u]
  <2>1. k <= d1[v]
    <3>1. degree[v] \in Nat /\ k \in Nat /\ ~(k > degree[v]) /\ d1[v] = degree[v]
      <4>1. ~(i <= degree[u])
        BY <1>6, <1>8
      <4>2. QED
        BY <1>2, <1>4, <1>6, <4>1
    <3>2. QED
      BY ONLY <3>1
  <2>2. SameArcs(c1, c0) /\ d1 = degree
    BY <1>3, <1>8 DEF EntryGone
  <2>3. ArcMore(c1, c2, v, u) /\ d2 = [d1 EXCEPT ![v] = @ - 1]
    BY <1>5, <2>1 DEF EntryGone
  <2>4. ArcMore(c0, c2, v, u)
    BY <2>2, <2>3 DEF ArcMore, SameArcs
  <2>5. DegMore(degree, d2, v)
    BY <1>1, <2>2, <2>3 DEF DegMore
  <2>6. QED
    BY <1>2, <2>1, <2>4, <2>5
<1>9. QED
  BY <1>6, <1>7, <1>8

\* One arc u -> v has been turned.
ArcTurned(new, old, u, v) ==
  \A x, y \in Node : new[x][y] = old[x][y] + (IF x = v /\ y = u THEN 1 ELSE 0)
                                           - (IF x = u /\ y = v THEN 1 ELSE 0)

LEMMA FlippedCounts ==
  ASSUME NEW entries, NEW degree, WellLinked(entries, degree),
         NEW u \in Node, NEW e \in 1..degree[u],
         NEW v, v = entries[u][e].first,
         NEW new, new = ActiveFlipped(entries, degree, u, e),
         NEW turned, turned = DegreeFlipped(degree, u, v)
  PROVE  ArcTurned(ArcCounts(new, turned), ArcCounts(entries, degree), u, v)
<1> PICK m : m = entries[u][e].second
  OBVIOUS
<1>1. /\ v \in Node /\ v # u /\ WellLinked(new, turned) /\ SameLengths(new, entries)
      /\ SameFirsts(new, entries, {<<u, e>>, <<u, degree[u]>>, <<v, m>>, <<v, degree[v] + 1>>})
      /\ FlippedNames(new, entries, degree, u, e, v)
      /\ m > degree[v]
  BY ActiveFlippedLinks
<1>2. /\ entries \in [Node -> Seq(Entry)] /\ degree \in [Node -> Nat] /\ turned \in [Node -> Nat]
      /\ \A w \in Node : degree[w] <= Len(entries[w])
  BY <1>1 DEF WellLinked, ListsOK
<1>3. turned[u] = degree[u] - 1 /\ turned[v] = degree[v] + 1
      /\ \A w \in Node \ {u, v} : turned[w] = degree[w]
  BY <1>1, <1>2 DEF DegreeFlipped
<1>4. m \in Nat
  <2>1. e \in 1..Len(entries[u])
    BY <1>2
  <2>2. QED
    BY <1>2, <2>1, EntryFields
<1> PICK old, c : old = ArcCounts(entries, degree) /\ c = ArcCounts(new, turned)
  OBVIOUS
<1>5. RowMore(old, c, u, v)
  <2> PICK n, less : n = degree[u] /\ less = n - 1
    OBVIOUS
  <2>1. n \in Nat \ {0} /\ e \in 1..n /\ turned[u] = less /\ degree[u] = n
    BY <1>2, <1>3
  <2>2. \A p \in 1..less :
          new[u][p].first = IF p = e THEN entries[u][n].first ELSE entries[u][p].first
    BY <1>1 DEF FlippedNames
  <2>3. RowMore(ArcCounts(entries, degree), ArcCounts(new, turned), u, entries[u][e].first)
    <3>1. degree \in [Node -> Nat]
      BY <1>2
    <3>2. QED
      BY ONLY <2>1, <2>2, <3>1, less = n - 1, u \in Node, EntryDeactivated
  <2>4. QED
    BY <2>3
<1>6. RowMore(c, old, v, u)
  <2> PICK n \in Nat, more \in Nat : n = degree[v] /\ more = n + 1
    BY <1>1, <1>2
  <2>1. new[v][more].first = u /\ turned[v] = more /\ degree[v] = n
    BY <1>1, <1>3 DEF FlippedNames
  <2>2. SameActive(new, entries, n, v)
    <3> SUFFICES ASSUME NEW p \in 1..n PROVE new[v][p].first = entries[v][p].first
      BY DEF SameActive
    <3>1. p # m /\ p # degree[v] + 1 /\ p \in 1..Len(entries[v])
      BY <1>1, <1>2, <1>4
    <3>2. <<v, p>> \notin {<<u, e>>, <<u, degree[u]>>, <<v, m>>, <<v, degree[v] + 1>>}
      BY <1>1, <3>1
    <3>3. QED
      BY <1>1, <3>1, <3>2 DEF SameFirsts
  <2>3. RowMore(ArcCounts(new, turned), ArcCounts(entries, degree), v, u)
    <3>1. degree \in [Node -> Nat] /\ v \in Node
      BY <1>1, <1>2
    <3>2. QED
      BY ONLY <2>1, <2>2, <3>1, n \in Nat, more = n + 1, EntryActivated
  <2>4. QED
    BY <2>3
<1>7. ASSUME NEW x \in Node \ {u, v}
      PROVE  SameRow(c, old, x)
  <2>1. turned[x] = degree[x] /\ SameActive(new, entries, degree[x], x)
    <3>1. \A p \in 1..degree[x] : p \in 1..Len(entries[x])
      BY <1>2
    <3>2. QED
      BY <1>1, <1>3, <3>1 DEF SameActive, SameFirsts
  <2>2. SameRow(ArcCounts(new, turned), ArcCounts(entries, degree), x)
    BY ONLY <2>1, x \in Node, SameActiveCounts
  <2>3. QED
    BY <2>2
<1>8. c \in [Node -> [Node -> Nat]] /\ old \in [Node -> [Node -> Nat]]
  BY <1>2, ArcCountsType
<1>9. ASSUME NEW x \in Node, NEW y \in Node
      PROVE  c[x][y] = old[x][y] + (IF x = v /\ y = u THEN 1 ELSE 0)
                                 - (IF x = u /\ y = v THEN 1 ELSE 0)
  <2>1. c[x][y] \in Nat /\ old[x][y] \in Nat
    BY <1>8
  <2>2. CASE x = u
    <3>1. old[x][y] = c[x][y] + (IF y = v THEN 1 ELSE 0)
      BY <1>5, <2>2 DEF RowMore
    <3>2. QED
      BY <1>1, <2>1, <2>2, <3>1
  <2>3. CASE x = v
    <3>1. c[x][y] = old[x][y] + (IF y = u THEN 1 ELSE 0)
      BY <1>6, <2>3 DEF RowMore
    <3>2. QED
      BY <1>1, <2>1, <2>3, <3>1
  <2>4. CASE x \notin {u, v}
    <3>1. c[x][y] = old[x][y]
      BY <1>7, <2>4 DEF SameRow
    <3>2. QED
      BY <2>1, <2>4, <3>1
  <2>5. QED
    BY <2>2, <2>3, <2>4
<1>10. QED
  BY <1>9 DEF ArcTurned

(****************************************************************************)
(* Why a maximum cannot be lowered, in terms of arc counts and out-degrees. *)
(****************************************************************************)

\* No arc leaves S.
Shut(c, S) == \A x \in S, y \in Node : c[x][y] > 0 => y \in S

\* A set that u cannot hand an arc out of, and in which nobody has two arcs less than u.
Shield(c, d, u, S) ==
  /\ S \in SUBSET Node /\ u \in S /\ Shut(c, S)
  /\ \A v \in S : d[v] + 1 >= d[u]

Shielded(c, d, u) == \E S : Shield(c, d, u, S)

\* From no node does a path lead to a node with at least two arcs less.
NoGap(c, d) == \A u \in Node : \E S : Shield(c, d, u, S)

Counted(c, d) == c \in [Node -> [Node -> Nat]] /\ d \in [Node -> Nat]

\* The arcs of A have been turned.
Turned(new, old, A) ==
  \A x, y \in Node : new[x][y] = old[x][y] + (IF <<y, x>> \in A THEN 1 ELSE 0)
                                           - (IF <<x, y>> \in A THEN 1 ELSE 0)

LEMMA ArcMoreExists ==
  ASSUME NEW c0, NEW d0, NEW c1, NEW d1, Counted(c0, d0), Counted(c1, d1),
         NEW s \in Node, NEW t \in Node, ArcMore(c1, c0, s, t), NEW x \in Node, NEW y \in Node
  PROVE  /\ c1[x][y] > 0 <=> c0[x][y] > 0 \/ (x = s /\ y = t)
         /\ ~(x = s /\ y = t) => c1[x][y] = c0[x][y]
<1>1. c0[x][y] \in Nat
  BY DEF Counted
<1>2. c1[x][y] = c0[x][y] + (IF x = s /\ y = t THEN 1 ELSE 0)
  BY DEF ArcMore
<1>3. QED
  BY <1>1, <1>2

LEMMA TurnedExists ==
  ASSUME NEW c, NEW new, c \in [Node -> [Node -> Nat]],
         NEW A, Turned(new, c, A), NEW x \in Node, NEW y \in Node, new[x][y] > 0
  PROVE  c[x][y] > 0 \/ <<y, x>> \in A
<1>1. c[x][y] \in Nat
  OBVIOUS
<1>2. new[x][y] = c[x][y] + (IF <<y, x>> \in A THEN 1 ELSE 0) - (IF <<x, y>> \in A THEN 1 ELSE 0)
  BY DEF Turned
<1>3. QED
  BY <1>1, <1>2

\* The arc s -> t has come, and the search from s has found no node that can take one
\* more: it has gone over V.
LEMMA InsertionStuck ==
  ASSUME NEW c0, NEW d0, NEW c1, NEW d1, Counted(c0, d0), Counted(c1, d1), NoGap(c0, d0),
         NEW s \in Node, NEW t \in Node, ArcMore(c1, c0, s, t), DegMore(d1, d0, s),
         NEW k, k = d0[s], NEW V \in SUBSET Node, s \in V,
         \A v \in V \ {s} : d1[v] = k,
         \A v \in V, w \in Node : c1[v][w] > 0 => w \in V \/ d1[w] > k
  PROVE  NoGap(c1, d1)
<1>1. /\ k \in Nat /\ d1[s] = k + 1 /\ \A x \in Node \ {s} : d1[x] = d0[x]
      /\ \A x \in Node : d0[x] \in Nat /\ d1[x] \in Nat /\ d1[x] >= d0[x]
  BY DEF Counted, DegMore
<1> DEFINE High == {w \in Node \ {s} : d1[w] > k}
           R == V \cup {x \in Node : \E w \in High : \E S : Shield(c0, d0, w, S) /\ x \in S}
<1>2. High \subseteq R
  BY DEF NoGap, Shield
<1>3. ASSUME NEW x \in R \ V
      PROVE  \E w \in High : \E S : Shield(c0, d0, w, S) /\ x \in S
  OBVIOUS
<1>4. ASSUME NEW w \in High, NEW S, Shield(c0, d0, w, S)
      PROVE  S \subseteq R
  BY <1>4 DEF Shield
<1>5. R \in SUBSET Node /\ V \subseteq R /\ \A w \in High : w \in Node /\ w # s /\ d1[w] > k
  OBVIOUS
<1>6. \A w \in Node \ {s} : d1[w] > k => w \in High
  OBVIOUS
<1> HIDE DEF High, R
<1>7. \A x \in R : d1[x] >= k
  <2> TAKE x \in R
  <2>1. CASE x \in V
    BY <1>1, <2>1
  <2>2. CASE x \notin V
    <3>1. PICK w \in High : \E S : Shield(c0, d0, w, S) /\ x \in S
      BY <1>3, <2>2
    <3>2. d0[x] + 1 >= d0[w] /\ x \in Node
      BY <3>1 DEF Shield
    <3>3. d0[w] = d1[w] /\ d1[w] > k /\ d0[w] \in Nat
      BY <1>1, <1>5
    <3>4. d0[x] \in Nat /\ d1[x] \in Nat /\ d1[x] >= d0[x]
      BY <1>1, <3>2
    <3>5. QED
      BY <1>1, <3>2, <3>3, <3>4
  <2>3. QED
    BY <2>1, <2>2
<1>8. Shut(c1, R)
  <2> SUFFICES ASSUME NEW x \in R, NEW y \in Node, c1[x][y] > 0 PROVE y \in R
    BY DEF Shut
  <2>1. CASE x \in V
    BY <1>2, <1>5, <1>6, <2>1
  <2>2. CASE x \notin V
    <3>1. PICK w \in High : \E S : Shield(c0, d0, w, S) /\ x \in S
      BY <1>3, <2>2
    <3>2. PICK S : Shield(c0, d0, w, S) /\ x \in S
      BY <3>1
    <3>3. x # s /\ x \in Node
      BY <1>5, <2>2
    <3>4. c0[x][y] > 0
      BY <3>3, ArcMoreExists
    <3>5. y \in S
      BY <3>2, <3>4 DEF Shield, Shut
    <3>6. QED
      BY <1>4, <3>2, <3>5
  <2>3. QED
    BY <2>1, <2>2
<1>9. ASSUME NEW u \in Node
      PROVE  \E S : Shield(c1, d1, u, S)
  <2>1. PICK S : Shield(c0, d0, u, S)
    BY DEF NoGap
  <2>2. CASE u = s
    <3>1. Shield(c1, d1, u, R)
      BY <1>1, <1>5, <1>7, <1>8, <2>2 DEF Shield
    <3>2. QED
      BY <3>1
  <2>3. CASE s \notin S
    <3>1. Shut(c1, S)
      <4> SUFFICES ASSUME NEW x \in S, NEW y \in Node, c1[x][y] > 0 PROVE y \in S
        BY DEF Shut
      <4>1. x \in Node /\ x # s
        BY <2>1, <2>3 DEF Shield
      <4>2. c0[x][y] > 0
        BY <4>1, ArcMoreExists
      <4>3. QED
        BY <2>1, <4>2 DEF Shield, Shut
    <3>2. \A x \in S : d1[x] = d0[x]
      BY <1>1, <2>1, <2>3 DEF Shield
    <3>3. Shield(c1, d1, u, S)
      BY <2>1, <3>1, <3>2 DEF Shield
    <3>4. QED
      BY <3>3
  <2>4. CASE s \in S /\ u # s
    <3>1. k + 1 >= d0[u] /\ d1[u] = d0[u] /\ d0[u] \in Nat
      BY <1>1, <2>1, <2>4 DEF Shield
    <3>2. Shut(c1, S \cup R)
      <4> SUFFICES ASSUME NEW x \in S \cup R, NEW y \in Node, c1[x][y] > 0 PROVE y \in S \cup R
        BY DEF Shut
      <4>1. CASE x \in R
        BY <1>8, <4>1 DEF Shut
      <4>2. CASE x \notin R
        <5>1. x \in S /\ x \in Node /\ x # s
          BY <1>5, <2>1, <4>2 DEF Shield
        <5>2. c0[x][y] > 0
          BY <5>1, ArcMoreExists
        <5>3. QED
          BY <2>1, <5>1, <5>2 DEF Shield, Shut
      <4>3. QED
        BY <4>1, <4>2
    <3>3. \A x \in S \cup R : d1[x] + 1 >= d1[u]
      <4> TAKE x \in S \cup R
      <4>1. CASE x \in R
        BY <1>1, <1>5, <1>7, <3>1, <4>1
      <4>2. CASE x \in S
        <5>1. d0[x] + 1 >= d0[u] /\ x \in Node
          BY <2>1, <4>2 DEF Shield
        <5>2. QED
          BY <1>1, <3>1, <5>1
      <4>3. QED
        BY <4>1, <4>2
    <3>4. Shield(c1, d1, u, S \cup R)
      BY <1>5, <2>1, <3>2, <3>3 DEF Shield
    <3>5. QED
      BY <3>4
  <2>5. QED
    BY <2>2, <2>3, <2>4
<1>10. QED
  BY <1>9 DEF NoGap

\* The arc a -> b has gone, and the search back from a has found no node with one too
\* many: it has gone over V.
LEMMA DeletionStuck ==
  ASSUME NEW c0, NEW d0, NEW c1, NEW d1, Counted(c0, d0), Counted(c1, d1), NoGap(c0, d0),
         NEW a \in Node, NEW b \in Node, ArcMore(c0, c1, a, b), DegMore(d0, d1, a),
         NEW k, k = d0[a], NEW V \in SUBSET Node, a \in V,
         \A v \in V \ {a} : d1[v] = k,
         \A v \in V, w \in Node : c1[w][v] > 0 => w \in V \/ d1[w] < k
  PROVE  NoGap(c1, d1)
<1>1. /\ k \in Nat /\ d1[a] = k - 1 /\ \A x \in Node \ {a} : d1[x] = d0[x]
      /\ \A x \in Node : d0[x] \in Nat /\ d1[x] \in Nat
  <2>1. \A x \in Node : d0[x] \in Nat /\ d1[x] \in Nat
    BY DEF Counted
  <2>2. \A x \in Node : d0[x] = d1[x] + (IF x = a THEN 1 ELSE 0)
    BY DEF DegMore
  <2>3. QED
    BY <2>1, <2>2
<1>2. \A x, y \in Node : c1[x][y] > 0 => c0[x][y] > 0
  BY ArcMoreExists
<1>3. ASSUME NEW S, Shut(c0, S), S \in SUBSET Node
      PROVE  Shut(c1, S)
  BY <1>2, <1>3 DEF Shut
<1>4. ASSUME NEW u \in Node
      PROVE  \E S : Shield(c1, d1, u, S)
  <2>1. PICK S : Shield(c0, d0, u, S)
    BY DEF NoGap
  <2>2. S \in SUBSET Node /\ u \in S /\ Shut(c1, S) /\ \A x \in S : d0[x] + 1 >= d0[u]
    BY <1>3, <2>1 DEF Shield
  <2>3. CASE a \notin S \/ u = a \/ d0[u] <= k
    <3>1. \A x \in S : d1[x] + 1 >= d1[u]
      <4> TAKE x \in S
      <4>1. /\ x \in Node /\ d0[x] + 1 >= d0[u] /\ d0[x] \in Nat /\ d0[u] \in Nat
            /\ d0[x] = d1[x] + (IF x = a THEN 1 ELSE 0) /\ d1[x] \in Nat
            /\ d0[u] = d1[u] + (IF u = a THEN 1 ELSE 0) /\ d1[u] \in Nat
        BY <1>1, <2>2 DEF DegMore
      <4>2. CASE x # a
        BY <4>1, <4>2
      <4>3. CASE x = a
        <5>1. u = a \/ d0[u] <= k
          BY <2>3, <4>3
        <5>2. QED
          BY <1>1, <4>1, <4>3, <5>1
      <4>4. QED
        BY <4>2, <4>3
    <3>2. Shield(c1, d1, u, S)
      BY <2>2, <3>1 DEF Shield
    <3>3. QED
      BY <3>2
  <2>4. CASE a \in S /\ u # a /\ d0[u] > k
    <3>1. d0[u] = k + 1 /\ d1[u] = k + 1
      BY <1>1, <2>2, <2>4
    <3>2. u \notin V
      BY <1>1, <2>4, <3>1
    <3>3. \A x \in S \ V : d1[x] >= k /\ x \in Node
      BY <1>1, <2>2, <3>1
    <3>4. Shut(c1, S \ V)
      <4> SUFFICES ASSUME NEW x \in S \ V, NEW y \in Node, c1[x][y] > 0 PROVE y \in S \ V
        BY DEF Shut
      <4>1. y \in S
        BY <2>2 DEF Shut
      <4>2. ASSUME y \in V PROVE FALSE
        <5>1. x \in V \/ d1[x] < k
          BY <3>3, <4>2
        <5>2. QED
          BY <1>1, <3>3, <5>1
      <4>3. QED
        BY <4>1, <4>2
    <3>5. Shield(c1, d1, u, S \ V)
      BY <1>1, <2>2, <3>1, <3>2, <3>3, <3>4 DEF Shield
    <3>6. QED
      BY <3>5
  <2>5. QED
    BY <1>1, <2>3, <2>4
<1>5. QED
  BY <1>4 DEF NoGap

\* The arc s -> t has come, and the arcs A of a path over the nodes On, from s to a node f
\* that can take one more, have been turned.  A set that no arc leaves, except from s,
\* holds f if it holds a node of the path behind s.
ThroughPath(c, A, On, s, f) ==
  /\ On \in SUBSET Node /\ s \in On /\ f \in On
  /\ \A x, y \in Node : <<x, y>> \in A => x \in On /\ y \in On /\ c[x][y] > 0
  /\ \A x \in Node : <<x, s>> \notin A
  /\ \E y \in Node : <<s, y>> \in A
  /\ \A S \in SUBSET Node : Shut(c, S) /\ s \in S => On \subseteq S
  /\ \A S \in SUBSET Node :
       (\A x \in S \ {s}, y \in Node : c[x][y] > 0 => y \in S) /\ (\E x \in S : x \in On /\ x # s)
         => f \in S

LEMMA InsertionTurned ==
  ASSUME NEW c0, NEW d0, NEW c1, NEW d1, Counted(c0, d0), Counted(c1, d1), NoGap(c0, d0),
         NEW s \in Node, NEW t \in Node, ArcMore(c1, c0, s, t), DegMore(d1, d0, s),
         d0[s] <= d0[t],
         NEW f \in Node, d1[f] < d0[s], NEW A, NEW On, ThroughPath(c1, A, On, s, f),
         NEW c, NEW d, Turned(c, c1, A), DegMore(d, d0, f)
  PROVE  NoGap(c, d)
<1> PICK k : k = d0[s]
  OBVIOUS
<1>1. /\ k \in Nat /\ d1[s] = k + 1 /\ f # s /\ d0[f] < k /\ d0[t] >= k
      /\ \A x \in Node : d0[x] \in Nat /\ d[x] >= d0[x] /\ d[x] \in Nat
      /\ \A x \in Node \ {f} : d[x] = d0[x]
      /\ d[f] = d0[f] + 1
  <2>1. \A x \in Node : d0[x] \in Nat /\ d1[x] \in Nat
    BY DEF Counted
  <2>2. \A x \in Node : d1[x] = d0[x] + (IF x = s THEN 1 ELSE 0)
    BY DEF DegMore
  <2>3. \A x \in Node : d[x] = d0[x] + (IF x = f THEN 1 ELSE 0)
    BY DEF DegMore
  <2>4. QED
    BY <2>1, <2>2, <2>3
<1>2. PICK S1 : Shield(c0, d0, s, S1)
  BY DEF NoGap
<1>3. PICK S2 : Shield(c0, d0, t, S2)
  BY DEF NoGap
<1> PICK T : T = S1 \cup S2
  OBVIOUS
<1>4. /\ T \in SUBSET Node /\ s \in T /\ t \in T
      /\ \A x \in T : d0[x] + 1 >= k
  <2>1. \A x \in S1 : d0[x] + 1 >= k
    BY <1>2 DEF Shield
  <2>2. ASSUME NEW x \in S2 PROVE d0[x] + 1 >= k
    <3>1. d0[x] + 1 >= d0[t] /\ x \in Node
      BY <1>3 DEF Shield
    <3>2. QED
      BY <1>1, <3>1
  <2>3. QED
    BY <1>2, <1>3, <2>1, <2>2 DEF Shield
<1>5. Shut(c1, T)
  <2> SUFFICES ASSUME NEW x \in T, NEW y \in Node, c1[x][y] > 0 PROVE y \in T
    BY DEF Shut
  <2>1. c0[x][y] > 0 \/ y = t
    BY <1>4, ArcMoreExists
  <2>2. c0[x][y] > 0 => y \in T
    BY <1>2, <1>3 DEF Shield, Shut
  <2>3. QED
    BY <1>4, <2>1, <2>2
<1>6. On \subseteq T
  BY <1>4, <1>5 DEF ThroughPath
<1>7. ASSUME NEW x \in Node, NEW y \in Node, c[x][y] > 0
      PROVE  c1[x][y] > 0 \/ (x \in On /\ y \in On)
  <2>1. c1[x][y] > 0 \/ <<y, x>> \in A
    BY <1>7, TurnedExists DEF Counted
  <2>2. QED
    BY <2>1 DEF ThroughPath
<1>8. Shut(c, T)
  BY <1>4, <1>5, <1>6, <1>7 DEF Shut
<1>9. \A x \in T : d[x] + 1 >= k
  BY <1>1, <1>4
<1>10. ASSUME NEW u \in Node
       PROVE  \E S : Shield(c, d, u, S)
  <2>1. PICK S : Shield(c0, d0, u, S)
    BY DEF NoGap
  <2>2. S \in SUBSET Node /\ u \in S /\ Shut(c0, S) /\ \A x \in S : d0[x] + 1 >= d0[u]
    BY <2>1 DEF Shield
  <2>3. CASE u = f
    <3>1. \A x \in T : d[x] + 1 >= d[u]
      BY <1>1, <1>4, <1>9, <2>3
    <3>2. u \in T
      BY <1>6, <2>3 DEF ThroughPath
    <3>3. Shield(c, d, u, T)
      BY <1>4, <1>8, <3>1, <3>2 DEF Shield
    <3>4. QED
      BY <3>3
  <2>4. ASSUME NEW x \in S, NEW y \in Node, x # s, c1[x][y] > 0
        PROVE  y \in S
    <3>1. c0[x][y] > 0
      BY <2>2, <2>4, ArcMoreExists
    <3>2. QED
      BY <2>2, <3>1 DEF Shut
  <2>5. CASE u # f /\ \E x \in S : x \in On /\ x # s
    <3>1. f \in S
      BY <2>2, <2>4, <2>5 DEF ThroughPath
    <3>2. d[u] = d0[u] /\ d0[u] <= k
      BY <1>1, <2>2, <2>5, <3>1
    <3>3. Shut(c, S \cup T)
      <4> SUFFICES ASSUME NEW x \in S \cup T, NEW y \in Node, c[x][y] > 0 PROVE y \in S \cup T
        BY DEF Shut
      <4>1. CASE x \in T
        BY <1>8, <4>1 DEF Shut
      <4>2. CASE x \notin T
        BY <1>4, <1>6, <1>7, <2>2, <2>4, <4>2
      <4>3. QED
        BY <4>1, <4>2
    <3>4. \A x \in S \cup T : d[x] + 1 >= d[u]
      <4> TAKE x \in S \cup T
      <4>1. CASE x \in T
        BY <1>1, <1>4, <1>9, <3>2, <4>1
      <4>2. CASE x \in S
        <5>1. d0[x] + 1 >= d0[u] /\ x \in Node
          BY <2>2, <4>2
        <5>2. QED
          BY <1>1, <3>2, <5>1
      <4>3. QED
        BY <4>1, <4>2
    <3>5. Shield(c, d, u, S \cup T)
      BY <1>4, <2>2, <3>3, <3>4 DEF Shield
    <3>6. QED
      BY <3>5
  <2>6. CASE u # f /\ \A x \in S : x \in On => x = s
    <3>1. Shut(c, S)
      <4> SUFFICES ASSUME NEW x \in S, NEW y \in Node, c[x][y] > 0 PROVE y \in S
        BY DEF Shut
      <4>1. CASE x # s
        BY <1>7, <2>2, <2>4, <2>6, <4>1
      <4>2. CASE x = s
        <5>1. PICK z \in Node : <<s, z>> \in A
          BY DEF ThroughPath
        <5>2. z \in On /\ c1[s][z] > 0 /\ z # s /\ z \notin S
          BY <2>6, <5>1 DEF ThroughPath
        <5>3. z = t /\ ~(c0[s][t] > 0)
          <6>1. ~(c0[s][z] > 0)
            BY <2>2, <4>2, <5>2 DEF Shut
          <6>2. QED
            BY <5>2, <6>1, ArcMoreExists
        <5>4. y # t
          <6> SUFFICES ASSUME y = t PROVE FALSE
            OBVIOUS
          <6>1. c0[s][t] = 0 /\ c1[s][t] = c0[s][t] + 1
            BY <5>3 DEF ArcMore, Counted
          <6>2. <<s, t>> \in A /\ <<t, s>> \notin A
            BY <5>1, <5>3 DEF ThroughPath
          <6>3. c[s][t] = c1[s][t] + 0 - 1
            BY <6>2 DEF Turned
          <6>4. QED
            BY <4>2, <6>1, <6>3
        <5>5. c1[s][y] > 0
          <6>1. <<y, s>> \notin A
            BY DEF ThroughPath
          <6>2. QED
            BY <4>2, <6>1, TurnedExists DEF Counted
        <5>6. c0[s][y] > 0
          BY <5>4, <5>5, ArcMoreExists
        <5>7. QED
          BY <2>2, <4>2, <5>6 DEF Shut
      <4>3. QED
        BY <4>1, <4>2
    <3>2. \A x \in S : d[x] + 1 >= d[u]
      <4> TAKE x \in S
      <4>1. d0[x] + 1 >= d0[u] /\ x \in Node /\ d[u] = d0[u]
        BY <1>1, <2>2, <2>6
      <4>2. QED
        BY <1>1, <4>1
    <3>3. Shield(c, d, u, S)
      BY <2>2, <3>1, <3>2 DEF Shield
    <3>4. QED
      BY <3>3
  <2>7. QED
    BY <2>3, <2>5, <2>6
<1>11. QED
  BY <1>10 DEF NoGap

\* The arc a -> b has gone, and the arcs A of a path over the nodes On, from a node f with
\* one too many to a, have been turned.
BackPath(c, A, On, a, f) ==
  /\ On \in SUBSET Node /\ a \in On /\ f \in On
  /\ \A x, y \in Node : <<x, y>> \in A => x \in On /\ y \in On
  /\ \A S \in SUBSET Node : Shut(c, S) /\ (\E x \in S : x \in On) => a \in S
  /\ \A S \in SUBSET Node : Shut(c, S) /\ f \in S => On \subseteq S

LEMMA DeletionTurned ==
  ASSUME NEW c0, NEW d0, NEW c1, NEW d1, Counted(c0, d0), Counted(c1, d1), NoGap(c0, d0),
         NEW a \in Node, NEW b \in Node, ArcMore(c0, c1, a, b), DegMore(d0, d1, a),
         NEW f \in Node, d1[f] > d0[a], NEW A, NEW On, BackPath(c1, A, On, a, f),
         NEW c, NEW d \in [Node -> Nat], Turned(c, c1, A), DegMore(d0, d, f)
  PROVE  NoGap(c, d)
<1> PICK k : k = d0[a]
  OBVIOUS
<1>1. /\ k \in Nat /\ d1[a] = k - 1 /\ f # a /\ d0[f] > k
      /\ \A x \in Node : d0[x] \in Nat /\ d[x] \in Nat /\ d[x] <= d0[x]
      /\ \A x \in Node \ {f} : d[x] = d0[x]
      /\ d[f] = d0[f] - 1
  <2>1. \A x \in Node : d0[x] \in Nat /\ d1[x] \in Nat /\ d[x] \in Nat
    BY DEF Counted
  <2>2. \A x \in Node : d0[x] = d1[x] + (IF x = a THEN 1 ELSE 0)
    BY DEF DegMore
  <2>3. \A x \in Node : d0[x] = d[x] + (IF x = f THEN 1 ELSE 0)
    BY DEF DegMore
  <2>4. QED
    BY <2>1, <2>2, <2>3
<1>2. ASSUME NEW S, Shut(c0, S), S \in SUBSET Node
      PROVE  Shut(c1, S)
  <2>1. \A x, y \in Node : c1[x][y] > 0 => c0[x][y] > 0
    BY ArcMoreExists
  <2>2. QED
    BY <1>2, <2>1 DEF Shut
<1>3. ASSUME NEW x \in Node, NEW y \in Node, c[x][y] > 0
      PROVE  c1[x][y] > 0 \/ (x \in On /\ y \in On)
  <2>1. c1[x][y] > 0 \/ <<y, x>> \in A
    BY <1>3, TurnedExists DEF Counted
  <2>2. QED
    BY <2>1 DEF BackPath
<1>4. PICK T : Shield(c0, d0, f, T)
  BY DEF NoGap
<1>5. T \in SUBSET Node /\ f \in T /\ Shut(c1, T) /\ \A x \in T : d0[x] + 1 >= d0[f]
  BY <1>2, <1>4 DEF Shield
<1>6. On \subseteq T /\ a \in T
  BY <1>5 DEF BackPath
<1>7. d0[f] = k + 1
  BY <1>1, <1>5, <1>6
<1>8. \A x \in T : d[x] >= k
  BY <1>1, <1>5, <1>7
<1>9. Shut(c, T)
  BY <1>3, <1>5, <1>6 DEF Shut
<1>10. ASSUME NEW u \in Node
       PROVE  \E S : Shield(c, d, u, S)
  <2>1. PICK S : Shield(c0, d0, u, S)
    BY DEF NoGap
  <2>2. S \in SUBSET Node /\ u \in S /\ Shut(c1, S) /\ \A x \in S : d0[x] + 1 >= d0[u]
    BY <1>2, <2>1 DEF Shield
  <2>3. CASE \A x \in S : x \notin On
    <3>1. f \notin S
      BY <2>3 DEF BackPath
    <3>2. Shut(c, S)
      BY <1>3, <2>2, <2>3 DEF Shut
    <3>3. \A x \in S : d[x] = d0[x]
      BY <1>1, <2>2, <3>1
    <3>4. Shield(c, d, u, S)
      BY <2>2, <3>2, <3>3 DEF Shield
    <3>5. QED
      BY <3>4
  <2>4. CASE \E x \in S : x \in On
    <3>1. a \in S
      BY <2>2, <2>4 DEF BackPath
    <3>2. k + 1 >= d0[u] /\ d0[u] >= d[u] /\ d[u] \in Nat /\ d0[u] \in Nat
      BY <1>1, <2>2, <3>1
    <3>3. Shut(c, S \cup T)
      <4> SUFFICES ASSUME NEW x \in S \cup T, NEW y \in Node, c[x][y] > 0 PROVE y \in S \cup T
        BY DEF Shut
      <4>1. CASE x \in T
        BY <1>9, <4>1 DEF Shut
      <4>2. CASE x \notin T
        BY <1>3, <1>6, <2>2, <4>2 DEF Shut
      <4>3. QED
        BY <4>1, <4>2
    <3>4. \A x \in S \cup T : d[x] + 1 >= d[u]
      <4> TAKE x \in S \cup T
      <4>1. CASE x \in T
        BY <1>1, <1>5, <1>8, <3>2, <4>1
      <4>2. CASE x \notin T
        <5>1. d0[x] + 1 >= d0[u] /\ x \in Node /\ x # f
          BY <1>5, <2>2, <4>2
        <5>2. QED
          BY <1>1, <3>2, <5>1
      <4>3. QED
        BY <4>1, <4>2
    <3>5. Shield(c, d, u, S \cup T)
      BY <1>5, <2>2, <3>3, <3>4 DEF Shield
    <3>6. QED
      BY <3>5
  <2>5. QED
    BY <2>3, <2>4
<1>11. QED
  BY <1>10 DEF NoGap

\* S holds more than m arcs per node.
HoldsMore(entries, degree, m, S) ==
  Cardinality({a \in UNION {{v} \X (1..degree[v]) : v \in S} : entries[a[1]][a[2]].first \in S})
    > m * Cardinality(S)

\* A shield of a node of maximum out-degree holds too many arcs for a smaller maximum.
LEMMA ShieldHoldsArcs ==
  ASSUME NEW entries, NEW degree, ListsOK(entries, degree),
         NEW u \in Node, Shielded(ArcCounts(entries, degree), degree, u),
         NEW k \in Nat \ {0}, k = degree[u]
  PROVE  \E S \in SUBSET Node : HoldsMore(entries, degree, k - 1, S)
<1>1. /\ degree \in [Node -> Nat] /\ entries \in [Node -> Seq(Entry)]
      /\ \A v \in Node : degree[v] <= Len(entries[v])
  BY DEF ListsOK
<1>2. PICK S : Shield(ArcCounts(entries, degree), degree, u, S)
  BY DEF Shielded
<1>3. /\ S \in SUBSET Node /\ u \in S
      /\ \A v \in S : degree[v] >= k - 1 /\ degree[v] \in Nat
  BY <1>1, <1>2 DEF Shield
<1>4. ASSUME NEW v \in S, NEW i \in 1..degree[v]
      PROVE  entries[v][i].first \in S
  <2> PICK y : y = entries[v][i].first
    OBVIOUS
  <2>1. y \in Node
    <3>1. v \in Node /\ i \in 1..Len(entries[v])
      BY <1>1, <1>3
    <3>2. QED
      BY <1>1, <3>1, EntryFields
  <2>2. ArcCounts(entries, degree)[v][y] > 0
    BY <1>1, <1>3, <2>1, ArcExists
  <2>3. QED
    BY <1>2, <2>1, <2>2 DEF Shield, Shut
<1> DEFINE X == UNION {{v} \X (1..degree[v]) : v \in S}
           Y == {a \in X : entries[a[1]][a[2]].first \in S}
           P == S \X (1..k - 1)
<1>5. IsFiniteSet(Node)
  BY NodeAssumption
<1>6. IsFiniteSet(S) /\ Cardinality(S) \in Nat
  BY <1>3, <1>5, FS_Subset, FS_CardinalityType
<1>7. ASSUME NEW a, a \in P \/ a = <<u, k>>
      PROVE  a \in Y
  <2>1. PICK v \in S : \E i \in 1..degree[v] : a = <<v, i>>
    <3>1. CASE a \in P
      <4>1. PICK v \in S : \E i \in 1..k - 1 : a = <<v, i>>
        BY <3>1
      <4>2. degree[v] >= k - 1 /\ degree[v] \in Nat
        BY <1>3
      <4>3. \A i \in 1..k - 1 : i \in 1..degree[v]
        BY <4>2
      <4>4. QED
        BY <4>1, <4>3
    <3>2. CASE a = <<u, k>>
      BY <1>3, <3>2
    <3>3. QED
      BY <1>7, <3>1, <3>2
  <2>2. PICK i \in 1..degree[v] : a = <<v, i>>
    BY <2>1
  <2>3. a \in X
    BY <2>2
  <2> HIDE DEF X
  <2>5. entries[a[1]][a[2]].first \in S
    BY <1>4, <2>2
  <2>6. QED
    BY <2>3, <2>5
<1>8. IsFiniteSet(Y)
  <2>1. \A T \in {{v} \X (1..degree[v]) : v \in S} : IsFiniteSet(T)
    <3>1. ASSUME NEW v \in S PROVE IsFiniteSet({v} \X (1..degree[v]))
      <4>1. IsFiniteSet({v}) /\ IsFiniteSet(1..degree[v])
        <5>1. 1 \in Int /\ degree[v] \in Int
          BY <1>3
        <5>2. QED
          BY ONLY <5>1, FS_Singleton, FS_Interval
      <4>2. QED
        BY <4>1, FS_Product
    <3>2. QED
      BY <3>1
  <2>2. IsFiniteSet({{v} \X (1..degree[v]) : v \in S})
    <3> DEFINE row == [v \in S |-> {v} \X (1..degree[v])]
               rows == {{v} \X (1..degree[v]) : v \in S}
    <3>1. row \in Surjection(S, rows)
      BY DEF Surjection
    <3> HIDE DEF row, rows
    <3>2. IsFiniteSet(rows)
      BY <1>6, <3>1, FS_Surjection
    <3>3. QED
      BY <3>2 DEF rows
  <2>3. IsFiniteSet(X)
    BY <2>1, <2>2, FS_UNION
  <2> HIDE DEF X
  <2>4. Y \subseteq X
    OBVIOUS
  <2>5. QED
    BY <2>3, <2>4, FS_Subset
<1>9. IsFiniteSet(P) /\ Cardinality(P) = Cardinality(S) * (k - 1)
  <2>1. IsFiniteSet(1..k - 1) /\ Cardinality(1..k - 1) = k - 1
    <3> PICK j \in Nat : j = k - 1
      OBVIOUS
    <3>1. j \in Int /\ 1 \in Int
      OBVIOUS
    <3>2. IsFiniteSet(1..j) /\ Cardinality(1..j) = IF 1 > j THEN 0 ELSE j - 1 + 1
      BY ONLY <3>1, FS_Interval
    <3>3. QED
      BY <3>2
  <2>2. QED
    BY <1>6, <2>1, FS_Product
<1>10. <<u, k>> \notin P
  OBVIOUS
<1> HIDE DEF P, Y
<1>11. IsFiniteSet(P \cup {<<u, k>>}) /\ Cardinality(P \cup {<<u, k>>}) = Cardinality(P) + 1
  BY <1>9, <1>10, FS_AddElement
<1>12. P \cup {<<u, k>>} \subseteq Y
  BY <1>7
<1>13. Cardinality(P \cup {<<u, k>>}) <= Cardinality(Y)
  BY <1>8, <1>12, FS_Subset
<1>14. Cardinality(Y) \in Nat /\ Cardinality(P) \in Nat
  BY <1>8, <1>9, FS_CardinalityType
<1>15. Cardinality(Y) > Cardinality(S) * (k - 1)
  BY <1>9, <1>11, <1>13, <1>14
<1>16. Cardinality(S) * (k - 1) = (k - 1) * Cardinality(S)
  BY <1>6
<1>17. QED
  BY <1>3, <1>15, <1>16 DEF Y, HoldsMore

(****************************************************************************)
(* The path of a search, as arcs.  A search leads from x to y over an arc   *)
(* x -> y when it goes forward and over an arc y -> x when it goes back.    *)
(****************************************************************************)
Step == Node \X Nat \X Node

Leads(dir, c, x, y) == IF dir = "forward" THEN c[x][y] > 0 ELSE c[y][x] > 0

ShutFor(dir, c, S) == \A x \in S, y \in Node : Leads(dir, c, x, y) => y \in S

ShutForBut(dir, c, S, s) == \A x \in S \ {s}, y \in Node : Leads(dir, c, x, y) => y \in S

ArcTail(dir, step) == IF dir = "forward" THEN step[1] ELSE step[3]
ArcHead(dir, step) == IF dir = "forward" THEN step[3] ELSE step[1]

PathArcs(dir, p) ==
  {a \in Node \X Node : \E k \in 1..Len(p) : a = <<ArcTail(dir, p[k]), ArcHead(dir, p[k])>>}

OnSteps(p) == {x \in Node : \E k \in 1..Len(p) : x = p[k][1] \/ x = p[k][3]}

\* The steps lie in the lists of different nodes, and each arc starts where the one before
\* it ends.
Chain(dir, p) ==
  /\ p \in Seq(Step)
  /\ \A k, l \in 1..Len(p) : k # l => p[k][1] # p[l][1]
  /\ \A k \in 1..Len(p) - 1 : ArcHead(dir, p[k]) = ArcTail(dir, p[k + 1])

\* The walk back from f has come to cur on its way to s.
PathFrom(dir, c, p, s, f, cur) ==
  /\ Chain(dir, p)
  /\ \A k \in 1..Len(p) : p[k][3] # s /\ Leads(dir, c, p[k][1], p[k][3])
  /\ p = <<>> => cur = f
  /\ p # <<>> => IF dir = "forward" THEN p[1][1] = cur /\ p[Len(p)][3] = f
                                    ELSE p[1][3] = f /\ p[Len(p)][1] = cur
  /\ \A S \in SUBSET Node :
       ShutForBut(dir, c, S, s) /\ (\E x \in S : x \in OnSteps(p) \cup {cur} /\ x # s) => f \in S

LEMMA PathFromStart ==
  ASSUME NEW dir, NEW c, NEW s, NEW f
  PROVE  PathFrom(dir, c, <<>>, s, f, f)
<1>1. <<>> \in Seq(Step) /\ Len(<<>>) = 0
  OBVIOUS
<1>2. OnSteps(<<>>) = {} /\ Chain(dir, <<>>)
  BY <1>1 DEF OnSteps, Chain
<1>3. QED
  BY <1>1, <1>2 DEF PathFrom

\* The path has grown by a step at u.
PathGrown(dir, p, n, q, step, u, f) ==
  /\ q \in Seq(Step) /\ Len(q) = n + 1
  /\ \A k \in 1..n + 1 : q[k] = step \/ \E l \in 1..n : q[k] = p[l]
  /\ \A k, l \in 1..n + 1 : k # l => q[k][1] # q[l][1]
  /\ \A k \in 1..n : ArcHead(dir, q[k]) = ArcTail(dir, q[k + 1])
  /\ IF dir = "forward" THEN q[1][1] = u /\ q[Len(q)][3] = f
                        ELSE q[1][3] = f /\ q[Len(q)][1] = u

\* The walk back goes on from cur to its parent u.
LEMMA PathFromExtended ==
  ASSUME NEW dir, NEW c, NEW p, NEW s, NEW f, NEW cur \in Node, PathFrom(dir, c, p, s, f, cur),
         cur # s, NEW u \in Node, NEW i \in Nat, Leads(dir, c, u, cur),
         \A k \in 1..Len(p) : p[k][1] # u,
         NEW q, q = IF dir = "forward" THEN <<<<u, i, cur>>>> \o p ELSE Append(p, <<u, i, cur>>)
  PROVE  PathFrom(dir, c, q, s, f, u)
<1> PICK step \in Step : step = <<u, i, cur>>
  BY DEF Step
<1>1. step[1] = u /\ step[3] = cur
  OBVIOUS
<1>2. /\ p \in Seq(Step) /\ Len(p) \in Nat
      /\ \A k, l \in 1..Len(p) : k # l => p[k][1] # p[l][1]
      /\ \A k \in 1..Len(p) - 1 : ArcHead(dir, p[k]) = ArcTail(dir, p[k + 1])
      /\ \A k \in 1..Len(p) : p[k][3] # s /\ Leads(dir, c, p[k][1], p[k][3])
      /\ p = <<>> => cur = f
      /\ p # <<>> => IF dir = "forward" THEN p[1][1] = cur /\ p[Len(p)][3] = f
                                        ELSE p[1][3] = f /\ p[Len(p)][1] = cur
  BY DEF PathFrom, Chain
<1> PICK n \in Nat : n = Len(p)
  BY <1>2
<1>3. ASSUME dir = "forward"
      PROVE  PathGrown(dir, p, n, q, step, u, f)
  <2>1. /\ q \in Seq(Step) /\ Len(q) = n + 1 /\ q[1] = step
        /\ \A k \in 2..n + 1 : q[k] = p[k - 1]
    <3>1. q = <<step>> \o p
      BY <1>3
    <3>2. QED
      BY <1>2, <3>1
  <2>2. ASSUME NEW k \in 1..n + 1
        PROVE  q[k] = step \/ \E l \in 1..n : q[k] = p[l]
    <3>1. k # 1 => k - 1 \in 1..n /\ k \in 2..n + 1
      OBVIOUS
    <3>2. QED
      BY <2>1, <3>1
  <2>3. ASSUME NEW k \in 1..n + 1, NEW l \in 1..n + 1, k # l
        PROVE  q[k][1] # q[l][1]
    <3>1. CASE k = 1
      <4>1. l - 1 \in 1..n /\ q[l] = p[l - 1] /\ q[k] = step
        BY <2>1, <2>3, <3>1
      <4>2. QED
        BY <1>1, <4>1
    <3>2. CASE l = 1
      <4>1. k - 1 \in 1..n /\ q[k] = p[k - 1] /\ q[l] = step
        BY <2>1, <2>3, <3>2
      <4>2. QED
        BY <1>1, <4>1
    <3>3. CASE k # 1 /\ l # 1
      <4>1. k - 1 \in 1..n /\ l - 1 \in 1..n /\ k - 1 # l - 1
        BY <2>3, <3>3
      <4>2. q[k] = p[k - 1] /\ q[l] = p[l - 1]
        BY <2>1, <3>3
      <4>3. QED
        BY <1>2, <4>1, <4>2
    <3>4. QED
      BY <3>1, <3>2, <3>3
  <2>4. ASSUME NEW k \in 1..n
        PROVE  ArcHead(dir, q[k]) = ArcTail(dir, q[k + 1])
    <3>1. k + 1 \in 2..n + 1 /\ k + 1 - 1 = k
      OBVIOUS
    <3>2. q[k + 1] = p[k]
      BY <2>1, <3>1
    <3>3. CASE k = 1
      <4>1. p # <<>>
        BY <1>2
      <4>2. QED
        BY <1>1, <1>2, <1>3, <2>1, <3>2, <3>3, <4>1 DEF ArcHead, ArcTail
    <3>4. CASE k # 1
      <4>1. k - 1 \in 1..Len(p) - 1 /\ k - 1 + 1 = k
        BY <3>4
      <4>2. q[k] = p[k - 1]
        BY <2>1, <3>4
      <4>3. ArcHead(dir, p[k - 1]) = ArcTail(dir, p[k - 1 + 1])
        BY <1>2, <4>1
      <4>4. QED
        BY <3>2, <4>1, <4>2, <4>3
    <3>5. QED
      BY <3>3, <3>4
  <2>5. q[Len(q)][3] = f
    <3>1. CASE p = <<>>
      <4>1. Len(q) = 1
        BY <2>1, <3>1
      <4>2. QED
        BY <1>1, <1>2, <2>1, <3>1, <4>1
    <3>2. CASE p # <<>>
      <4>1. n # 0
        BY <1>2, <3>2
      <4>2. q[n + 1] = p[n]
        BY <2>1, <4>1
      <4>3. QED
        BY <1>2, <1>3, <2>1, <3>2, <4>2
    <3>3. QED
      BY <3>1, <3>2
  <2>6. QED
    <3>1. q[1][1] = u
      BY <1>1, <2>1
    <3>2. q \in Seq(Step) /\ Len(q) = n + 1
      BY <2>1
    <3>3. QED
      BY ONLY <1>3, <2>2, <2>3, <2>4, <2>5, <3>1, <3>2 DEF PathGrown
<1>4. ASSUME dir # "forward"
      PROVE  PathGrown(dir, p, n, q, step, u, f)
  <2>1. /\ q \in Seq(Step) /\ Len(q) = n + 1 /\ q[n + 1] = step
        /\ \A k \in 1..n : q[k] = p[k]
    <3>1. q = Append(p, step)
      BY <1>4
    <3>2. QED
      BY <1>2, <3>1
  <2>2. \A k \in 1..n + 1 : q[k] = step \/ \E l \in 1..n : q[k] = p[l]
    BY <2>1
  <2>3. ASSUME NEW k \in 1..n + 1, NEW l \in 1..n + 1, k # l
        PROVE  q[k][1] # q[l][1]
    <3>1. CASE k = n + 1
      <4>1. l \in 1..n /\ q[l] = p[l] /\ q[k] = step
        BY <2>1, <2>3, <3>1
      <4>2. QED
        BY <1>1, <4>1
    <3>2. CASE l = n + 1
      <4>1. k \in 1..n /\ q[k] = p[k] /\ q[l] = step
        BY <2>1, <2>3, <3>2
      <4>2. QED
        BY <1>1, <4>1
    <3>3. CASE k # n + 1 /\ l # n + 1
      <4>1. k \in 1..n /\ l \in 1..n
        BY <3>3
      <4>2. q[k] = p[k] /\ q[l] = p[l]
        BY <2>1, <4>1
      <4>3. QED
        BY <1>2, <2>3, <4>1, <4>2
    <3>4. QED
      BY <3>1, <3>2, <3>3
  <2>4. ASSUME NEW k \in 1..n
        PROVE  ArcHead(dir, q[k]) = ArcTail(dir, q[k + 1])
    <3>1. q[k] = p[k]
      BY <2>1
    <3>2. CASE k = n
      <4>1. p # <<>>
        BY <1>2
      <4>2. QED
        BY <1>1, <1>2, <1>4, <2>1, <3>1, <3>2, <4>1 DEF ArcHead, ArcTail
    <3>3. CASE k # n
      <4>1. k \in 1..Len(p) - 1 /\ k + 1 \in 1..n
        BY <3>3
      <4>2. q[k + 1] = p[k + 1]
        BY <2>1, <4>1
      <4>3. ArcHead(dir, p[k]) = ArcTail(dir, p[k + 1])
        BY <1>2, <4>1
      <4>4. QED
        BY <3>1, <4>2, <4>3
    <3>4. QED
      BY <3>2, <3>3
  <2>5. q[1][3] = f
    <3>1. CASE p = <<>>
      <4>1. n = 0
        BY <3>1
      <4>2. QED
        BY <1>1, <1>2, <2>1, <3>1, <4>1
    <3>2. CASE p # <<>>
      <4>1. 1 \in 1..n
        BY <1>2, <3>2
      <4>2. QED
        BY <1>2, <1>4, <2>1, <3>2, <4>1
    <3>3. QED
      BY <3>1, <3>2
  <2>6. QED
    <3>1. q[Len(q)][1] = u
      BY <1>1, <2>1
    <3>2. q \in Seq(Step) /\ Len(q) = n + 1
      BY <2>1
    <3>3. QED
      BY ONLY <1>4, <2>2, <2>3, <2>4, <2>5, <3>1, <3>2 DEF PathGrown
<1>5. PathGrown(dir, p, n, q, step, u, f)
  BY ONLY <1>3, <1>4
<1>6. Len(q) = n + 1 /\ q # <<>> /\ Chain(dir, q)
  <2>1. Len(q) = n + 1 /\ n + 1 - 1 = n
    BY <1>5 DEF PathGrown
  <2>2. q # <<>>
    BY <2>1
  <2>3. /\ q \in Seq(Step)
        /\ \A k, l \in 1..Len(q) : k # l => q[k][1] # q[l][1]
        /\ \A k \in 1..Len(q) - 1 : ArcHead(dir, q[k]) = ArcTail(dir, q[k + 1])
    BY ONLY <1>5, <2>1 DEF PathGrown
  <2>4. QED
    BY <2>1, <2>2, <2>3 DEF Chain
<1>7. \A k \in 1..Len(q) : q[k][3] # s /\ Leads(dir, c, q[k][1], q[k][3])
  BY <1>1, <1>2, <1>5, <1>6 DEF PathGrown
<1>8. ASSUME NEW S \in SUBSET Node, ShutForBut(dir, c, S, s),
             NEW x \in S, x \in OnSteps(q) \cup {u}, x # s
      PROVE  f \in S
  <2>1. ASSUME NEW y \in S, y \in OnSteps(p) \cup {cur}, y # s
        PROVE  f \in S
    BY <1>8, <2>1 DEF PathFrom
  <2>2. CASE x = u
    <3>1. cur \in S
      BY <1>8, <2>2 DEF ShutForBut
    <3>2. QED
      BY <2>1, <3>1
  <2>3. CASE x # u
    <3>1. x \in OnSteps(p) \cup {cur}
      <4>1. PICK k \in 1..Len(q) : x = q[k][1] \/ x = q[k][3]
        BY <1>8, <2>3 DEF OnSteps
      <4>2. q[k] # step => \E l \in 1..n : q[k] = p[l]
        BY <1>5, <1>6 DEF PathGrown
      <4>3. CASE q[k] = step
        BY <1>1, <2>3, <4>1, <4>3
      <4>4. CASE q[k] # step
        BY <4>1, <4>2, <4>4 DEF OnSteps
      <4>5. QED
        BY <4>3, <4>4
    <3>2. QED
      BY <1>8, <2>1, <3>1
  <2>4. QED
    BY <2>2, <2>3
<1>9. QED
  BY <1>5, <1>6, <1>7, <1>8 DEF PathFrom, PathGrown

(****************************************************************************)
(* The update, the search after it and the flips.                           *)
(****************************************************************************)

\* The search ends at v.
EndsAt(dir, d, k, v) == IF dir = "forward" THEN d[v] < k ELSE d[v] > k

\* Counts c0, d0 have become c1, d1: an arc has come at s, and the search goes forward over
\* nodes of degree k, or one has gone, and it goes back.
Update(dir, k, c0, d0, s, t, c1, d1) ==
  /\ Counted(c0, d0) /\ s \in Node /\ t \in Node /\ k = d0[s]
  /\ IF dir = "forward" THEN ArcMore(c1, c0, s, t) /\ DegMore(d1, d0, s) /\ d0[s] <= d0[t]
                        ELSE ArcMore(c0, c1, s, t) /\ DegMore(d0, d1, s)

\* There was no gap before.
Changed(dir, k, c0, d0, s, t, c1, d1) ==
  NoGap(c0, d0) /\ Update(dir, k, c0, d0, s, t, c1, d1)

\* The search from s finds nothing that it cannot reach.
Reached(dir, c, nodes, s) ==
  \A S \in SUBSET Node : s \in S /\ ShutFor(dir, c, S) => nodes \subseteq S

DegTurned(d, d1, from, to) ==
  \A x \in Node : d[x] = d1[x] + (IF x = to THEN 1 ELSE 0) - (IF x = from THEN 1 ELSE 0)

FirstTail(dir, p, last) == IF p = <<>> THEN last ELSE ArcTail(dir, p[1])

\* When the steps of p have been turned, the counts are c, d.
Turning(dir, p, c1, d1, c, d, last) ==
  /\ Chain(dir, p) /\ last \in Node
  /\ p # <<>> => ArcHead(dir, p[Len(p)]) = last
  /\ c = [x \in Node |-> [y \in Node |-> c[x][y]]] /\ d = [x \in Node |-> d[x]]
  /\ Turned(c, c1, PathArcs(dir, p))
  /\ DegTurned(d, d1, FirstTail(dir, p, last), last)

\* Then there will be no gap.
Flipping(dir, p, c1, d1, c, d, last) == NoGap(c, d) /\ Turning(dir, p, c1, d1, c, d, last)

\* Counts c, d come of c1, d1 by turning the arcs A of a path over the nodes On that connects
\* s, where the search began, with f, where it ended.
Crossing(dir, s, f, c1, d1, A, On, c, d) ==
  /\ Turned(c, c1, A)
  /\ IF dir = "forward" THEN ThroughPath(c1, A, On, s, f) /\ DegTurned(d, d1, s, f)
                        ELSE BackPath(c1, A, On, s, f) /\ DegTurned(d, d1, f, s)

LEMMA SearchFails ==
  ASSUME NEW dir, NEW k, NEW c0, NEW d0, NEW s, NEW t, NEW c1, NEW d1, Counted(c1, d1),
         Changed(dir, k, c0, d0, s, t, c1, d1), NEW V \in SUBSET Node, s \in V,
         \A v \in V \ {s} : d1[v] = k,
         \A v \in V, w \in Node :
           Leads(dir, c1, v, w) => w \in V \/ ~(EndsAt(dir, d1, k, w) \/ d1[w] = k)
  PROVE  NoGap(c1, d1)
<1>1. /\ Counted(c0, d0) /\ NoGap(c0, d0) /\ s \in Node /\ t \in Node /\ k = d0[s]
      /\ k \in Nat /\ \A w \in Node : d1[w] \in Nat
  BY DEF Changed, Update, Counted
<1>2. CASE dir = "forward"
  <2>1. ArcMore(c1, c0, s, t) /\ DegMore(d1, d0, s)
    BY <1>2 DEF Changed, Update
  <2>2. ASSUME NEW v \in V, NEW w \in Node, c1[v][w] > 0
        PROVE  w \in V \/ d1[w] > k
    <3>1. w \in V \/ ~(d1[w] < k \/ d1[w] = k)
      BY <1>2, <2>2 DEF Leads, EndsAt
    <3>2. QED
      BY <1>1, <3>1
  <2>3. QED
    BY <1>1, <2>1, <2>2, InsertionStuck
<1>3. CASE dir # "forward"
  <2>1. ArcMore(c0, c1, s, t) /\ DegMore(d0, d1, s)
    BY <1>3 DEF Changed, Update
  <2>2. ASSUME NEW v \in V, NEW w \in Node, c1[w][v] > 0
        PROVE  w \in V \/ d1[w] < k
    <3>1. w \in V \/ ~(d1[w] > k \/ d1[w] = k)
      BY <1>3, <2>2 DEF Leads, EndsAt
    <3>2. QED
      BY <1>1, <3>1
  <2>3. QED
    BY <1>1, <2>1, <2>2, DeletionStuck
<1>4. QED
  BY <1>2, <1>3

\* The walk back is over: what the turned path will change.
LEMMA PathTurns ==
  ASSUME NEW dir, NEW s \in Node, NEW c1, NEW d1, Counted(c1, d1), NEW nodes \in SUBSET Node,
         Reached(dir, c1, nodes, s), NEW f \in nodes, f # s,
         NEW p, PathFrom(dir, c1, p, s, f, s), OnSteps(p) \subseteq nodes
  PROVE  \E c, d, last, A, On : /\ Turning(dir, p, c1, d1, c, d, last)
                               /\ Crossing(dir, s, f, c1, d1, A, On, c, d)
<1>1. /\ f \in Node /\ \A x \in Node : d1[x] \in Nat
  BY DEF Counted
<1>3. /\ Chain(dir, p) /\ p # <<>>
      /\ \A j \in 1..Len(p) : p[j][3] # s /\ Leads(dir, c1, p[j][1], p[j][3])
      /\ IF dir = "forward" THEN p[1][1] = s /\ p[Len(p)][3] = f
                            ELSE p[1][3] = f /\ p[Len(p)][1] = s
  BY DEF PathFrom
<1>4. /\ p \in Seq(Step) /\ Len(p) \in Nat /\ 1 \in 1..Len(p) /\ Len(p) \in 1..Len(p)
      /\ \A j \in 1..Len(p) : p[j] \in Step
  BY <1>3 DEF Chain
<1>5. \A j \in 1..Len(p) : p[j][1] \in Node /\ p[j][3] \in Node
  BY <1>4 DEF Step
<1> PICK A, On : A = PathArcs(dir, p) /\ On = OnSteps(p)
  OBVIOUS
<1>6. On \in SUBSET Node /\ s \in On /\ f \in On /\ On \subseteq nodes
  BY <1>3, <1>4, <1>5 DEF OnSteps
<1>7. ASSUME NEW x \in Node, NEW y \in Node, <<x, y>> \in A
      PROVE  /\ x \in On /\ y \in On /\ c1[x][y] > 0
             /\ dir = "forward" => y # s
  <2>1. PICK j \in 1..Len(p) : x = ArcTail(dir, p[j]) /\ y = ArcHead(dir, p[j])
    BY <1>7 DEF PathArcs
  <2>2. x \in On /\ y \in On
    BY <2>1 DEF OnSteps, ArcTail, ArcHead
  <2>3. Leads(dir, c1, p[j][1], p[j][3]) /\ p[j][3] # s
    BY <1>3
  <2>4. QED
    BY <2>1, <2>2, <2>3 DEF ArcTail, ArcHead, Leads
<1>8. <<ArcTail(dir, p[1]), ArcHead(dir, p[1])>> \in A
  <2>1. ArcTail(dir, p[1]) \in Node /\ ArcHead(dir, p[1]) \in Node
    BY <1>4, <1>5 DEF ArcTail, ArcHead
  <2>2. QED
    BY <1>4, <2>1 DEF PathArcs
<1>9. ASSUME NEW S \in SUBSET Node, ShutForBut(dir, c1, S, s), NEW x \in S, x \in On, x # s
      PROVE  f \in S
  BY <1>9 DEF PathFrom
<1>10. ASSUME NEW S \in SUBSET Node, ShutFor(dir, c1, S), s \in S
       PROVE  On \subseteq S
  BY <1>6, <1>10 DEF Reached
<1> PICK c : c = [x \in Node |-> [y \in Node |->
                    c1[x][y] + (IF <<y, x>> \in A THEN 1 ELSE 0)
                      - (IF <<x, y>> \in A THEN 1 ELSE 0)]]
  OBVIOUS
<1>11. Turned(c, c1, A) /\ c = [x \in Node |-> [y \in Node |-> c[x][y]]]
  BY DEF Turned
<1> PICK from, to : /\ from = (IF dir = "forward" THEN s ELSE f)
                    /\ to = (IF dir = "forward" THEN f ELSE s)
  OBVIOUS
<1> PICK d : d = [x \in Node |-> d1[x] + (IF x = to THEN 1 ELSE 0) - (IF x = from THEN 1 ELSE 0)]
  OBVIOUS
<1>12. DegTurned(d, d1, from, to) /\ d = [x \in Node |-> d[x]]
  BY DEF DegTurned
<1>13. FirstTail(dir, p, to) = from /\ ArcHead(dir, p[Len(p)]) = to /\ to \in Node
  BY <1>1, <1>3 DEF FirstTail, ArcTail, ArcHead
<1>14. Turning(dir, p, c1, d1, c, d, to)
  BY <1>3, <1>11, <1>12, <1>13 DEF Turning
<1>15. ASSUME dir = "forward"
       PROVE  ThroughPath(c1, A, On, s, f)
  <2>1. \E y \in Node : <<s, y>> \in A
    <3>1. ArcTail(dir, p[1]) = s /\ ArcHead(dir, p[1]) \in Node
      BY <1>3, <1>4, <1>5, <1>15 DEF ArcTail, ArcHead
    <3>2. QED
      BY <1>8, <3>1
  <2>2. ASSUME NEW S \in SUBSET Node, Shut(c1, S), s \in S
        PROVE  On \subseteq S
    <3>1. ShutFor(dir, c1, S)
      BY <1>15, <2>2 DEF Shut, ShutFor, Leads
    <3>2. QED
      BY <1>10, <2>2, <3>1
  <2>3. ASSUME NEW S \in SUBSET Node, \A x \in S \ {s}, y \in Node : c1[x][y] > 0 => y \in S,
               NEW x \in S, x \in On, x # s
        PROVE  f \in S
    <3>1. ShutForBut(dir, c1, S, s)
      BY <1>15, <2>3 DEF ShutForBut, Leads
    <3>2. QED
      BY <1>9, <2>3, <3>1
  <2>4. \A x \in Node : <<x, s>> \notin A
    BY <1>1, <1>7, <1>15
  <2>5. QED
    BY <1>6, <1>7, <2>1, <2>2, <2>3, <2>4 DEF ThroughPath
<1>16. ASSUME dir # "forward"
       PROVE  BackPath(c1, A, On, s, f)
  <2>0. ASSUME NEW S \in SUBSET Node, Shut(c1, S)
        PROVE  ShutFor(dir, c1, Node \ S) /\ ShutForBut(dir, c1, Node \ S, s)
    BY <1>16, <2>0 DEF Shut, ShutFor, ShutForBut, Leads
  <2>1. ASSUME NEW S \in SUBSET Node, Shut(c1, S), NEW x \in S, x \in On
        PROVE  s \in S
    <3>1. Node \ S \in SUBSET Node /\ x \notin Node \ S
      OBVIOUS
    <3>2. QED
      BY <1>1, <1>10, <2>0, <2>1, <3>1
  <2>2. ASSUME NEW S \in SUBSET Node, Shut(c1, S), f \in S
        PROVE  On \subseteq S
    <3> SUFFICES ASSUME NEW x \in On, x \notin S PROVE FALSE
      OBVIOUS
    <3>1. s \in S
      <4>1. f \in On
        BY <1>6
      <4>2. QED
        BY <2>1, <2>2, <4>1
    <3>2. x \in Node \ S /\ x # s
      BY <1>6, <3>1
    <3>3. f \in Node \ S
      BY <1>9, <2>0, <2>2, <3>2
    <3>4. QED
      BY <2>2, <3>3
  <2>3. QED
    BY <1>6, <1>7, <2>1, <2>2 DEF BackPath
<1>17. Crossing(dir, s, f, c1, d1, A, On, c, d)
  BY <1>11, <1>12, <1>15, <1>16 DEF Crossing
<1>18. QED
  BY <1>14, <1>17

\* The path leaves no gap.
LEMMA WalkEnds ==
  ASSUME NEW dir, NEW k, NEW c0, NEW d0, NEW s, NEW t, NEW c1, NEW d1, Counted(c1, d1),
         Changed(dir, k, c0, d0, s, t, c1, d1), NEW nodes \in SUBSET Node,
         Reached(dir, c1, nodes, s), NEW f \in nodes, EndsAt(dir, d1, k, f),
         NEW p, PathFrom(dir, c1, p, s, f, s), OnSteps(p) \subseteq nodes
  PROVE  \E c, d, last : Flipping(dir, p, c1, d1, c, d, last)
<1>1. /\ Counted(c0, d0) /\ NoGap(c0, d0) /\ s \in Node /\ t \in Node /\ k = d0[s] /\ f \in Node
      /\ k \in Nat /\ \A x \in Node : d1[x] \in Nat /\ d0[x] \in Nat
  BY DEF Changed, Update, Counted
<1>2. f # s
  <2>1. CASE dir = "forward"
    <3>1. d1[s] = k + 1 /\ d1[f] < k
      BY <1>1, <2>1 DEF Changed, Update, DegMore, EndsAt
    <3>2. QED
      BY <1>1, <3>1
  <2>2. CASE dir # "forward"
    <3>1. k = d1[s] + 1 /\ d1[f] > k
      BY <1>1, <2>2 DEF Changed, Update, DegMore, EndsAt
    <3>2. QED
      BY <1>1, <3>1
  <2>3. QED
    BY <2>1, <2>2
<1>3. PICK c, d, last, A, On : /\ Turning(dir, p, c1, d1, c, d, last)
                               /\ Crossing(dir, s, f, c1, d1, A, On, c, d)
  BY ONLY <1>1, <1>2, PathTurns, Counted(c1, d1), nodes \in SUBSET Node, f \in nodes,
          Reached(dir, c1, nodes, s), PathFrom(dir, c1, p, s, f, s), OnSteps(p) \subseteq nodes
<1>4. Turned(c, c1, A) /\ \A x \in Node : d[x] \in Int
  <2>1. DegTurned(d, d1, s, f) \/ DegTurned(d, d1, f, s)
    BY <1>3 DEF Crossing
  <2>2. QED
    BY <1>1, <1>3, <2>1 DEF Crossing, DegTurned
<1>5. CASE dir = "forward"
  <2>1. ArcMore(c1, c0, s, t) /\ DegMore(d1, d0, s) /\ d0[s] <= d0[t] /\ d1[f] < d0[s]
    BY <1>1, <1>5 DEF Changed, Update, EndsAt
  <2>2. ThroughPath(c1, A, On, s, f) /\ DegTurned(d, d1, s, f)
    BY <1>3, <1>5 DEF Crossing
  <2>3. DegMore(d, d0, f)
    <3> SUFFICES ASSUME NEW x \in Node
                 PROVE  d[x] = d0[x] + (IF x = f THEN 1 ELSE 0)
      BY DEF DegMore
    <3>1. d1[x] = d0[x] + (IF x = s THEN 1 ELSE 0) /\ d0[x] \in Nat
      BY <1>1, <2>1 DEF DegMore
    <3>2. d[x] = d1[x] + (IF x = f THEN 1 ELSE 0) - (IF x = s THEN 1 ELSE 0)
      BY <2>2 DEF DegTurned
    <3>3. QED
      BY ONLY <3>1, <3>2
  <2>4. NoGap(c, d)
    BY ONLY <1>1, <1>4, <2>1, <2>2, <2>3, Counted(c1, d1), InsertionTurned
  <2>5. QED
    BY <1>3, <2>4 DEF Flipping
<1>6. CASE dir # "forward"
  <2>1. ArcMore(c0, c1, s, t) /\ DegMore(d0, d1, s) /\ d1[f] > d0[s]
    BY <1>1, <1>6 DEF Changed, Update, EndsAt
  <2>2. BackPath(c1, A, On, s, f) /\ DegTurned(d, d1, f, s)
    BY <1>3, <1>6 DEF Crossing
  <2>3. ASSUME NEW x \in Node
        PROVE  d[x] \in Nat /\ d0[x] = d[x] + (IF x = f THEN 1 ELSE 0)
    <3>1. d0[x] = d1[x] + (IF x = s THEN 1 ELSE 0) /\ d1[x] \in Nat /\ (x = f => d1[x] > 0)
      BY <1>1, <2>1 DEF DegMore
    <3>2. d[x] = d1[x] + (IF x = s THEN 1 ELSE 0) - (IF x = f THEN 1 ELSE 0)
      BY <2>2 DEF DegTurned
    <3>3. QED
      BY ONLY <3>1, <3>2
  <2>4. d \in [Node -> Nat] /\ DegMore(d0, d, f)
    <3>1. d = [x \in Node |-> d[x]]
      BY <1>3 DEF Turning
    <3>2. QED
      BY <2>3, <3>1 DEF DegMore
  <2>5. NoGap(c, d)
    BY ONLY <1>1, <1>4, <2>1, <2>2, <2>4, Counted(c1, d1), DeletionTurned
  <2>6. QED
    BY <1>3, <2>5 DEF Flipping
<1>7. QED
  BY <1>5, <1>6

\* A flip leaves the counts at the end of the flips what they are.
LEMMA TurningGoesOn ==
  ASSUME NEW dir, NEW p, NEW c1, NEW d1, NEW c, NEW d, NEW last, Counted(c1, d1),
         Turning(dir, p, c1, d1, c, d, last), p # <<>>,
         NEW u, NEW v, u = ArcTail(dir, p[1]), v = ArcHead(dir, p[1]), u # v,
         NEW c2, NEW d2, ArcTurned(c2, c1, u, v), d2 = DegreeFlipped(d1, u, v),
         NEW q, q = Tail(p)
  PROVE  Turning(dir, q, c2, d2, c, d, last)
<1>1. /\ Chain(dir, p) /\ last \in Node /\ ArcHead(dir, p[Len(p)]) = last
      /\ c = [x \in Node |-> [y \in Node |-> c[x][y]]] /\ d = [x \in Node |-> d[x]]
      /\ Turned(c, c1, PathArcs(dir, p)) /\ DegTurned(d, d1, u, last)
  BY DEF Turning, FirstTail
<1>2. /\ p \in Seq(Step) /\ Len(p) \in Nat \ {0}
      /\ \A k, l \in 1..Len(p) : k # l => p[k][1] # p[l][1]
      /\ \A k \in 1..Len(p) - 1 : ArcHead(dir, p[k]) = ArcTail(dir, p[k + 1])
  BY <1>1 DEF Chain
<1> PICK n \in Nat : Len(p) = n + 1
  <2>1. Len(p) - 1 \in Nat /\ Len(p) = Len(p) - 1 + 1
    BY <1>2
  <2>2. QED
    BY <2>1
<1>3. /\ q \in Seq(Step) /\ Len(q) = n
      /\ \A k \in 1..n : q[k] = p[k + 1]
  BY <1>2
<1>4. \A k \in 1..n : k + 1 \in 1..Len(p) /\ k + 1 # 1
  OBVIOUS
<1>5. Chain(dir, q)
  <2>1. ASSUME NEW k \in 1..n, NEW l \in 1..n, k # l
        PROVE  q[k][1] # q[l][1]
    <3>1. k + 1 # l + 1
      BY <2>1
    <3>2. QED
      BY <1>2, <1>3, <1>4, <3>1
  <2>2. ASSUME NEW k \in 1..n - 1
        PROVE  ArcHead(dir, q[k]) = ArcTail(dir, q[k + 1])
    <3>1. k \in 1..n /\ k + 1 \in 1..n /\ k + 1 \in 1..Len(p) - 1
      OBVIOUS
    <3>2. q[k] = p[k + 1] /\ q[k + 1] = p[k + 1 + 1]
      BY <1>3, <3>1
    <3>3. QED
      BY <1>2, <3>1, <3>2
  <2>3. QED
    BY <1>3, <2>1, <2>2 DEF Chain
<1>6. /\ u \in Node /\ v \in Node
      /\ \A k \in 1..Len(p) : ArcTail(dir, p[k]) \in Node /\ ArcHead(dir, p[k]) \in Node
  <2>1. \A k \in 1..Len(p) : p[k] \in Step
    BY <1>2
  <2>2. \A k \in 1..Len(p) : ArcTail(dir, p[k]) \in Node /\ ArcHead(dir, p[k]) \in Node
    BY <2>1 DEF Step, ArcTail, ArcHead
  <2>3. 1 \in 1..Len(p)
    OBVIOUS
  <2>4. QED
    BY <2>2, <2>3
<1> PICK A, B : A = PathArcs(dir, p) /\ B = PathArcs(dir, q)
  OBVIOUS
<1>7. <<u, v>> \notin B
  <2> SUFFICES ASSUME <<u, v>> \in B PROVE FALSE
    OBVIOUS
  <2>1. PICK k \in 1..n : u = ArcTail(dir, q[k]) /\ v = ArcHead(dir, q[k])
    BY <1>3 DEF PathArcs
  <2>2. p[k + 1][1] = p[1][1]
    BY <1>3, <2>1 DEF ArcTail, ArcHead
  <2>3. 1 \in 1..Len(p) /\ k + 1 \in 1..Len(p) /\ k + 1 # 1
    BY <1>4
  <2>4. QED
    BY <1>2, <2>2, <2>3
<1>8. ASSUME NEW x \in Node, NEW y \in Node
      PROVE  <<x, y>> \in A <=> <<x, y>> \in B \/ (x = u /\ y = v)
  <2>1. ASSUME <<x, y>> \in A PROVE <<x, y>> \in B \/ (x = u /\ y = v)
    <3>1. PICK k \in 1..Len(p) : x = ArcTail(dir, p[k]) /\ y = ArcHead(dir, p[k])
      BY <2>1 DEF PathArcs
    <3>2. CASE k = 1
      BY <3>1, <3>2
    <3>3. CASE k # 1
      <4>1. k - 1 \in 1..n /\ k - 1 + 1 = k
        BY <3>3
      <4>2. q[k - 1] = p[k]
        BY <1>3, <4>1
      <4>3. QED
        BY <1>3, <3>1, <4>1, <4>2 DEF PathArcs
    <3>4. QED
      BY <3>2, <3>3
  <2>2. ASSUME <<x, y>> \in B PROVE <<x, y>> \in A
    <3>1. PICK k \in 1..n : x = ArcTail(dir, q[k]) /\ y = ArcHead(dir, q[k])
      BY <1>3, <2>2 DEF PathArcs
    <3>2. QED
      BY <1>3, <1>4, <3>1 DEF PathArcs
  <2>3. ASSUME x = u, y = v PROVE <<x, y>> \in A
    <3>1. 1 \in 1..Len(p)
      OBVIOUS
    <3>2. QED
      BY <2>3, <3>1 DEF PathArcs
  <2>4. QED
    BY <2>1, <2>2, <2>3
<1>9. Turned(c, c2, B)
  <2> SUFFICES ASSUME NEW x \in Node, NEW y \in Node
               PROVE  c[x][y] = c2[x][y] + (IF <<y, x>> \in B THEN 1 ELSE 0)
                                         - (IF <<x, y>> \in B THEN 1 ELSE 0)
    BY DEF Turned
  <2>1. c[x][y] = c1[x][y] + (IF <<y, x>> \in A THEN 1 ELSE 0) - (IF <<x, y>> \in A THEN 1 ELSE 0)
    BY <1>1 DEF Turned
  <2>2. c2[x][y] = c1[x][y] + (IF x = v /\ y = u THEN 1 ELSE 0) - (IF x = u /\ y = v THEN 1 ELSE 0)
    BY DEF ArcTurned
  <2>3. c1[x][y] \in Nat
    BY DEF Counted
  <2>4. /\ <<x, y>> \in A <=> <<x, y>> \in B \/ (x = u /\ y = v)
        /\ <<y, x>> \in A <=> <<y, x>> \in B \/ (y = u /\ x = v)
    BY <1>8
  <2>5. ~(<<x, y>> \in B /\ x = u /\ y = v) /\ ~(<<y, x>> \in B /\ y = u /\ x = v)
    BY <1>7
  <2>6. QED
    BY ONLY <2>1, <2>2, <2>3, <2>4, <2>5
<1>10. /\ FirstTail(dir, q, last) = v
       /\ q # <<>> => ArcHead(dir, q[Len(q)]) = last
  <2>1. CASE n = 0
    <3>1. q = <<>> /\ p[Len(p)] = p[1]
      BY <1>3, <2>1
    <3>2. QED
      BY <1>1, <3>1 DEF FirstTail
  <2>2. CASE n # 0
    <3>1. 1 \in 1..n /\ n \in 1..n /\ 1 \in 1..Len(p) - 1
      BY <1>3, <2>2
    <3>1a. q # <<>>
      BY <1>3, <2>2
    <3>2. q[1] = p[1 + 1] /\ q[n] = p[Len(p)]
      BY <1>3, <3>1
    <3>3. ArcHead(dir, p[1]) = ArcTail(dir, p[1 + 1])
      BY <1>2, <3>1
    <3>4. QED
      BY <1>1, <1>3, <3>1, <3>1a, <3>2, <3>3 DEF FirstTail
  <2>3. QED
    BY <2>1, <2>2
<1>11. DegTurned(d, d2, v, last)
  <2> SUFFICES ASSUME NEW x \in Node
               PROVE  d[x] = d2[x] + (IF x = last THEN 1 ELSE 0) - (IF x = v THEN 1 ELSE 0)
    BY DEF DegTurned
  <2>1. d[x] = d1[x] + (IF x = last THEN 1 ELSE 0) - (IF x = u THEN 1 ELSE 0) /\ d1[x] \in Nat
    BY <1>1 DEF DegTurned, Counted
  <2>2. d2[x] = d1[x] + (IF x = v THEN 1 ELSE 0) - (IF x = u THEN 1 ELSE 0)
    <3>1. d2[x] = (IF x = v THEN d1[x] + 1 ELSE IF x = u THEN d1[x] - 1 ELSE d1[x])
      BY <1>6 DEF DegreeFlipped, Counted
    <3>2. u # v
      OBVIOUS
    <3>3. QED
      BY ONLY <2>1, <3>1, <3>2
  <2>3. QED
    BY ONLY <2>1, <2>2
<1>12. QED
  BY <1>1, <1>5, <1>9, <1>10, <1>11 DEF Turning

LEMMA TurningOver ==
  ASSUME NEW dir, NEW c1, NEW d1, NEW c, NEW d, NEW last, Counted(c1, d1),
         Turning(dir, <<>>, c1, d1, c, d, last)
  PROVE  c = c1 /\ d = d1
<1>1. PathArcs(dir, <<>>) = {}
  BY DEF PathArcs
<1>2. ASSUME NEW x \in Node, NEW y \in Node PROVE c[x][y] = c1[x][y]
  <2>1. c[x][y] = c1[x][y] + (IF <<y, x>> \in {} THEN 1 ELSE 0) - (IF <<x, y>> \in {} THEN 1 ELSE 0)
    BY <1>1 DEF Turning, Turned
  <2>2. c1[x][y] \in Nat
    BY DEF Counted
  <2>3. QED
    BY ONLY <2>1, <2>2
<1>3. \A x \in Node : d[x] = d1[x]
  BY DEF Turning, DegTurned, FirstTail, Counted
<1>4. c = [x \in Node |-> [y \in Node |-> c[x][y]]] /\ d = [x \in Node |-> d[x]]
  BY DEF Turning
<1>5. /\ c1 = [x \in Node |-> c1[x]] /\ \A x \in Node : c1[x] = [y \in Node |-> c1[x][y]]
      /\ d1 = [x \in Node |-> d1[x]]
  BY DEF Counted
<1>6. \A x \in Node : c[x] = c1[x]
  <2> SUFFICES ASSUME NEW x \in Node PROVE c[x] = c1[x]
    OBVIOUS
  <2>1. c[x] = [y \in Node |-> c[x][y]]
    BY <1>4
  <2>2. c1[x] = [y \in Node |-> c1[x][y]]
    BY <1>5
  <2>3. QED
    BY <1>2, <2>1, <2>2
<1>7. c = [x \in Node |-> c[x]]
  BY <1>4
<1>8. c = c1
  BY ONLY <1>5, <1>6, <1>7
<1>9. d = d1
  BY ONLY <1>3, <1>4, <1>5
<1>10. QED
  BY <1>8, <1>9

LEMMA FlippingOver ==
  ASSUME NEW dir, NEW c1, NEW d1, NEW c, NEW d, NEW last, Counted(c1, d1),
         Flipping(dir, <<>>, c1, d1, c, d, last)
  PROVE  NoGap(c1, d1)
<1>1. c = c1 /\ d = d1
  BY TurningOver DEF Flipping
<1>2. QED
  BY <1>1 DEF Flipping

(****************************************************************************)
(* The search, the walk back and the flips, in terms of the counts of the   *)
(* lists.                                                                   *)
(****************************************************************************)
Counts == ArcCounts(m_adj, m_out_degree)

LEMMA CountsCounted ==
  ASSUME WellLinked(m_adj, m_out_degree)
  PROVE  Counted(Counts, m_out_degree)
<1>1. m_out_degree \in [Node -> Nat]
  BY DEF WellLinked, ListsOK
<1>2. QED
  BY <1>1, ArcCountsType DEF Counted, Counts

LEMMA CountsExist ==
  ASSUME m_out_degree \in [Node -> Nat], NEW u \in Node, NEW x \in Node
  PROVE  Counts[u][x] > 0 <=> \E p \in 1..m_out_degree[u] : m_adj[u][p].first = x
<1> PICK entries, degree : entries = m_adj /\ degree = m_out_degree
  OBVIOUS
<1>1. degree \in [Node -> Nat]
  OBVIOUS
<1>2. ArcCounts(entries, degree)[u][x] > 0 <=> \E p \in 1..degree[u] : entries[u][p].first = x
  BY ONLY <1>1, u \in Node, x \in Node, ArcExists
<1>3. QED
  BY <1>2 DEF Counts

\* A search looks at an entry of u for x if and only if it can go from u to x.
LEMMA LeadsScanned ==
  ASSUME WellLinked(m_adj, m_out_degree), NEW u \in Node, NEW x \in Node
  PROVE  Leads(direction, Counts, u, x) <=> \E p \in scanned(u) : m_adj[u][p].first = x
<1>1. /\ m_adj \in [Node -> Seq(Entry)] /\ m_out_degree \in [Node -> Nat]
      /\ LinkedBut(m_adj, m_out_degree, {})
      /\ \A v \in Node : m_out_degree[v] <= Len(m_adj[v]) /\ Len(m_adj[v]) \in Nat
                                                         /\ m_out_degree[v] \in Nat
  BY DEF WellLinked, ListsOK
<1>2. CASE direction = "forward"
  <2>1. Leads(direction, Counts, u, x) <=> Counts[u][x] > 0
    BY <1>2 DEF Leads
  <2>2. scanned(u) = 1..m_out_degree[u]
    BY <1>2 DEF scanned
  <2>3. Counts[u][x] > 0 <=> \E i \in 1..m_out_degree[u] : m_adj[u][i].first = x
    BY <1>1, CountsExist, u \in Node, x \in Node
  <2>4. QED
    BY <2>1, <2>2, <2>3
<1>3. CASE direction # "forward"
  <2>1. Leads(direction, Counts, u, x) <=> \E i \in 1..m_out_degree[x] : m_adj[x][i].first = u
    <3>1. Leads(direction, Counts, u, x) <=> Counts[x][u] > 0
      BY <1>3 DEF Leads
    <3>2. Counts[x][u] > 0 <=> \E i \in 1..m_out_degree[x] : m_adj[x][i].first = u
      BY <1>1, CountsExist, u \in Node, x \in Node
    <3>3. QED
      BY <3>1, <3>2
  <2>2. scanned(u) = m_out_degree[u] + 1..Len(m_adj[u])
    BY <1>3 DEF scanned
  <2>3. ASSUME NEW i \in 1..m_out_degree[x], m_adj[x][i].first = u
        PROVE  \E p \in scanned(u) : m_adj[u][p].first = x
    <3>1. i \in 1..Len(m_adj[x]) /\ i <= m_out_degree[x]
      BY <1>1
    <3>2. LinkedAt(m_adj, m_out_degree, {}, x, i)
      BY <1>1, <3>1 DEF LinkedBut
    <3> PICK p : p = m_adj[x][i].second
      OBVIOUS
    <3>3. p \in 1..Len(m_adj[u]) /\ m_adj[u][p].first = x /\ p > m_out_degree[u]
      BY <2>3, <3>1, <3>2 DEF LinkedAt
    <3>4. p \in scanned(u)
      BY <1>1, <2>2, <3>3
    <3>5. QED
      BY <3>3, <3>4
  <2>4. ASSUME NEW p \in scanned(u), m_adj[u][p].first = x
        PROVE  \E i \in 1..m_out_degree[x] : m_adj[x][i].first = u
    <3>1. p \in 1..Len(m_adj[u]) /\ ~(p <= m_out_degree[u])
      BY <1>1, <2>2
    <3>2. LinkedAt(m_adj, m_out_degree, {}, u, p)
      BY <1>1, <3>1 DEF LinkedBut
    <3> PICK i : i = m_adj[u][p].second
      OBVIOUS
    <3>3. i \in 1..Len(m_adj[x]) /\ m_adj[x][i].first = u /\ ~(i > m_out_degree[x])
      BY <2>4, <3>1, <3>2 DEF LinkedAt
    <3>4. i \in 1..m_out_degree[x]
      BY <1>1, <3>3
    <3>5. QED
      BY <3>3, <3>4
  <2>5. QED
    BY <2>1, <2>3, <2>4
<1>4. QED
  BY <1>2, <1>3

LEMMA StepLeads ==
  ASSUME WellLinked(m_adj, m_out_degree), NEW u, NEW p, NEW x \in Node, StepValid(u, p, x)
  PROVE  Leads(direction, Counts, u, x)
<1>1. /\ u \in Node /\ p \in 1..Len(m_adj[u]) /\ m_adj[u][p].first = x
      /\ p <= m_out_degree[u] <=> direction = "forward"
  BY DEF StepValid
<1>2. m_out_degree[u] \in Nat /\ Len(m_adj[u]) \in Nat
  BY <1>1 DEF WellLinked, ListsOK
<1>3. p \in scanned(u)
  BY <1>1, <1>2 DEF scanned
<1>4. QED
  BY <1>1, <1>3, LeadsScanned

\* Only s is its own parent.
RootIs(nodes, s) == s \in nodes /\ \A v \in nodes : m_parent[v][1] = v <=> v = s

\* The walk back goes from a node at which the search has ended to s.
Walked(nodes, s) ==
  \E f \in nodes : /\ EndsAt(direction, m_out_degree, m_max_degree, f)
                   /\ PathFrom(direction, Counts, path, s, f, curNode)
                   /\ OnSteps(path) \subseteq nodes

LEMMA WalkGoesOn ==
  ASSUME WellLinked(m_adj, m_out_degree), walkBack, m_parent[curNode][1] # curNode,
         NEW nodes \in SUBSET Node, NEW rank, Tree(nodes, rank), WalkedDown(nodes, rank),
         NEW s, RootIs(nodes, s), Walked(nodes, s)
  PROVE  Walked(nodes, s)'
<1> PICK cur, u, j : cur = curNode /\ u = m_parent[curNode][1] /\ j = m_parent[curNode][2]
  OBVIOUS
<1>1. /\ UNCHANGED m_adj /\ UNCHANGED m_out_degree /\ UNCHANGED direction /\ UNCHANGED m_max_degree
      /\ path' = IF direction = "forward" THEN <<<<u, j, cur>>>> \o path
                                          ELSE Append(path, <<u, j, cur>>)
      /\ curNode' = u
  BY DEF walkBack, lists
<1>2. /\ cur \in nodes /\ cur # s /\ u \in nodes /\ StepValid(u, j, cur) /\ rank[u] < rank[cur]
      /\ u # cur
  BY DEF RootIs, WalkedDown, Tree
<1>3. /\ u \in Node /\ cur \in Node /\ j \in Nat /\ Leads(direction, Counts, u, cur)
  <2>1. u \in Node /\ j \in 1..Len(m_adj[u])
    BY <1>2 DEF StepValid
  <2>2. Len(m_adj[u]) \in Nat
    BY <2>1 DEF WellLinked, ListsOK
  <2>3. QED
    BY <1>2, <2>1, <2>2, StepLeads
<1>4. \A k \in 1..Len(path) : path[k][1] # u
  <2>1. \A k \in 1..Len(path) : path[k][1] \in nodes /\ rank[path[k][1]] >= rank[cur]
    BY DEF WalkedDown
  <2>2. rank[u] \in Nat /\ rank[cur] \in Nat
    BY <1>2 DEF Tree
  <2>3. QED
    BY <1>2, <2>1, <2>2
<1>5. PICK f \in nodes : /\ EndsAt(direction, m_out_degree, m_max_degree, f)
                         /\ PathFrom(direction, Counts, path, s, f, cur)
                         /\ OnSteps(path) \subseteq nodes
  BY DEF Walked
<1> PICK q, dir, c, p : q = path' /\ dir = direction /\ c = Counts /\ p = path
  OBVIOUS
<1>6. PathFrom(dir, c, q, s, f, u)
  <2>1. /\ PathFrom(dir, c, p, s, f, cur) /\ cur # s /\ cur \in Node /\ u \in Node /\ j \in Nat
        /\ Leads(dir, c, u, cur) /\ \A k \in 1..Len(p) : p[k][1] # u
    BY <1>2, <1>3, <1>4, <1>5
  <2>2. q = IF dir = "forward" THEN <<<<u, j, cur>>>> \o p ELSE Append(p, <<u, j, cur>>)
    BY <1>1
  <2>3. QED
    BY ONLY <2>1, <2>2, PathFromExtended
<1>7. OnSteps(q) \subseteq nodes
  <2>1. p \in Seq(Step) /\ <<u, j, cur>> \in Step
    BY <1>3, <1>5 DEF PathFrom, Chain, Step
  <2>2. \A k \in 1..Len(q) : q[k] = <<u, j, cur>> \/ \E l \in 1..Len(p) : q[k] = p[l]
    <3>1. CASE dir = "forward"
      <4>1. q = <<<<u, j, cur>>>> \o p
        BY <1>1, <3>1
      <4>2. /\ Len(q) = Len(p) + 1 /\ q[1] = <<u, j, cur>>
            /\ \A k \in 2..Len(q) : k - 1 \in 1..Len(p) /\ q[k] = p[k - 1]
        BY <2>1, <4>1
      <4>3. QED
        BY <4>2
    <3>2. CASE dir # "forward"
      <4>1. q = Append(p, <<u, j, cur>>)
        BY <1>1, <3>2
      <4>2. /\ Len(q) = Len(p) + 1 /\ q[Len(p) + 1] = <<u, j, cur>>
            /\ \A k \in 1..Len(p) : q[k] = p[k]
        BY <2>1, <4>1
      <4>3. Len(p) \in Nat
        BY <2>1
      <4>4. QED
        BY <4>2, <4>3
    <3>3. QED
      BY <3>1, <3>2
  <2>3. ASSUME NEW x \in OnSteps(q) PROVE x \in nodes
    <3>1. PICK k \in 1..Len(q) : x \in Node /\ (x = q[k][1] \/ x = q[k][3])
      BY DEF OnSteps
    <3>2. CASE q[k] = <<u, j, cur>>
      BY <1>2, <3>1, <3>2
    <3>3. CASE \E l \in 1..Len(p) : q[k] = p[l]
      <4>1. x \in OnSteps(p)
        BY <3>1, <3>3 DEF OnSteps
      <4>2. QED
        BY <1>5, <4>1
    <3>4. QED
      BY <2>2, <3>2, <3>3
  <2>4. QED
    BY <2>3
<1>8. QED
  <2>1. Counts' = c /\ direction' = dir /\ m_out_degree' = m_out_degree /\ m_max_degree' = m_max_degree
    BY <1>1 DEF Counts
  <2>2. EndsAt(direction, m_out_degree, m_max_degree, f)'
    BY <1>5, <2>1 DEF EndsAt
  <2>3. PathFrom(direction', Counts', path', s, f, curNode')
    BY <1>1, <1>6, <2>1
  <2>4. (OnSteps(path) \subseteq nodes)'
    BY <1>7 DEF OnSteps
  <2>5. QED
    BY <2>2, <2>3, <2>4 DEF Walked

\* What the update has changed before the search from s.
UpdatedAt(s) ==
  \E c0, d0, t : Changed(direction, m_max_degree, c0, d0, s, t, Counts, m_out_degree)

\* Once the steps of the path are turned there will be no gap.
Closing == \E c, d, last : Flipping(direction, path, Counts, m_out_degree, c, d, last)

LEMMA WalkIsOver ==
  ASSUME WellLinked(m_adj, m_out_degree), m_parent[curNode][1] = curNode,
         NEW nodes \in SUBSET Node, NEW rank, WalkedDown(nodes, rank),
         NEW s, RootIs(nodes, s), Walked(nodes, s), UpdatedAt(s),
         Reached(direction, Counts, nodes, s)
  PROVE  Closing
<1>1. curNode = s
  BY DEF RootIs, WalkedDown
<1>2. PICK f \in nodes : /\ EndsAt(direction, m_out_degree, m_max_degree, f)
                         /\ PathFrom(direction, Counts, path, s, f, curNode)
                         /\ OnSteps(path) \subseteq nodes
  BY DEF Walked
<1>3. PICK c0, d0, t : Changed(direction, m_max_degree, c0, d0, s, t, Counts, m_out_degree)
  BY DEF UpdatedAt
<1> PICK dir, k, c1, d1, p : dir = direction /\ k = m_max_degree /\ c1 = Counts
                               /\ d1 = m_out_degree /\ p = path
  OBVIOUS
<1>4. /\ Changed(dir, k, c0, d0, s, t, c1, d1) /\ Counted(c1, d1) /\ Reached(dir, c1, nodes, s)
      /\ EndsAt(dir, d1, k, f) /\ PathFrom(dir, c1, p, s, f, s) /\ OnSteps(p) \subseteq nodes
  BY <1>1, <1>2, <1>3, CountsCounted
<1>5. \E c, d, last : Flipping(dir, p, c1, d1, c, d, last)
  BY ONLY <1>4, f \in nodes, nodes \in SUBSET Node, WalkEnds
<1>6. QED
  BY <1>5 DEF Closing

LEMMA FlipTurns ==
  ASSUME WellLinked(m_adj, m_out_degree), PathValid, flipNext, NEW c, NEW d, NEW last,
         Turning(direction, path, Counts, m_out_degree, c, d, last)
  PROVE  Turning(direction', path', Counts', m_out_degree', c, d, last)
<1> DEFINE u == Head(path)[1]
           offset == Head(path)[2]
           passive == m_adj[u][offset]
           tail == IF direction = "forward" THEN u ELSE passive.first
           entry == IF direction = "forward" THEN offset ELSE passive.second
           v == m_adj[tail][entry].first
<1>1. /\ path # <<>> /\ path' = Tail(path)
      /\ m_adj' = ActiveFlipped(m_adj, m_out_degree, tail, entry)
      /\ m_out_degree' = DegreeFlipped(m_out_degree, tail, v)
      /\ UNCHANGED direction
  BY DEF flipNext
<1>2. WellLinked(m_adj, m_out_degree) /\ PathValid
  OBVIOUS
<1>3. path \in Seq(Node \X Nat \X Node) /\ 1 \in 1..Len(path) /\ Head(path) = path[1]
  <2>1. path \in Seq(Node \X Nat \X Node) /\ path # <<>>
    BY <1>1, <1>2 DEF PathValid
  <2> HIDE DEF u, offset, tail, entry
  <2>2. QED
    BY <2>1
<1>4. StepValid(u, offset, path[1][3]) /\ u = path[1][1]
  BY <1>2, <1>3 DEF PathValid
<1> HIDE DEF u, offset
<1>5. /\ u \in Node /\ offset \in 1..Len(m_adj[u]) /\ m_adj[u][offset].first = path[1][3]
      /\ offset <= m_out_degree[u] <=> direction = "forward"
  BY <1>4 DEF StepValid
<1>6. /\ m_adj \in [Node -> Seq(Entry)] /\ m_out_degree \in [Node -> Nat]
      /\ LinkedBut(m_adj, m_out_degree, {})
  BY <1>2 DEF WellLinked, ListsOK
<1>7. /\ tail \in Node /\ entry \in 1..m_out_degree[tail]
      /\ tail = ArcTail(direction, path[1]) /\ v = ArcHead(direction, path[1])
  <2>1. CASE direction = "forward"
    <3>1. tail = u /\ entry = offset /\ m_out_degree[u] \in Nat /\ offset \in Nat /\ offset >= 1
      BY <1>5, <1>6, <2>1
    <3>2. QED
      BY <1>4, <1>5, <2>1, <3>1 DEF ArcTail, ArcHead
  <2>2. CASE direction # "forward"
    <3>1. tail = passive.first /\ entry = passive.second
      BY <2>2
    <3>2. LinkedAt(m_adj, m_out_degree, {}, u, offset)
      BY <1>5, <1>6 DEF LinkedBut
    <3>3. /\ tail \in Node /\ entry \in 1..Len(m_adj[tail])
          /\ m_adj[tail][entry].first = u
          /\ offset <= m_out_degree[u] <=> entry > m_out_degree[tail]
      BY <3>1, <3>2 DEF LinkedAt
    <3>4. entry <= m_out_degree[tail] /\ m_out_degree[tail] \in Nat
      BY <1>5, <1>6, <2>2, <3>3
    <3>5. QED
      BY <1>4, <1>5, <2>2, <3>1, <3>3, <3>4 DEF ArcTail, ArcHead
  <2>3. QED
    BY <2>1, <2>2
<1> HIDE DEF tail, entry, v
<1>8. v # tail
  BY <1>1, <1>2, <1>7, ActiveFlippedLinks DEF v
<1>9. ArcTurned(Counts', Counts, tail, v)
  BY <1>1, <1>2, <1>7, FlippedCounts DEF v, Counts
<1>10. Turning(direction, path, Counts, m_out_degree, c, d, last)
  OBVIOUS
<1> PICK dir, c1, d1, p, q, c2, d2, a, b :
      /\ dir = direction /\ c1 = Counts /\ d1 = m_out_degree /\ p = path /\ q = path'
      /\ c2 = Counts' /\ d2 = m_out_degree' /\ a = tail /\ b = v
  OBVIOUS
<1>11. /\ Counted(c1, d1) /\ Turning(dir, p, c1, d1, c, d, last) /\ p # <<>> /\ q = Tail(p)
       /\ a = ArcTail(dir, p[1]) /\ b = ArcHead(dir, p[1]) /\ a # b
       /\ ArcTurned(c2, c1, a, b) /\ d2 = DegreeFlipped(d1, a, b)
  BY <1>1, <1>7, <1>8, <1>9, <1>10, CountsCounted
<1>12. Turning(dir, q, c2, d2, c, d, last)
  BY ONLY <1>11, TurningGoesOn
<1>13. QED
  BY <1>1, <1>12

LEMMA FlipCloses ==
  ASSUME WellLinked(m_adj, m_out_degree), PathValid, flipNext, Closing
  PROVE  Closing'
<1>1. PICK c, d, last : Flipping(direction, path, Counts, m_out_degree, c, d, last)
  BY DEF Closing
<1>2. Turning(direction', path', Counts', m_out_degree', c, d, last)
  BY <1>1, FlipTurns DEF Flipping
<1>3. Flipping(direction', path', Counts', m_out_degree', c, d, last)
  BY <1>1, <1>2 DEF Flipping
<1>4. QED
  BY <1>3 DEF Closing

\* An insertion changes the counts as a forward search needs it.
LEMMA InsertionUpdates ==
  ASSUME NEW entries, NEW degree, WellLinked(entries, degree),
         NEW s \in Node, NEW t \in Node, s # t, degree[s] <= degree[t],
         NEW new, new = ArcInserted(entries, degree, s, t),
         NEW more, more = OneMore(degree, s)
  PROVE  /\ Update("forward", degree[s], ArcCounts(entries, degree), degree, s, t,
                    ArcCounts(new, more), more)
         /\ more[s] = degree[s] + 1
<1>1. ListsOK(entries, degree) /\ degree \in [Node -> Nat]
  BY DEF WellLinked, ListsOK
<1>2. ArcMore(ArcCounts(new, more), ArcCounts(entries, degree), s, t)
  BY ONLY <1>1, s \in Node, t \in Node, s # t, new = ArcInserted(entries, degree, s, t),
          more = OneMore(degree, s), ArcInsertedCounts
<1>3. DegMore(more, degree, s) /\ more[s] = degree[s] + 1
  BY <1>1 DEF OneMore, DegMore
<1>4. Counted(ArcCounts(entries, degree), degree)
  BY <1>1, ArcCountsType DEF Counted
<1>5. QED
  BY <1>2, <1>3, <1>4 DEF Update

\* A deletion changes them as a search back from the end that has lost an arc needs it.
LEMMA DeletionUpdates ==
  ASSUME NEW entries, NEW degree, WellLinked(entries, degree),
         NEW u \in Node, NEW i \in 1..Len(entries[u]),
         NEW v, v = entries[u][i].first, NEW k, k = entries[u][i].second,
         NEW one, one = EntryRemoved(entries, degree, u, i),
         NEW d1, d1 = DegreeAfter(degree, u, i),
         NEW new, new = EntryRemoved(one, d1, v, k),
         NEW d2, d2 = DegreeAfter(d1, v, k),
         NEW s, s = IF k <= d1[v] THEN v ELSE u
  PROVE  /\ s \in Node
         /\ \E t : Update("backward", d2[s] + 1, ArcCounts(entries, degree), degree, s, t,
                           ArcCounts(new, d2), d2)
<1>1. /\ s \in Node /\ DegMore(degree, d2, s)
      /\ \E t \in Node : ArcMore(ArcCounts(entries, degree), ArcCounts(new, d2), s, t)
  BY ONLY WellLinked(entries, degree), u \in Node, i \in 1..Len(entries[u]),
          v = entries[u][i].first, k = entries[u][i].second,
          one = EntryRemoved(entries, degree, u, i), d1 = DegreeAfter(degree, u, i),
          new = EntryRemoved(one, d1, v, k), d2 = DegreeAfter(d1, v, k),
          s = IF k <= d1[v] THEN v ELSE u, EdgeDeletedCounts
<1>2. degree \in [Node -> Nat]
  BY DEF WellLinked, ListsOK
<1>3. Counted(ArcCounts(entries, degree), degree)
  BY <1>2, ArcCountsType DEF Counted
<1>4. d2[s] + 1 = degree[s]
  BY <1>1 DEF DegMore
<1>5. QED
  BY <1>1, <1>3, <1>4 DEF Update

\* Lists without an entry.
LEMMA NothingNoGap ==
  ASSUME NEW entries, NEW degree, degree = [v \in Node |-> 0]
  PROVE  NoGap(ArcCounts(entries, degree), degree)
<1>1. \A u \in Node : Shield(ArcCounts(entries, degree), degree, u, Node)
  BY DEF Shield, Shut
<1>2. QED
  BY <1>1 DEF NoGap

\* Without a gap no orientation has a smaller maximum.
LEMMA NoGapIsOptimal ==
  ASSUME WellLinked(m_adj, m_out_degree), NoGap(Counts, m_out_degree)
  PROVE  MaximumNeeded
<1> PICK entries, degree : entries = m_adj /\ degree = m_out_degree
  OBVIOUS
<1>1. ListsOK(entries, degree) /\ NoGap(ArcCounts(entries, degree), degree)
  BY DEF WellLinked, Counts
<1>2. ASSUME NEW u \in Node, degree[u] # 0
      PROVE  \E S \in SUBSET Node : HoldsMore(entries, degree, degree[u] - 1, S)
  <2> PICK k \in Nat \ {0} : k = degree[u]
    BY <1>1, <1>2 DEF ListsOK
  <2>1. Shielded(ArcCounts(entries, degree), degree, u)
    BY <1>1 DEF NoGap, Shielded
  <2>2. QED
    BY ONLY <1>1, <2>1, u \in Node, k \in Nat \ {0}, k = degree[u], ShieldHoldsArcs
<1>3. ASSUME NEW u \in Node, m_out_degree[u] # 0
      PROVE  \E S \in SUBSET Node :
               Cardinality(SpannedArcs(S)) > (m_out_degree[u] - 1) * Cardinality(S)
  <2>1. PICK S \in SUBSET Node : HoldsMore(m_adj, m_out_degree, m_out_degree[u] - 1, S)
    BY <1>2, <1>3
  <2>2. Cardinality(SpannedArcs(S)) > (m_out_degree[u] - 1) * Cardinality(S)
    BY ONLY <2>1 DEF HoldsMore, SpannedArcs
  <2>3. QED
    BY <2>2
<1>4. QED
  BY <1>3 DEF MaximumNeeded

\* An edge of the graph has an entry to delete.
LEMMA EntryToDelete ==
  ASSUME NEW entries \in [Node -> Seq(Entry)], NEW copies \in [Edge -> Nat],
         Matched(entries, copies),
         NEW u \in Node, NEW v \in Node, u # v, copies[{u, v}] > 0
  PROVE  /\ FirstEntry(entries, u, v) \in 1..Len(entries[u])
         /\ entries[u][FirstEntry(entries, u, v)].first = v
<1>1. {u, v} \in Edge
  BY DEF Edge
<1>2. copies[{u, v}] \in Nat /\ Multiplicity(entries, u, v) # 0
  BY <1>1 DEF Matched
<1>3. QED
  BY <1>2, FirstEntryExists

(****************************************************************************)
(* The core of the improved algorithms, in terms of arc counts and          *)
(* out-degrees: why a maximum of k cannot be lowered, and how an update     *)
(* keeps this known.                                                        *)
(****************************************************************************)
AtLevel(d, k) == {v \in Node : d[v] = k}

AtMost(d, k) == \A v \in Node : d[v] <= k

\* No arc leaves S, every node with k arcs is in it, and none with less than k - 1.
IsCore(c, d, k, S) ==
  /\ S \in SUBSET Node /\ S # {} /\ Shut(c, S) /\ AtLevel(d, k) \subseteq S
  /\ \A v \in S : d[v] + 1 >= k

\* m nodes are at the maximum k; perhaps none any more.
Thinned(c, d, k, m) ==
  /\ k \in Nat \ {0} /\ AtMost(d, k) /\ m = Cardinality(AtLevel(d, k))
  /\ \E S : IsCore(c, d, k, S)

Certified(c, d, k, m) == Thinned(c, d, k, m) /\ m # 0

\* The maximum k and the number m of nodes that have it, of a graph or of none.
Known(c, d, k, m) ==
  Certified(c, d, k, m) \/ (k = 0 /\ m = 0 /\ \A v \in Node : d[v] = 0)

\* All nodes of P have the maximum k, and nowhere to hand an arc to.
Plateau(c, d, k, P) ==
  P \in SUBSET Node /\ P # {} /\ Shut(c, P) /\ \A v \in P : d[v] = k

\* Arcs from T lead to T or to the maximum.
Tried(c, d, k, T) ==
  /\ T \in SUBSET Node /\ \A v \in T : d[v] + 1 >= k
  /\ \A v \in T, w \in Node : c[v][w] > 0 => w \in T \/ d[w] = k

LEMMA LevelFinite ==
  ASSUME NEW d, NEW k
  PROVE  /\ IsFiniteSet(AtLevel(d, k)) /\ Cardinality(AtLevel(d, k)) \in Nat
         /\ Cardinality(AtLevel(d, k)) # 0 <=> \E v \in Node : d[v] = k
<1>1. IsFiniteSet(AtLevel(d, k))
  BY NodeAssumption, FS_Subset DEF AtLevel
<1>2. Cardinality(AtLevel(d, k)) \in Nat
  BY <1>1, FS_CardinalityType
<1>3. Cardinality(AtLevel(d, k)) = 0 <=> AtLevel(d, k) = {}
  BY <1>1, FS_EmptySet
<1>4. QED
  BY <1>1, <1>2, <1>3 DEF AtLevel

\* x has come to the level.
LEMMA LevelGains ==
  ASSUME NEW d, NEW e, NEW k, NEW x \in Node, d[x] # k, e[x] = k,
         \A v \in Node \ {x} : e[v] = k <=> d[v] = k
  PROVE  Cardinality(AtLevel(e, k)) = Cardinality(AtLevel(d, k)) + 1
<1>1. AtLevel(e, k) = AtLevel(d, k) \cup {x} /\ x \notin AtLevel(d, k)
  BY DEF AtLevel
<1>2. IsFiniteSet(AtLevel(d, k))
  BY LevelFinite
<1>3. PICK D : D = AtLevel(d, k)
  OBVIOUS
<1>4. Cardinality(D \cup {x}) = Cardinality(D) + 1
  BY ONLY <1>1, <1>2, <1>3, FS_AddElement
<1>5. QED
  BY ONLY <1>1, <1>3, <1>4

LEMMA LevelSame ==
  ASSUME NEW d, NEW e, NEW k, \A v \in Node : e[v] = k <=> d[v] = k
  PROVE  AtLevel(e, k) = AtLevel(d, k)
BY DEF AtLevel

\* The only arcs turned into S start there.
LEMMA TurnedShut ==
  ASSUME NEW c1, NEW d1, Counted(c1, d1), NEW c, NEW A, Turned(c, c1, A),
         NEW S \in SUBSET Node, Shut(c1, S),
         \A x, y \in Node : <<x, y>> \in A /\ y \in S => x \in S
  PROVE  Shut(c, S)
<1> SUFFICES ASSUME NEW x \in S, NEW y \in Node, c[x][y] > 0 PROVE y \in S
  BY DEF Shut
<1>1. c1[x][y] > 0 \/ <<y, x>> \in A
  BY TurnedExists DEF Counted
<1>2. QED
  BY <1>1 DEF Shut

(****************************************************************************)
(* An insertion at s.                                                       *)
(****************************************************************************)
LEMMA MoreArc ==
  ASSUME NEW c0, NEW d0, NEW c1, NEW d1, Counted(c0, d0),
         NEW s \in Node, NEW t \in Node, ArcMore(c1, c0, s, t), DegMore(d1, d0, s)
  PROVE  /\ \A x \in Node : d0[x] \in Nat /\ d1[x] \in Nat
         /\ d1[s] = d0[s] + 1 /\ \A x \in Node \ {s} : d1[x] = d0[x]
         /\ \A x, y \in Node : /\ c0[x][y] \in Nat
                               /\ c1[x][y] > 0 => c0[x][y] > 0 \/ (x = s /\ y = t)
                               /\ c1[x][y] = c0[x][y] + (IF x = s /\ y = t THEN 1 ELSE 0)
<1>1. \A x \in Node : d0[x] \in Nat /\ d1[x] = d0[x] + (IF x = s THEN 1 ELSE 0)
  BY DEF Counted, DegMore
<1>2. ASSUME NEW x \in Node, NEW y \in Node
      PROVE  /\ c0[x][y] \in Nat /\ (c1[x][y] > 0 => c0[x][y] > 0 \/ (x = s /\ y = t))
             /\ c1[x][y] = c0[x][y] + (IF x = s /\ y = t THEN 1 ELSE 0)
  <2>1. c0[x][y] \in Nat /\ c1[x][y] = c0[x][y] + (IF x = s /\ y = t THEN 1 ELSE 0)
    BY DEF Counted, ArcMore
  <2>2. QED
    BY <2>1
<1>3. QED
  BY <1>1, <1>2

\* s stays below the maximum: it is not in the core.
LEMMA CoreNotTouched ==
  ASSUME NEW c0, NEW d0, NEW c1, NEW d1, Counted(c0, d0), NEW k, NEW n, Certified(c0, d0, k, n),
         NEW s \in Node, NEW t \in Node, ArcMore(c1, c0, s, t), DegMore(d1, d0, s), d1[s] < k
  PROVE  Certified(c1, d1, k, n)
<1>1. /\ k \in Nat \ {0} /\ AtMost(d0, k) /\ n = Cardinality(AtLevel(d0, k)) /\ n # 0
      /\ \E S : IsCore(c0, d0, k, S)
  BY DEF Certified, Thinned
<1>2. PICK S : IsCore(c0, d0, k, S)
  BY <1>1
<1>3. /\ \A x \in Node : d0[x] \in Nat /\ d1[x] \in Nat
      /\ d1[s] = d0[s] + 1 /\ \A x \in Node \ {s} : d1[x] = d0[x]
      /\ \A x, y \in Node : c1[x][y] > 0 => c0[x][y] > 0 \/ (x = s /\ y = t)
  BY MoreArc
<1>4. AtLevel(d1, k) = AtLevel(d0, k)
  <2>1. \A v \in Node : d1[v] = k <=> d0[v] = k
    BY <1>1, <1>3
  <2>2. QED
    BY <2>1, LevelSame
<1>5. s \notin S
  BY <1>1, <1>2, <1>3 DEF IsCore
<1>6. Shut(c1, S) /\ \A v \in S : d1[v] + 1 >= k
  BY <1>2, <1>3, <1>5 DEF IsCore, Shut
<1>7. IsCore(c1, d1, k, S)
  BY <1>2, <1>4, <1>6 DEF IsCore
<1>8. AtMost(d1, k)
  BY <1>1, <1>3 DEF AtMost
<1>9. QED
  BY <1>1, <1>4, <1>7, <1>8 DEF Certified, Thinned

\* s has come to the maximum, and nothing lower can be reached over V.
LEMMA CoreJoined ==
  ASSUME NEW c0, NEW d0, NEW c1, NEW d1, Counted(c0, d0), NEW k, NEW n, Certified(c0, d0, k, n),
         NEW s \in Node, NEW t \in Node, ArcMore(c1, c0, s, t), DegMore(d1, d0, s), d1[s] = k,
         NEW V \in SUBSET Node, s \in V, \A v \in V : d1[v] + 1 >= k,
         \A v \in V, w \in Node : c1[v][w] > 0 => w \in V \/ d1[w] >= k
  PROVE  Certified(c1, d1, k, n + 1)
<1>1. /\ k \in Nat \ {0} /\ AtMost(d0, k) /\ n = Cardinality(AtLevel(d0, k)) /\ n # 0
      /\ \E S : IsCore(c0, d0, k, S)
  BY DEF Certified, Thinned
<1>2. PICK S : IsCore(c0, d0, k, S)
  BY <1>1
<1>3. /\ \A x \in Node : d0[x] \in Nat /\ d1[x] \in Nat
      /\ d1[s] = d0[s] + 1 /\ \A x \in Node \ {s} : d1[x] = d0[x]
      /\ \A x, y \in Node : c1[x][y] > 0 => c0[x][y] > 0 \/ (x = s /\ y = t)
  BY MoreArc
<1>4. Cardinality(AtLevel(d1, k)) = n + 1
  <2>1. d0[s] # k /\ d1[s] = k
    BY <1>3
  <2>2. \A v \in Node \ {s} : d1[v] = k <=> d0[v] = k
    BY <1>3
  <2>3. Cardinality(AtLevel(d1, k)) = Cardinality(AtLevel(d0, k)) + 1
    BY ONLY s \in Node, <2>1, <2>2, LevelGains
  <2>4. QED
    BY ONLY <1>1, <2>3
<1>5. AtMost(d1, k)
  BY <1>1, <1>3 DEF AtMost
<1>6. AtLevel(d1, k) \subseteq S \cup V
  BY <1>2, <1>3 DEF IsCore, AtLevel
<1>7. Shut(c1, S \cup V)
  <2> SUFFICES ASSUME NEW x \in S \cup V, NEW y \in Node, c1[x][y] > 0 PROVE y \in S \cup V
    BY DEF Shut
  <2>1. CASE x \in V
    <3>1. y \in V \/ d1[y] = k
      BY <1>1, <1>3, <1>5, <2>1 DEF AtMost
    <3>2. QED
      BY <1>6, <3>1 DEF AtLevel
  <2>2. CASE x \notin V
    BY <1>2, <1>3, <2>2 DEF IsCore, Shut
  <2>3. QED
    BY <2>1, <2>2
<1>8. \A v \in S \cup V : d1[v] + 1 >= k
  BY <1>1, <1>2, <1>3 DEF IsCore
<1>9. IsCore(c1, d1, k, S \cup V)
  BY <1>2, <1>6, <1>7, <1>8 DEF IsCore
<1>10. n \in Nat
  BY <1>1, LevelFinite
<1>11. QED
  BY <1>1, <1>4, <1>5, <1>9, <1>10 DEF Certified, Thinned

\* s has risen above the maximum, and nothing lower can be reached over V.
LEMMA CoreRisen ==
  ASSUME NEW c0, NEW d0, NEW c1, NEW d1, Counted(c0, d0), NEW k \in Nat, AtMost(d0, k),
         NEW s \in Node, NEW t \in Node, ArcMore(c1, c0, s, t), DegMore(d1, d0, s), d0[s] = k,
         NEW V \in SUBSET Node, s \in V, \A v \in V : d1[v] >= k,
         \A v \in V, w \in Node : c1[v][w] > 0 => w \in V \/ d1[w] > k
  PROVE  Certified(c1, d1, k + 1, 1)
<1>1. /\ \A x \in Node : d0[x] \in Nat /\ d1[x] \in Nat
      /\ d1[s] = d0[s] + 1 /\ \A x \in Node \ {s} : d1[x] = d0[x]
  BY MoreArc
<1>2. d1[s] = k + 1 /\ \A x \in Node \ {s} : d1[x] <= k
  BY <1>1 DEF AtMost
<1>3. AtLevel(d1, k + 1) = {s}
  BY <1>1, <1>2 DEF AtLevel
<1>4. Cardinality(AtLevel(d1, k + 1)) = 1
  BY <1>3, FS_Singleton
<1>5. AtMost(d1, k + 1)
  BY <1>1, <1>2 DEF AtMost
<1>6. Shut(c1, V)
  BY <1>1, <1>2 DEF Shut
<1>7. IsCore(c1, d1, k + 1, V)
  BY <1>1, <1>3, <1>6 DEF IsCore
<1>8. QED
  BY <1>4, <1>5, <1>7 DEF Certified, Thinned

(****************************************************************************)
(* A deletion at s.                                                         *)
(****************************************************************************)
LEMMA LessArc ==
  ASSUME NEW c0, NEW d0, NEW c1, NEW d1, Counted(c0, d0), Counted(c1, d1),
         NEW s \in Node, NEW t \in Node, ArcMore(c0, c1, s, t), DegMore(d0, d1, s)
  PROVE  /\ \A x \in Node : d0[x] \in Nat /\ d1[x] \in Nat
         /\ d0[s] = d1[s] + 1 /\ \A x \in Node \ {s} : d1[x] = d0[x]
         /\ \A x, y \in Node : c1[x][y] > 0 => c0[x][y] > 0
<1>1. \A x \in Node : d0[x] \in Nat /\ d1[x] \in Nat /\ d0[x] = d1[x] + (IF x = s THEN 1 ELSE 0)
  BY DEF Counted, DegMore
<1>2. ASSUME NEW x \in Node, NEW y \in Node
      PROVE  c1[x][y] > 0 => c0[x][y] > 0
  <2>1. c1[x][y] \in Nat /\ c0[x][y] = c1[x][y] + (IF x = s /\ y = t THEN 1 ELSE 0)
    BY DEF Counted, ArcMore
  <2>2. QED
    BY <2>1
<1>3. QED
  BY <1>1, <1>2

LEMMA ShutLess ==
  ASSUME NEW c0, NEW c1, \A x, y \in Node : c1[x][y] > 0 => c0[x][y] > 0,
         NEW S \in SUBSET Node, Shut(c0, S)
  PROVE  Shut(c1, S)
BY DEF Shut

\* s was in the level and has left it.
LEMMA LevelLoses ==
  ASSUME NEW d, NEW e, NEW k, NEW x \in Node, d[x] = k, e[x] # k,
         \A v \in Node \ {x} : d[v] = k <=> e[v] = k
  PROVE  Cardinality(AtLevel(e, k)) = Cardinality(AtLevel(d, k)) - 1
<1>1. Cardinality(AtLevel(d, k)) = Cardinality(AtLevel(e, k)) + 1
  BY LevelGains
<1>2. Cardinality(AtLevel(e, k)) \in Nat
  BY LevelFinite
<1>3. QED
  BY <1>1, <1>2

\* s had the maximum.
LEMMA CoreLowered ==
  ASSUME NEW c0, NEW d0, NEW c1, NEW d1, Counted(c0, d0), Counted(c1, d1),
         NEW k, NEW n, Certified(c0, d0, k, n),
         NEW s \in Node, NEW t \in Node, ArcMore(c0, c1, s, t), DegMore(d0, d1, s), d0[s] = k
  PROVE  Thinned(c1, d1, k, n - 1)
<1>1. /\ k \in Nat \ {0} /\ AtMost(d0, k) /\ n = Cardinality(AtLevel(d0, k))
      /\ \E S : IsCore(c0, d0, k, S)
  BY DEF Certified, Thinned
<1>2. PICK S : IsCore(c0, d0, k, S)
  BY <1>1
<1>3. /\ \A x \in Node : d0[x] \in Nat /\ d1[x] \in Nat
      /\ d0[s] = d1[s] + 1 /\ \A x \in Node \ {s} : d1[x] = d0[x]
      /\ \A x, y \in Node : c1[x][y] > 0 => c0[x][y] > 0
  BY LessArc
<1>4. AtMost(d1, k) /\ d1[s] # k
  BY <1>1, <1>3 DEF AtMost
<1>5. Cardinality(AtLevel(d1, k)) = n - 1
  <2>1. \A v \in Node \ {s} : d0[v] = k <=> d1[v] = k
    BY <1>3
  <2>2. d0[s] = k
    OBVIOUS
  <2>3. Cardinality(AtLevel(d1, k)) = Cardinality(AtLevel(d0, k)) - 1
    BY ONLY s \in Node, <1>4, <2>1, <2>2, LevelLoses
  <2>4. QED
    BY ONLY <1>1, <2>3
<1>6. Shut(c1, S)
  BY <1>2, <1>3, ShutLess DEF IsCore
<1>7. AtLevel(d1, k) \subseteq S
  BY <1>2, <1>3, <1>4 DEF IsCore, AtLevel
<1>8. \A v \in S : d1[v] + 1 >= k
  BY <1>2, <1>3 DEF IsCore
<1>9. IsCore(c1, d1, k, S)
  BY <1>2, <1>6, <1>7, <1>8 DEF IsCore
<1>10. QED
  BY <1>1, <1>4, <1>5, <1>9 DEF Thinned

\* s had at least two arcs less than the maximum.
LEMMA CoreNotThinned ==
  ASSUME NEW c0, NEW d0, NEW c1, NEW d1, Counted(c0, d0), Counted(c1, d1),
         NEW k, NEW n, Certified(c0, d0, k, n),
         NEW s \in Node, NEW t \in Node, ArcMore(c0, c1, s, t), DegMore(d0, d1, s),
         d0[s] + 1 < k
  PROVE  Certified(c1, d1, k, n)
<1>1. /\ k \in Nat \ {0} /\ AtMost(d0, k) /\ n = Cardinality(AtLevel(d0, k)) /\ n # 0
      /\ \E S : IsCore(c0, d0, k, S)
  BY DEF Certified, Thinned
<1>2. PICK S : IsCore(c0, d0, k, S)
  BY <1>1
<1>3. /\ \A x \in Node : d0[x] \in Nat /\ d1[x] \in Nat
      /\ d0[s] = d1[s] + 1 /\ \A x \in Node \ {s} : d1[x] = d0[x]
      /\ \A x, y \in Node : c1[x][y] > 0 => c0[x][y] > 0
  BY LessArc
<1>4. AtLevel(d1, k) = AtLevel(d0, k)
  <2>1. \A v \in Node : d1[v] = k <=> d0[v] = k
    BY <1>1, <1>3
  <2>2. QED
    BY <2>1, LevelSame
<1>5. s \notin S
  BY <1>1, <1>2, <1>3 DEF IsCore
<1>6. Shut(c1, S) /\ \A v \in S : d1[v] + 1 >= k
  BY <1>2, <1>3, <1>5, ShutLess DEF IsCore
<1>7. IsCore(c1, d1, k, S)
  BY <1>2, <1>4, <1>6 DEF IsCore
<1>8. AtMost(d1, k)
  BY <1>1, <1>3 DEF AtMost
<1>9. QED
  BY <1>1, <1>4, <1>7, <1>8 DEF Certified, Thinned

\* s had one arc less than the maximum, and no arc comes from the maximum to V, where the
\* search back from s has been.
LEMMA CoreWithdrawn ==
  ASSUME NEW c0, NEW d0, NEW c1, NEW d1, Counted(c0, d0), Counted(c1, d1),
         NEW k, NEW n, Certified(c0, d0, k, n),
         NEW s \in Node, NEW t \in Node, ArcMore(c0, c1, s, t), DegMore(d0, d1, s),
         d0[s] + 1 = k,
         NEW V \in SUBSET Node, s \in V, \A v \in V \ {s} : d1[v] + 1 = k,
         \A v \in V, w \in Node : c1[w][v] > 0 => w \in V \/ d1[w] + 1 < k
  PROVE  Certified(c1, d1, k, n)
<1>1. /\ k \in Nat \ {0} /\ AtMost(d0, k) /\ n = Cardinality(AtLevel(d0, k)) /\ n # 0
      /\ \E S : IsCore(c0, d0, k, S)
  BY DEF Certified, Thinned
<1>2. PICK S : IsCore(c0, d0, k, S)
  BY <1>1
<1>3. /\ \A x \in Node : d0[x] \in Nat /\ d1[x] \in Nat
      /\ d0[s] = d1[s] + 1 /\ \A x \in Node \ {s} : d1[x] = d0[x]
      /\ \A x, y \in Node : c1[x][y] > 0 => c0[x][y] > 0
  BY LessArc
<1>4. AtLevel(d1, k) = AtLevel(d0, k)
  <2>1. \A v \in Node : d1[v] = k <=> d0[v] = k
    BY <1>1, <1>3
  <2>2. QED
    BY <2>1, LevelSame
<1>5. AtLevel(d1, k) \cap V = {} /\ AtLevel(d1, k) # {}
  <2>1. AtLevel(d0, k) # {}
    BY <1>1, FS_EmptySet
  <2>2. \A v \in V : d1[v] # k
    BY <1>1, <1>3
  <2>3. QED
    BY <1>4, <2>1, <2>2 DEF AtLevel
<1>6. S \in SUBSET Node /\ Shut(c1, S) /\ AtLevel(d1, k) \subseteq S /\ \A v \in S : d0[v] + 1 >= k
  BY <1>2, <1>3, <1>4, ShutLess DEF IsCore
<1>7. Shut(c1, S \ V)
  <2> SUFFICES ASSUME NEW x \in S \ V, NEW y \in Node, c1[x][y] > 0 PROVE y \in S \ V
    BY DEF Shut
  <2>1. y \in S
    BY <1>6 DEF Shut
  <2>2. ASSUME y \in V PROVE FALSE
    <3>1. x \in V \/ d1[x] + 1 < k
      BY <1>6, <2>2
    <3>2. d1[x] + 1 >= k /\ d1[x] \in Nat
      BY <1>3, <1>6
    <3>3. QED
      BY <1>1, <3>1, <3>2
  <2>3. QED
    BY <2>1, <2>2
<1>8. \A v \in S \ V : d1[v] + 1 >= k
  BY <1>3, <1>6
<1>9. IsCore(c1, d1, k, S \ V)
  BY <1>5, <1>6, <1>7, <1>8 DEF IsCore
<1>10. AtMost(d1, k)
  BY <1>1, <1>3 DEF AtMost
<1>11. QED
  BY <1>1, <1>4, <1>9, <1>10 DEF Certified, Thinned

(****************************************************************************)
(* The flips of a path.                                                     *)
(****************************************************************************)
LEMMA MovedDegree ==
  ASSUME NEW d, NEW d1, \A x \in Node : d1[x] \in Nat, NEW a \in Node, NEW b \in Node, a # b,
         DegTurned(d, d1, a, b)
  PROVE  d[a] = d1[a] - 1 /\ d[b] = d1[b] + 1 /\ \A x \in Node \ {a, b} : d[x] = d1[x]
BY DEF DegTurned

\* A set whose arcs stay in it, except perhaps those of s, and which does not hold the end
\* of the path, holds no node of the path but s.
LEMMA PathMisses ==
  ASSUME NEW c1, NEW A, NEW On, NEW s, NEW f, ThroughPath(c1, A, On, s, f),
         NEW S \in SUBSET Node, \A x \in S \ {s}, y \in Node : c1[x][y] > 0 => y \in S,
         f \notin S
  PROVE  \A x \in S : x \in On => x = s
BY DEF ThroughPath

\* s has passed on the arc that has lifted it to the maximum.
LEMMA CorePassed ==
  ASSUME NEW c0, NEW d0, NEW c1, NEW d1, Counted(c0, d0), Counted(c1, d1),
         NEW k, NEW n, Certified(c0, d0, k, n),
         NEW s \in Node, NEW t \in Node, ArcMore(c1, c0, s, t), DegMore(d1, d0, s),
         d0[s] + 1 = k,
         NEW f \in Node, d1[f] + 1 < k, NEW A, NEW On, ThroughPath(c1, A, On, s, f),
         NEW c, NEW d, Turned(c, c1, A), DegTurned(d, d1, s, f)
  PROVE  Certified(c, d, k, n)
<1>1. /\ k \in Nat \ {0} /\ AtMost(d0, k) /\ n = Cardinality(AtLevel(d0, k)) /\ n # 0
      /\ \E S : IsCore(c0, d0, k, S)
  BY DEF Certified, Thinned
<1>2. PICK S : IsCore(c0, d0, k, S)
  BY <1>1
<1>3. /\ \A x \in Node : d0[x] \in Nat /\ d1[x] \in Nat
      /\ d1[s] = d0[s] + 1 /\ \A x \in Node \ {s} : d1[x] = d0[x]
      /\ \A x, y \in Node : /\ c0[x][y] \in Nat
                            /\ c1[x][y] > 0 => c0[x][y] > 0 \/ (x = s /\ y = t)
                            /\ c1[x][y] = c0[x][y] + (IF x = s /\ y = t THEN 1 ELSE 0)
  BY MoreArc
<1>4. f # s
  BY <1>3
<1>5. d[s] = d1[s] - 1 /\ d[f] = d1[f] + 1 /\ \A x \in Node \ {s, f} : d[x] = d1[x]
  BY <1>3, <1>4, MovedDegree
<1>6. \A x \in Node \ {f} : d[x] = d0[x]
  BY <1>3, <1>5
<1>7. d[f] = d0[f] + 1 /\ d[f] < k /\ d0[f] + 1 < k
  BY <1>3, <1>4, <1>5
<1>8. AtLevel(d, k) = AtLevel(d0, k)
  <2>1. \A v \in Node : d[v] = k <=> d0[v] = k
    BY <1>1, <1>3, <1>6, <1>7
  <2>2. QED
    BY <2>1, LevelSame
<1>9. AtMost(d, k)
  BY <1>1, <1>3, <1>6, <1>7 DEF AtMost
<1>10. /\ S \in SUBSET Node /\ S # {} /\ Shut(c0, S) /\ AtLevel(d, k) \subseteq S /\ f \notin S
       /\ \A v \in S : d[v] + 1 >= k
  BY <1>1, <1>2, <1>3, <1>6, <1>7, <1>8 DEF IsCore
<1>11. \A x \in S : x \in On => x = s
  <2>1. \A x \in S \ {s}, y \in Node : c1[x][y] > 0 => y \in S
    BY <1>3, <1>10 DEF Shut
  <2>2. QED
    BY <1>10, <2>1, PathMisses
<1>12. /\ \A x, y \in Node : <<x, y>> \in A => x \in On /\ y \in On /\ c1[x][y] > 0
       /\ \A x \in Node : <<x, s>> \notin A
       /\ \E y \in Node : <<s, y>> \in A
  BY DEF ThroughPath
<1>13. Shut(c, S)
  <2> SUFFICES ASSUME NEW x \in S, NEW y \in Node, c[x][y] > 0, y \notin S PROVE FALSE
    BY DEF Shut
  <2>1. x \in Node
    BY <1>10
  <2>2. c1[x][y] > 0 \/ <<y, x>> \in A
    BY <2>1, TurnedExists DEF Counted
  <2>3. <<y, x>> \notin A
    BY <1>11, <1>12, <2>1
  <2>4. x = s /\ y = t
    BY <1>3, <1>10, <2>1, <2>2, <2>3 DEF Shut
  <2>5. PICK z \in Node : <<s, z>> \in A
    BY <1>12
  <2>6. z \in On /\ c1[s][z] > 0 /\ z # s
    BY <1>12, <2>5
  <2>7. z \notin S
    BY <1>11, <2>6
  <2>8. z = t
    BY <1>3, <1>10, <2>4, <2>6, <2>7 DEF Shut
  <2>9. c0[s][t] = 0
    <3>1. ~(c0[s][t] > 0)
      BY <1>10, <2>4 DEF Shut
    <3>2. QED
      BY <1>3, <3>1
  <2>10. c1[s][t] = 1
    BY <1>3, <2>9
  <2>11. c[s][t] = c1[s][t] + (IF <<t, s>> \in A THEN 1 ELSE 0) - (IF <<s, t>> \in A THEN 1 ELSE 0)
    BY DEF Turned
  <2>12. c[s][t] = 0
    BY <2>3, <2>4, <2>5, <2>8, <2>10, <2>11
  <2>13. QED
    BY <2>4, <2>12
<1>14. IsCore(c, d, k, S)
  BY <1>10, <1>13 DEF IsCore
<1>15. QED
  BY <1>1, <1>8, <1>9, <1>14 DEF Certified, Thinned

\* s, at the maximum, has passed on an arc within the core.
LEMMA CoreFilled ==
  ASSUME NEW c0, NEW d0, NEW c1, NEW d1, Counted(c0, d0), Counted(c1, d1),
         NEW k, NEW n, Certified(c0, d0, k, n),
         NEW s \in Node, NEW t \in Node, ArcMore(c1, c0, s, t), DegMore(d1, d0, s),
         d0[s] = k, d0[s] <= d0[t],
         NEW f \in Node, d1[f] < k, NEW A, NEW On, ThroughPath(c1, A, On, s, f),
         NEW c, NEW d, Turned(c, c1, A), DegTurned(d, d1, s, f)
  PROVE  Certified(c, d, k, n + 1)
<1>1. /\ k \in Nat \ {0} /\ AtMost(d0, k) /\ n = Cardinality(AtLevel(d0, k)) /\ n # 0
      /\ \E S : IsCore(c0, d0, k, S)
  BY DEF Certified, Thinned
<1>2. PICK S : IsCore(c0, d0, k, S)
  BY <1>1
<1>3. /\ \A x \in Node : d0[x] \in Nat /\ d1[x] \in Nat
      /\ d1[s] = d0[s] + 1 /\ \A x \in Node \ {s} : d1[x] = d0[x]
      /\ \A x, y \in Node : c1[x][y] > 0 => c0[x][y] > 0 \/ (x = s /\ y = t)
  BY MoreArc
<1>4. f # s
  BY <1>3
<1>5. d[s] = d1[s] - 1 /\ d[f] = d1[f] + 1 /\ \A x \in Node \ {s, f} : d[x] = d1[x]
  BY <1>3, <1>4, MovedDegree
<1>6. \A x \in Node \ {f} : d[x] = d0[x]
  BY <1>3, <1>5
<1>7. s \in S /\ t \in S
  <2>1. d0[t] = k
    BY <1>1, <1>3 DEF AtMost
  <2>2. QED
    BY <1>2, <2>1 DEF IsCore, AtLevel
<1>8. S \in SUBSET Node /\ Shut(c1, S)
  BY <1>2, <1>3, <1>7 DEF IsCore, Shut
<1>9. On \subseteq S /\ f \in S /\ \A x, y \in Node : <<x, y>> \in A => x \in On /\ y \in On
  BY <1>7, <1>8 DEF ThroughPath
<1>10. d[f] = k /\ d0[f] # k
  <2>1. d0[f] + 1 >= k /\ d1[f] = d0[f] /\ d0[f] \in Nat
    BY <1>2, <1>3, <1>4, <1>9 DEF IsCore
  <2>2. QED
    BY <1>1, <1>5, <2>1
<1>11. Cardinality(AtLevel(d, k)) = n + 1
  <2>1. \A v \in Node \ {f} : d[v] = k <=> d0[v] = k
    BY <1>6
  <2>2. Cardinality(AtLevel(d, k)) = Cardinality(AtLevel(d0, k)) + 1
    BY ONLY f \in Node, <1>10, <2>1, LevelGains
  <2>3. QED
    BY ONLY <1>1, <2>2
<1>12. AtMost(d, k)
  BY <1>1, <1>6, <1>10 DEF AtMost
<1>13. Shut(c, S)
  BY <1>8, <1>9, TurnedShut
<1>14. AtLevel(d, k) \subseteq S /\ S # {} /\ \A v \in S : d[v] + 1 >= k
  BY <1>1, <1>2, <1>6, <1>9, <1>10 DEF IsCore, AtLevel
<1>15. IsCore(c, d, k, S)
  BY <1>8, <1>13, <1>14 DEF IsCore
<1>16. n \in Nat
  BY <1>1, LevelFinite
<1>17. QED
  BY <1>1, <1>11, <1>12, <1>15, <1>16 DEF Certified, Thinned

\* f, at the maximum, has lost an arc to s within the core.
LEMMA CoreYielded ==
  ASSUME NEW c0, NEW d0, NEW c1, NEW d1, Counted(c0, d0), Counted(c1, d1),
         NEW k, NEW n, Certified(c0, d0, k, n),
         NEW s \in Node, NEW t \in Node, ArcMore(c0, c1, s, t), DegMore(d0, d1, s),
         d0[s] + 1 = k,
         NEW f \in Node, d1[f] + 1 > k, NEW A, NEW On, BackPath(c1, A, On, s, f),
         NEW c, NEW d, Turned(c, c1, A), DegTurned(d, d1, f, s)
  PROVE  Thinned(c, d, k, n - 1)
<1>1. /\ k \in Nat \ {0} /\ AtMost(d0, k) /\ n = Cardinality(AtLevel(d0, k)) /\ n # 0
      /\ \E S : IsCore(c0, d0, k, S)
  BY DEF Certified, Thinned
<1>2. PICK S : IsCore(c0, d0, k, S)
  BY <1>1
<1>3. /\ \A x \in Node : d0[x] \in Nat /\ d1[x] \in Nat
      /\ d0[s] = d1[s] + 1 /\ \A x \in Node \ {s} : d1[x] = d0[x]
      /\ \A x, y \in Node : c1[x][y] > 0 => c0[x][y] > 0
  BY LessArc
<1>4. f # s
  BY <1>3
<1>5. d[f] = d1[f] - 1 /\ d[s] = d1[s] + 1 /\ \A x \in Node \ {f, s} : d[x] = d1[x]
  BY <1>3, <1>4, MovedDegree
<1>6. \A x \in Node \ {f} : d[x] = d0[x]
  BY <1>3, <1>5
<1>7. d0[f] = k /\ d[f] + 1 = k
  <2>1. d0[f] <= k /\ d0[f] = d1[f] /\ d0[f] \in Nat
    BY <1>1, <1>3, <1>4 DEF AtMost
  <2>2. QED
    BY <1>1, <1>5, <2>1
<1>8. f \in S /\ S \in SUBSET Node /\ Shut(c1, S)
  BY <1>2, <1>3, <1>7, ShutLess DEF IsCore, AtLevel
<1>9. On \subseteq S /\ \A x, y \in Node : <<x, y>> \in A => x \in On /\ y \in On
  BY <1>8 DEF BackPath
<1>10. Shut(c, S)
  BY <1>8, <1>9, TurnedShut
<1>11. Cardinality(AtLevel(d, k)) = n - 1
  <2>1. \A v \in Node \ {f} : d0[v] = k <=> d[v] = k
    BY <1>6
  <2>2. d[f] # k
    BY <1>1, <1>7
  <2>3. Cardinality(AtLevel(d, k)) = Cardinality(AtLevel(d0, k)) - 1
    BY ONLY f \in Node, <1>7, <2>1, <2>2, LevelLoses
  <2>4. QED
    BY ONLY <1>1, <2>3
<1>12. AtMost(d, k)
  BY <1>1, <1>3, <1>5, <1>6, <1>7 DEF AtMost
<1>13. AtLevel(d, k) \subseteq S /\ S # {} /\ \A v \in S : d[v] + 1 >= k
  BY <1>1, <1>2, <1>6, <1>7, <1>8 DEF IsCore, AtLevel
<1>14. IsCore(c, d, k, S)
  BY <1>8, <1>10, <1>13 DEF IsCore
<1>15. QED
  BY <1>1, <1>11, <1>12, <1>14 DEF Thinned

\* The path of a successful search of a round misses the plateau.
LEMMA PlateauMissed ==
  ASSUME NEW c1, NEW d1, Counted(c1, d1), NEW k, AtMost(d1, k),
         NEW P, Plateau(c1, d1, k, P), NEW s \in Node, d1[s] = k,
         NEW f \in Node, d1[f] + 1 < k, NEW A, NEW On, ThroughPath(c1, A, On, s, f),
         NEW c, NEW d, Turned(c, c1, A), DegTurned(d, d1, s, f)
  PROVE  s \notin P /\ Plateau(c, d, k, P) /\ AtMost(d, k)
<1>1. P \in SUBSET Node /\ P # {} /\ Shut(c1, P) /\ \A v \in P : d1[v] = k
  BY DEF Plateau
<1>2. \A x \in Node : d1[x] \in Nat
  BY DEF Counted
<1>3. f # s /\ f \notin P
  BY <1>1, <1>2
<1>4. s \notin P
  BY <1>1, <1>3 DEF ThroughPath
<1>5. \A x \in P : x \notin On
  <2>1. \A x \in P \ {s}, y \in Node : c1[x][y] > 0 => y \in P
    BY <1>1 DEF Shut
  <2>2. QED
    BY <1>1, <1>3, <1>4, <2>1, PathMisses
<1>6. Shut(c, P)
  <2>1. \A x, y \in Node : <<x, y>> \in A => x \in On /\ y \in On
    BY DEF ThroughPath
  <2>2. QED
    BY <1>1, <1>5, <2>1, TurnedShut
<1>7. d[s] = d1[s] - 1 /\ d[f] = d1[f] + 1 /\ \A x \in Node \ {s, f} : d[x] = d1[x]
  BY <1>2, <1>3, MovedDegree
<1>8. Plateau(c, d, k, P)
  BY <1>1, <1>3, <1>4, <1>6, <1>7 DEF Plateau
<1>9. AtMost(d, k)
  BY <1>2, <1>7 DEF AtMost
<1>10. QED
  BY <1>4, <1>8, <1>9

(****************************************************************************)
(* The rounds.                                                              *)
(****************************************************************************)
\* No node is left at the maximum: the core is all one lower.
LEMMA CoreLevel ==
  ASSUME NEW c, NEW d, Counted(c, d), NEW k, Thinned(c, d, k, 0)
  PROVE  AtMost(d, k - 1) /\ \E P : Plateau(c, d, k - 1, P)
<1>1. /\ k \in Nat \ {0} /\ AtMost(d, k) /\ Cardinality(AtLevel(d, k)) = 0
      /\ \E S : IsCore(c, d, k, S)
  BY DEF Thinned
<1>2. PICK S : IsCore(c, d, k, S)
  BY <1>1
<1>3. \A v \in Node : d[v] # k /\ d[v] \in Nat
  BY <1>1, LevelFinite DEF Counted
<1>4. AtMost(d, k - 1)
  BY <1>1, <1>3 DEF AtMost
<1>5. Plateau(c, d, k - 1, S)
  BY <1>1, <1>2, <1>3, <1>4 DEF IsCore, Plateau, AtMost
<1>6. QED
  BY <1>4, <1>5

\* All nodes of the maximum have been tried in vain.
LEMMA RoundCertified ==
  ASSUME NEW c, NEW d, NEW k \in Nat \ {0}, AtMost(d, k),
         NEW P, Plateau(c, d, k, P), NEW T, Tried(c, d, k, T), AtLevel(d, k) \subseteq T
  PROVE  Certified(c, d, k, Cardinality(AtLevel(d, k)))
<1>1. \E v \in Node : d[v] = k
  BY DEF Plateau
<1>2. Cardinality(AtLevel(d, k)) # 0
  BY <1>1, LevelFinite
<1>3. T \in SUBSET Node /\ T # {} /\ Shut(c, T) /\ \A v \in T : d[v] + 1 >= k
  BY <1>1 DEF Tried, Shut, AtLevel
<1>4. IsCore(c, d, k, T)
  BY <1>3 DEF IsCore
<1>5. QED
  BY <1>2, <1>4 DEF Certified, Thinned

LEMMA TriedMore ==
  ASSUME NEW c, NEW d, NEW k, NEW T, Tried(c, d, k, T), NEW U, Tried(c, d, k, U)
  PROVE  Tried(c, d, k, T \cup U)
BY DEF Tried

(****************************************************************************)
(* What the counters mean.                                                  *)
(****************************************************************************)
LEMMA CertifiedFacts ==
  ASSUME NEW c, NEW d, NEW k, NEW n, Certified(c, d, k, n)
  PROVE  /\ k \in Nat \ {0} /\ AtMost(d, k) /\ n = Cardinality(AtLevel(d, k)) /\ n \in Nat \ {0}
         /\ \E v \in Node : d[v] = k
<1>1. k \in Nat \ {0} /\ AtMost(d, k) /\ n = Cardinality(AtLevel(d, k)) /\ n # 0
  BY DEF Certified, Thinned
<1>2. QED
  BY <1>1, LevelFinite

\* The core is a shield for the nodes of the maximum.
LEMMA CoreShields ==
  ASSUME NEW c, NEW d, NEW k, NEW n, Certified(c, d, k, n), NEW u \in Node, d[u] = k
  PROVE  Shielded(c, d, u)
<1>1. PICK S : IsCore(c, d, k, S)
  BY DEF Certified, Thinned
<1>2. Shield(c, d, u, S)
  BY <1>1 DEF IsCore, Shield, AtLevel
<1>3. QED
  BY <1>2 DEF Shielded

LEMMA CertifiedHoldsMore ==
  ASSUME NEW entries, NEW degree, WellLinked(entries, degree), NEW k, NEW n,
         Certified(ArcCounts(entries, degree), degree, k, n), NEW u \in Node, degree[u] = k
  PROVE  \E S \in SUBSET Node : HoldsMore(entries, degree, degree[u] - 1, S)
<1>1. ListsOK(entries, degree)
  BY DEF WellLinked
<1>2. Shielded(ArcCounts(entries, degree), degree, u)
  BY CoreShields
<1>3. k \in Nat \ {0}
  BY CertifiedFacts
<1> PICK m \in Nat \ {0} : m = degree[u]
  BY <1>3
<1>4. \E S \in SUBSET Node : HoldsMore(entries, degree, m - 1, S)
  BY ONLY <1>1, <1>2, u \in Node, m \in Nat \ {0}, m = degree[u], ShieldHoldsArcs
<1>5. QED
  BY <1>4

LEMMA KnownIsOptimal ==
  ASSUME WellLinked(m_adj, m_out_degree), NEW k, NEW n, Known(Counts, m_out_degree, k, n)
  PROVE  MaximumNeeded
<1>1. m_out_degree \in [Node -> Nat]
  BY DEF WellLinked, ListsOK
<1>2. ASSUME NEW u \in Node, \A v \in Node : m_out_degree[v] <= m_out_degree[u],
             m_out_degree[u] # 0
      PROVE  \E S \in SUBSET Node :
               Cardinality(SpannedArcs(S)) > (m_out_degree[u] - 1) * Cardinality(S)
  <2>1. Certified(Counts, m_out_degree, k, n)
    BY <1>2 DEF Known
  <2>2. k \in Nat \ {0} /\ AtMost(m_out_degree, k) /\ \E v \in Node : m_out_degree[v] = k
    BY <2>1, CertifiedFacts
  <2>3. m_out_degree[u] = k
    BY <1>1, <1>2, <2>2 DEF AtMost
  <2> PICK entries, degree : entries = m_adj /\ degree = m_out_degree
    OBVIOUS
  <2>4. /\ WellLinked(entries, degree) /\ degree[u] = k
        /\ Certified(ArcCounts(entries, degree), degree, k, n)
    BY <2>1, <2>3 DEF Counts
  <2>5. \E S \in SUBSET Node : HoldsMore(entries, degree, degree[u] - 1, S)
    BY ONLY <2>4, u \in Node, CertifiedHoldsMore
  <2>6. PICK S \in SUBSET Node : HoldsMore(m_adj, m_out_degree, m_out_degree[u] - 1, S)
    BY <2>5
  <2>7. Cardinality(SpannedArcs(S)) > (m_out_degree[u] - 1) * Cardinality(S)
    BY ONLY <2>6 DEF HoldsMore, SpannedArcs
  <2>8. QED
    BY <2>7
<1>3. QED
  BY <1>2 DEF MaximumNeeded

\* An entry counts.
LEMMA EntryCounts ==
  ASSUME NEW entries \in [Node -> Seq(Entry)], NEW u \in Node,
         NEW p \in 1..Len(entries[u]), NEW v, v = entries[u][p].first
  PROVE  Multiplicity(entries, u, v) # 0
<1>1. PICK places : places = {q \in DOMAIN entries[u] : entries[u][q].first = v}
  OBVIOUS
<1>2. DOMAIN entries[u] = 1..Len(entries[u]) /\ Len(entries[u]) \in Nat
  OBVIOUS
<1>3. IsFiniteSet(1..Len(entries[u]))
  BY <1>2, FS_Interval
<1>4. p \in places /\ places \subseteq 1..Len(entries[u])
  BY <1>1, <1>2
<1>5. IsFiniteSet(places)
  BY <1>3, <1>4, FS_Subset
<1>6. Cardinality(places) # 0
  BY <1>4, <1>5, FS_EmptySet
<1>7. QED
  BY <1>1, <1>6 DEF Multiplicity

\* The graph has no edge if and only if no node has an arc.
LEMMA NoEdgesNoArcs ==
  ASSUME NEW entries, NEW degree, WellLinked(entries, degree), NEW copies \in [Edge -> Nat],
         Matched(entries, copies)
  PROVE  (\A e \in Edge : copies[e] = 0) <=> \A v \in Node : degree[v] = 0
<1>1. /\ entries \in [Node -> Seq(Entry)] /\ LinkedBut(entries, degree, {})
      /\ \A v \in Node : /\ degree[v] \in Nat /\ degree[v] <= Len(entries[v])
                         /\ Len(entries[v]) \in Nat
  BY DEF WellLinked, ListsOK
<1>2. ASSUME NEW v \in Node, degree[v] # 0
      PROVE  \E e \in Edge : copies[e] # 0
  <2>1. 1 \in 1..Len(entries[v])
    BY <1>1, <1>2
  <2>2. PICK w : w = entries[v][1].first
    OBVIOUS
  <2>3. w \in Node /\ w # v
    <3>1. LinkedAt(entries, degree, {}, v, 1)
      BY <1>1, <2>1 DEF LinkedBut
    <3>2. QED
      BY <2>2, <3>1 DEF LinkedAt
  <2>4. Multiplicity(entries, v, w) # 0
    BY <1>1, <2>1, <2>2, <2>3, EntryCounts
  <2>5. {v, w} \in Edge /\ copies[{v, w}] # 0
    BY <2>3, <2>4 DEF Matched, Edge
  <2>6. QED
    BY <2>5
<1>3. ASSUME NEW e \in Edge, copies[e] # 0
      PROVE  \E v \in Node : degree[v] # 0
  <2>1. PICK u, v \in Node : u # v /\ e = {u, v}
    BY DEF Edge
  <2>2. copies[{u, v}] > 0
    BY <1>3, <2>1
  <2>3. PICK p : p = FirstEntry(entries, u, v)
    OBVIOUS
  <2>4. p \in 1..Len(entries[u]) /\ entries[u][p].first = v
    BY <1>1, <2>1, <2>2, <2>3, EntryToDelete
  <2>5. LinkedAt(entries, degree, {}, u, p)
    BY <1>1, <2>4 DEF LinkedBut
  <2>6. PICK q : q = entries[u][p].second
    OBVIOUS
  <2>7. q \in 1..Len(entries[v]) /\ (p <= degree[u] <=> q > degree[v])
    BY <2>4, <2>5, <2>6 DEF LinkedAt
  <2>8. degree[u] # 0 \/ degree[v] # 0
    BY <1>1, <2>1, <2>4, <2>7
  <2>9. QED
    BY <2>1, <2>8
<1>4. QED
  BY <1>2, <1>3
=============================================================================
