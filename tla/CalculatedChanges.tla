-------------------------- MODULE CalculatedChanges --------------------------
(***************************************************************************)
(* CollectionChangeBuilder::calculate: the difference between the old and  *)
(* the new rows of a query's results, each given as the rows' positions in *)
(* the new table (npos for a row that is gone).  No row occurs twice.      *)
(***************************************************************************)
EXTENDS CollectionChangeBuilder

\* The element at position i, counted from 0, and all positions.
At(seq, i) == seq[i + 1]
Indices(seq) == 0..(Len(seq) - 1)

\* The position of an element.
IndexOf(seq, e) == CHOOSE i \in Indices(seq) : At(seq, i) = e

-----------------------------------------------------------------------------
\* calculate_moves_unsorted, over the rows that are in both, by their new
\* positions.  A row that is not where it is expected has moved, if it can.
calculate_moves_unsorted(c, removed, prev, next, candidates) ==
  LET gone == {i \in Indices(prev) : At(prev, i) = npos}
      rows == Ascending({j \in Indices(next) : At(next, j) \in ToSet(prev)})
      step(r, j) ==
        LET old == IndexOf(prev, At(next, j))
            shifted == unshift(gone, old)
            expected == j - count(r.change.insertions, 0, j) + count(r.removed, 0, old)
        IN IF shifted = r.expected \/ At(next, j) \notin candidates \/ shifted = expected
           THEN [r EXCEPT !.expected = shifted + 1]
           ELSE [r EXCEPT !.change.moves = Append(@, Pair(old, j)),
                          !.change.insertions = @ \cup {j},
                          !.removed = @ \cup {old}]
      result == FoldLeft(step, [expected |-> 0, change |-> c, removed |-> removed], rows)
  IN [result.change EXCEPT !.deletions = @ \cup result.removed]

-----------------------------------------------------------------------------
(* The longest common subsequence: the longest block that a and b have in  *)
(* common, then those before and after it.                                 *)

\* m_modified.count(start - size + 1, start + 1).  The subtraction may wrap
\* around, and nothing is counted from there on.
ModifiedIn(modified, start, size) ==
  IF start - size + 1 < 0 THEN 0 ELSE count(modified, start - size + 1, start + 1)

\* find_longest_match in a from begin1 to end1 and b from begin2 to end2.
find_longest_match(a, b, modified, begin1, end1, begin2, end2) ==
  LET length(i, j) ==
        LET matches(k) == /\ i - k >= begin1 /\ j - k >= begin2
                          /\ At(a, i - k) = At(b, j - k)
        IN Cardinality({k \in 0..Len(a) : \A l \in 0..k : matches(l)})
      step(best, i) ==
        LET j == IndexOf(b, At(a, i))
            size == length(i, j)
            this == [i |-> i - size + 1, j |-> j - size + 1, size |-> size, modified |-> npos]
            bestCount == IF best.modified = npos
                         THEN ModifiedIn(modified, best.j, size) ELSE best.modified
            thisCount == count(modified, j - size + 1, j + 1)
        IN CASE j < begin2 \/ j >= end2 -> best
             [] j \in begin2..(end2 - 1) /\ size > best.size -> this
             [] j \in begin2..(end2 - 1) /\ size < best.size -> best
             [] j \in begin2..(end2 - 1) /\ size = best.size ->
                  IF thisCount < bestCount THEN [this EXCEPT !.modified = thisCount]
                  ELSE [best EXCEPT !.modified = bestCount]
  IN FoldLeft(step, [i |-> begin1, j |-> begin2, size |-> 0, modified |-> 0],
              Ascending(begin1..(end1 - 1)))

\* find_longest_matches, from position "first" of both on.
find_longest_matches(a, b, modified, first) ==
  LET matches[r \in [begin1 : Nat, end1 : Nat, begin2 : Nat, end2 : Nat]] ==
        LET m == find_longest_match(a, b, modified, r.begin1, r.end1, r.begin2, r.end2)
        IN IF m.size = 0 THEN {}
           ELSE {m}
             \cup (IF m.i > r.begin1 /\ m.j > r.begin2
                   THEN matches[[r EXCEPT !.end1 = m.i, !.end2 = m.j]] ELSE {})
             \cup (IF m.i + m.size < r.end2 /\ m.j + m.size < r.end2
                   THEN matches[[r EXCEPT !.begin1 = m.i + m.size,
                                          !.begin2 = m.j + m.size]] ELSE {})
  IN matches[[begin1 |-> first, end1 |-> Len(a), begin2 |-> first, end2 |-> Len(b)]]

\* calculate_moves_sorted: what is in no match is deleted and inserted.
calculate_moves_sorted(c, prev, next) ==
  LET both == ToSet(prev) \cap ToSet(next)
      oldAt == Ascending({i \in Indices(prev) : At(prev, i) \in both})
      newAt == Ascending({j \in Indices(next) : At(next, j) \in both})
      a == [k \in DOMAIN oldAt |-> At(prev, oldAt[k])]
      b == [k \in DOMAIN newAt |-> At(next, newAt[k])]
      different == {k \in Indices(a) : At(a, k) # At(b, k)}
      first == CHOOSE k \in different : \A l \in different : k <= l
      matches == find_longest_matches(a, b, c.modifications, first)
      inA == UNION {Positions(m.i, m.size) : m \in matches}
      inB == UNION {Positions(m.j, m.size) : m \in matches}
  IN IF different = {} THEN c
     ELSE [c EXCEPT
             !.deletions = @ \cup {At(oldAt, k) : k \in (first..(Len(a) - 1)) \ inA},
             !.insertions = @ \cup {At(newAt, k) : k \in (first..(Len(b) - 1)) \ inB}]

-----------------------------------------------------------------------------
\* calculate.  "changed" are the modified rows of the table, "inTableOrder" says
\* whether there are move candidates: results of a query without a sort.
calculate(prev, next, changed, inTableOrder, candidates) ==
  LET gone == {i \in Indices(prev) : At(prev, i) = npos}
      removed == {i \in Indices(prev) \ gone : At(prev, i) \notin ToSet(next)}
      start == [NoChange EXCEPT
                  !.deletions = gone,
                  !.insertions = {j \in Indices(next) : At(next, j) \notin ToSet(prev)},
                  !.modifications = {j \in Indices(next) :
                     At(next, j) \in ToSet(prev) /\ At(next, j) \in changed}]
      sorted == calculate_moves_sorted(start, prev, next)
  IN IF inTableOrder THEN calculate_moves_unsorted(start, removed, prev, next, candidates)
     ELSE [sorted EXCEPT !.deletions = @ \cup removed]
=============================================================================
