----------------------------- MODULE IndexSets -----------------------------
(***************************************************************************)
(* IndexSet of Realm's object store: a set of positions in a collection,   *)
(* with the operations that keep positions right when elements come and    *)
(* go.  The chunks of sorted ranges it is stored in are abstracted: here   *)
(* an index set is a finite set of naturals.                               *)
(***************************************************************************)
EXTENDS Integers, FiniteSets

npos == -1

\* count: the indices in [first, end).
count(S, first, end) == Cardinality({i \in S : first <= i /\ i < end})

\* The indices of a set, by size.
Ascending(S) ==
  [k \in 1..Cardinality(S) |-> CHOOSE i \in S : count(S, 0, i) = k - 1]

\* unshift: where index i would be without the elements at S.
unshift(S, i) == i - count(S, 0, i)

\* shift: where the i-th element that is not in S is.
shift(S, i) ==
  CHOOSE j \in i..(i + Cardinality(S)) : j \notin S /\ unshift(S, j) = i

\* Mutant of add_shifted_by: values are not unshifted first.
add_unshifted(S, shiftedBy, values) ==
  S \cup {shift(S, v) : v \in values \ shiftedBy}

\* add_shifted_by: the values, which count the elements at shiftedBy and not
\* those at S, the other way round.
add_shifted_by(S, shiftedBy, values) ==
  S \cup {shift(S, unshift(shiftedBy, v)) : v \in values \ shiftedBy}

\* shift_for_insert_at: the indices after elements were inserted at positions.
shift_for_insert_at(S, positions) == {shift(positions, i) : i \in S}

\* insert_at: the same, and the inserted ones belong to the set.
insert_at(S, positions) == positions \cup shift_for_insert_at(S, positions)

\* Mutant of erase_at: what follows the erased elements is not moved up.
remove_at(S, positions) == S \ positions

\* erase_at: the indices after the elements at positions were erased.
erase_at(S, positions) == {unshift(positions, i) : i \in S \ positions}

\* What erase_or_unshift returns for i; it also erases i.
erased_or_unshifted(S, i) == IF i \in S THEN npos ELSE unshift(S, i)

\* set: the first n indices.
set(n) == 0..(n - 1)

\* The n positions from index i on, of an insertion of n elements.
Positions(i, n) == i..(i + n - 1)
=============================================================================
