------------------------- MODULE TransactLogObserver -------------------------
(***************************************************************************)
(* From a transaction log to what a callback is told: a collection that    *)
(* changes, TransactLogObserver, which gathers the log's instructions in a *)
(* builder while the worker advances, and the notifier, which turns the    *)
(* builder into the collection's own change and merges that into what has  *)
(* accumulated for a callback.                                             *)
(*                                                                         *)
(* One collection is observed: a list of links (ListNotifier), or a query  *)
(* over a table (ResultsNotifier), in table order or sorted.  A link or a  *)
(* row is an identity.  The log's instructions are core's, which is not in *)
(* the repository: what they do to the rows is modelled from its headers.  *)
(***************************************************************************)
EXTENDS CalculatedChanges

CONSTANTS
  Id,       \* identities of links and rows, numbers
  Kinds,    \* of {"list", "table order", "sorted"}: what is observed
  Lengths,  \* how many links or rows there may be at first
  MaxRows,  \* and at most
  Key,      \* what a row's property may be; a negative one does not match
  MaxOps    \* the number of instructions is bounded, for every kind

ASSUME KindsAssumption == Kinds \subseteq {"list", "table order", "sorted"}
ASSUME BoundsAssumption ==
  /\ Id \subseteq Nat /\ IsFiniteSet(Id) /\ Key \subseteq Int /\ 0 \in Key
  /\ MaxRows \in Nat /\ MaxOps \in [Kinds -> Nat]
  /\ Lengths \subseteq Nat /\ \A n \in Lengths : n <= MaxRows /\ 1..n \subseteq Id
  /\ SizeMax \in Nat /\ SizeMax > 2 * MaxRows

VARIABLES
  kind,        \* what is observed
  rows,        \* the list's links, or the table's rows, as of the log so far
  keys,        \* the rows' property
  touched,     \* the links or rows modified since the worker last ran
  change,      \* the builder, of the list or of the table
  start,       \* the rows when the worker last ran
  shown,       \* the collection when the worker last ran
  seen,        \* the collection that the callback knows
  changed,     \* its elements modified since
  accumulated, \* Callback::accumulated_changes
  swapped,     \* whether the log has had a swap of two rows
  leftover,    \* whether a list was deleted and reported as changed as well
  left         \* how many instructions are left

vars == <<kind, rows, keys, touched, change, start, shown, seen, changed,
          accumulated, swapped, leftover, left>>

-----------------------------------------------------------------------------
\* The query's results, sorted by the property if they are sorted.
WithKey(k) == LET has(r) == keys[r] = k IN SelectSeq(rows, has)

Collection ==
  LET matches(r) == keys[r] >= 0
  IN CASE kind = "list" -> rows
       [] kind = "table order" -> SelectSeq(rows, matches)
       [] kind = "sorted" ->
            LET order == Ascending({k \in Key : k >= 0})
            IN FlattenSeq([i \in DOMAIN order |-> WithKey(order[i])])

\* n identities that mean nothing to anybody: the smallest, if there are any.
FreshOnes(n) ==
  LET free == Ascending(Id \ (ToSet(rows) \cup ToSet(start) \cup ToSet(seen)))
  IN {SubSeq(free, 1, n) : m \in {n} \cap (1..Len(free))}
Fresh == {new[1] : new \in FreshOnes(1)}

Init ==
  /\ kind \in Kinds
  /\ \E n \in Lengths : rows = [i \in 1..n |-> i]
  /\ keys \in [Id -> Key]
  /\ \A i \in Id : (kind = "list" \/ i \notin ToSet(rows)) => keys[i] = 0
  /\ start = rows /\ shown = Collection /\ seen = Collection
  /\ touched = {} /\ changed = {}
  /\ change = NoChange /\ accumulated = NoChange
  /\ swapped = FALSE /\ leftover = FALSE
  /\ left = MaxOps[kind]

\* What every instruction does: the rows, their properties, the builder, and
\* the modified rows.
Instruction(rows_, keys_, change_, touched_) ==
  /\ left > 0 /\ left' = left - 1
  /\ rows' = rows_ /\ change' = change_
  /\ keys' = [r \in Id |-> IF r \in ToSet(rows_) THEN keys_[r] ELSE 0]
  /\ touched' = touched_ \cap ToSet(rows_)
  /\ UNCHANGED <<kind, start, shown, seen, changed, accumulated, leftover>>

-----------------------------------------------------------------------------
(* Instructions on the list.                                               *)

ListInstruction(rows_, change_, touched_) ==
  /\ kind = "list" /\ UNCHANGED swapped
  /\ Instruction(rows_, keys, change_, touched_)

\* A list with one link more, at position i, and without the one that is there.
With(seq, i, new) == InsertAt(seq, i + 1, new)
Without(seq, i) == RemoveAt(seq, i + 1)

link_list_insert(i) ==
  /\ Len(rows) < MaxRows
  /\ \E new \in Fresh :
       ListInstruction(With(rows, i, new), insert(change, i, 1), touched)

\* Also link_list_nullify.
link_list_erase(i) == ListInstruction(Without(rows, i), erase(change, i), touched)

\* A link is replaced, or what it links to is modified, which run finds out for
\* every link.  link_list_swap is observed as one of these for each of the two.
link_list_set(i) ==
  ListInstruction(rows, modify(change, i), touched \cup {At(rows, i)})

link_list_move(from, to) ==
  /\ from # to
  /\ ListInstruction(With(Without(rows, from), to, At(rows, from)),
                     move(change, from, to), touched)

link_list_clear ==
  rows # <<>> /\ ListInstruction(<<>>, clear(change, Len(rows)), touched)

-----------------------------------------------------------------------------
(* Instructions on the table.                                              *)

TableInstruction(rows_, keys_, change_, touched_) ==
  kind # "list" /\ Instruction(rows_, keys_, change_, touched_)

\* The rows when the last one has been moved over the one at position i.
LastOver(seq, i) == Front([seq EXCEPT ![i + 1] = Last(seq)])

LastRow == Len(rows) - 1

\* Rows are added at the end.
insert_empty_rows(n) ==
  /\ Len(rows) + n <= MaxRows
  /\ \E new \in FreshOnes(n) :
       TableInstruction(rows \o new, keys, insert(change, Len(rows), n), touched)
  /\ UNCHANGED swapped

\* erase_rows, unordered.
erase_rows(i) ==
  /\ TableInstruction(LastOver(rows, i), keys, move_over(change, i, LastRow), touched)
  /\ UNCHANGED swapped

swap_rows(i, j) ==
  /\ i < j
  /\ TableInstruction([rows EXCEPT ![i + 1] = At(rows, j), ![j + 1] = At(rows, i)],
                      keys, swap(change, i, j), touched)
  /\ swapped' = TRUE

\* merge_rows and the erase_rows that follows: the new row at position j, added
\* since the worker last ran, has the primary key of the row at position i.
\* What was linked to that is linked to the new row, which keeps its property.
merge_rows(i, j) ==
  LET old == At(rows, i)
      new == At(rows, j)
  IN /\ i # j /\ new \notin ToSet(start)
     /\ TableInstruction(LastOver([rows EXCEPT ![j + 1] = old], i),
                         [keys EXCEPT ![old] = keys[new]],
                         move_over(subsume(change, i, j), i, LastRow),
                         IF new \in touched THEN touched \cup {old} ELSE touched)
     /\ UNCHANGED swapped

clear_table ==
  /\ rows # <<>> /\ UNCHANGED swapped
  /\ TableInstruction(<<>>, keys, clear(change, SizeMax), touched)

\* mark_dirty, for all the instructions that set a property.
set_property(i, k) ==
  /\ TableInstruction(rows, [keys EXCEPT ![At(rows, i)] = k], modify(change, i),
                      touched \cup {At(rows, i)})
  /\ UNCHANGED swapped

-----------------------------------------------------------------------------
(* The worker has come to the end of the log.                              *)

\* Where a row of the table at "start" is now, npos if it is gone.
NewIndex(table, i) ==
  LET moves == {m \in ToSet(table.moves) : m.from = i}
  IN IF i \notin table.deletions THEN After(table, i)
     ELSE IF moves # {} THEN (CHOOSE m \in moves : TRUE).to ELSE npos

\* calculate_changes: m_previous_rows is brought up to date first.
calculate_changes ==
  LET table == parse_complete(change)
      previous == [i \in DOMAIN shown |-> NewIndex(table, IndexOf(start, shown[i]))]
      next == [i \in DOMAIN Collection |-> IndexOf(rows, Collection[i])]
  IN calculate(previous, next, table.modifications,
               kind = "table order", table.insertions)

\* parse_complete of the observer, the notifier's run and its add_changes.  What
\* ListNotifier::run adds to the modifications is set with the links: see there.
Run ==
  /\ accumulated' = merge(accumulated, IF kind = "list" THEN clean_up_stale_moves(change)
                                       ELSE calculate_changes)
  /\ start' = rows /\ shown' = Collection
  /\ changed' = (changed \cup touched) \cap ToSet(rows)
  /\ touched' = {} /\ change' = NoChange
  /\ UNCHANGED <<kind, rows, keys, seen, swapped, leftover, left>>

\* The same when the list's own row has been deleted: the observer drops the
\* list's builder as it is, hears of no link from there on and does not complete
\* it; run calls every link deleted and leaves the rest of the builder alone.
RunOfDeletedList ==
  /\ kind = "list" /\ left > 0 /\ left' = 0
  /\ accumulated' = merge(accumulated,
       IF start = <<>> THEN NoChange ELSE [change EXCEPT !.deletions = set(Len(start))])
  /\ leftover' = (leftover \/ (start # <<>> /\ change.insertions \cup change.modifications # {}))
  /\ rows' = <<>> /\ start' = <<>> /\ shown' = <<>>
  /\ changed' = {} /\ touched' = {} /\ change' = NoChange
  /\ UNCHANGED <<kind, keys, seen, swapped>>

-----------------------------------------------------------------------------
ListInstructions ==
  \/ \E i \in 0..Len(rows) : link_list_insert(i)
  \/ \E i \in Indices(rows) :
       \/ link_list_erase(i) \/ link_list_set(i)
       \/ \E j \in Indices(rows) : link_list_move(i, j)
  \/ link_list_clear

TableInstructions ==
  \/ \E n \in 1..2 : insert_empty_rows(n)
  \/ \E i \in Indices(rows) :
       \/ erase_rows(i)
       \/ \E k \in Key : set_property(i, k)
       \/ \E j \in Indices(rows) : swap_rows(i, j) \/ merge_rows(i, j)
  \/ clear_table

Next == ListInstructions \/ TableInstructions \/ Run \/ RunOfDeletedList

Spec == Init /\ [][Next]_vars

-----------------------------------------------------------------------------
\* What is left of a collection without the elements at some positions.
Rest(seq, positions) ==
  LET kept == Ascending(Indices(seq) \ positions)
  IN [k \in DOMAIN kept |-> At(seq, kept[k])]

\* c says how "old" has become "new", and which of its elements were modified.
Describes(c, old, new, modified) ==
  LET moves == ToSet(c.moves) \cup c.mapping
      told == (Indices(new) \ c.insertions) \cup {m.to : m \in moves}
  IN /\ c.deletions \subseteq Indices(old)
     /\ c.insertions \cup c.modifications \subseteq Indices(new)
     /\ Rest(old, c.deletions) = Rest(new, c.insertions)
     /\ \A m \in moves : /\ m.from \in c.deletions /\ m.to \in c.insertions
                         /\ At(old, m.from) = At(new, m.to)
     /\ \A j \in told : j \in c.modifications <=> At(new, j) \in modified

\* Type invariant.
Moves == [from : Nat, to : Nat]
ChangeSets ==
  [deletions : SUBSET Nat, insertions : SUBSET Nat, modifications : SUBSET Nat,
   moves : Seq(Moves), mapping : SUBSET Moves]
TypeOK ==
  /\ kind \in Kinds /\ left \in 0..MaxOps[kind] /\ {swapped, leftover} \subseteq BOOLEAN
  /\ rows \in Seq(Id) /\ Len(rows) <= MaxRows
  /\ {start, shown, seen} \subseteq Seq(Id)
  /\ keys \in [Id -> Key]
  /\ touched \in SUBSET Id /\ changed \in SUBSET Id
  /\ change \in ChangeSets /\ accumulated \in ChangeSets

\* At every moment the builder describes the transaction so far.
ListIsDescribed == kind = "list" => Describes(change, start, rows, touched)

\* The row that a query has found can be found again, wherever it has gone.
RowsAreFollowed ==
  kind # "list" =>
    \A i \in Indices(start) :
      NewIndex(parse_complete(change), i) =
        IF At(start, i) \in ToSet(rows) THEN IndexOf(rows, At(start, i)) ELSE npos

\* calculate_moves_unsorted is written for logs without swap(): with them it
\* may take two rows that have changed places for rows that have stayed.
Unsorted == kind = "table order" /\ swapped

\* What has accumulated for a callback describes what has happened to its
\* collection since it was last told, over any number of runs.
AccumulatedDescribes ==
  Unsorted \/ leftover \/ Describes(accumulated, seen, shown, changed)

\* The two lists of modified positions that a callback is given are about the
\* same elements, one in the collection it knows and one in the new one.
ModificationsAgree ==
  LET told == finalize(accumulated)
  IN Unsorted \/ leftover
       \/ {At(seen, i) : i \in told.modifications}
            = {At(shown, j) : j \in told.modifications_new}

\* Of a list that has been deleted all rows are reported as removed ("LV was
\* deleted, so report all of the rows being removed"), and nothing in it as
\* inserted or modified: there is nothing in it.
DeletedListIsEmpty ==
  LET told == finalize(accumulated)
  IN kind = "list" /\ shown = <<>> =>
       told.insertions = {} /\ told.modifications_new = {}
=============================================================================
