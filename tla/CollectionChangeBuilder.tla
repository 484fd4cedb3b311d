----------------------- MODULE CollectionChangeBuilder -----------------------
(***************************************************************************)
(* CollectionChangeBuilder of Realm's object store: what has happened to a *)
(* collection, as deletions (positions in the old collection), insertions  *)
(* and modifications (positions in the new one) and moves.  The operators  *)
(* are its member functions, from the builder's state to its next state.   *)
(*                                                                         *)
(* Positions count from 0, as in the code.  Columns are left out: each has *)
(* an index set of its own, which is treated as "modifications" is.        *)
(***************************************************************************)
EXTENDS IndexSets, SequencesExt

CONSTANT SizeMax  \* std::numeric_limits<size_t>::max()

\* The terms of a sequence that have these numbers, in their order.
Subsequence(seq, numbers) ==
  [k \in DOMAIN Ascending(numbers) |-> seq[Ascending(numbers)[k]]]

\* "moves" in the order of the vector; "mapping" is m_move_mapping, with at
\* most one entry per "to".
NoChange == [deletions |-> {}, insertions |-> {}, modifications |-> {},
             moves |-> <<>>, mapping |-> {}]

IsEmpty(c) ==
  c.deletions = {} /\ c.insertions = {} /\ c.modifications = {} /\ c.moves = <<>>

Pair(from, to) == [from |-> from, to |-> to]

\* The moves' destinations after something that moves positions.
MapMoves(c, after) ==
  LET mapped(m) == Pair(m.from, after[m.to])
  IN [c EXCEPT !.moves = [k \in DOMAIN @ |-> mapped(@[k])],
               !.mapping = {mapped(m) : m \in @}]

\* m_move_mapping[to] = from, and m_move_mapping.erase(to).
Unmapped(c, to) == [c EXCEPT !.mapping = {m \in @ : m.to # to}]
Mapped(c, to, from) ==
  [c EXCEPT !.mapping = {m \in @ : m.to # to} \cup {Pair(from, to)}]

Mapping(c, to) == {m \in c.mapping : m.to = to}
Origin(c, to) == (CHOOSE m \in Mapping(c, to) : TRUE).from

-----------------------------------------------------------------------------
(* Operations on every collection.                                         *)

modify(c, i) == [c EXCEPT !.modifications = @ \cup {i}]

insert(c, i, n) ==
  LET after == [to \in Nat |-> IF to >= i THEN to + n ELSE to]
  IN [MapMoves(c, after) EXCEPT
        !.insertions = insert_at(@, Positions(i, n)),
        !.modifications = shift_for_insert_at(@, Positions(i, n))]

\* Mutant of Deleted: an inserted element is recorded too.
DeletedOrInserted(c, i) ==
  [c EXCEPT !.deletions =
     @ \cup {shift(@, erased_or_unshifted(c.insertions, i))}]

\* The deletion of the element now at i, unless it was inserted.
Deleted(c, i) ==
  LET unshifted == erased_or_unshifted(c.insertions, i)
  IN IF unshifted = npos THEN c
     ELSE [c EXCEPT !.deletions = @ \cup {shift(@, unshifted)}]

\* Mutant of erase: a move to the erased row stays.
erase_keeping_move(c, i) ==
  LET after == [to \in Nat |-> IF to > i THEN to - 1 ELSE to]
  IN [MapMoves(Deleted(c, i), after) EXCEPT
        !.insertions = erase_at(@, {i}),
        !.modifications = erase_at(@, {i})]

erase(c, i) ==
  LET others == {k \in DOMAIN c.moves : c.moves[k].to # i}
      after == [to \in Nat |-> IF to > i THEN to - 1 ELSE to]
  IN [MapMoves([Deleted(c, i) EXCEPT !.moves = Subsequence(@, others)], after) EXCEPT
        !.insertions = erase_at(@, {i}),
        !.modifications = erase_at(@, {i})]

\* clear, of a collection of the given size; tables do not say theirs.
clear(c, size) ==
  [NoChange EXCEPT !.deletions =
     set(IF size = SizeMax THEN size
         ELSE size + Cardinality(c.deletions) - Cardinality(c.insertions))]

-----------------------------------------------------------------------------
(* Operations on lists.                                                    *)

\* clean_up_stale_moves: goes through the moves in their order and drops those
\* that the other deletions and insertions would bring about by themselves.
CleanUp(c, m) ==
  IF unshift(c.deletions, m.from) = unshift(c.insertions, m.to)
  THEN [c EXCEPT !.deletions = @ \ {m.from}, !.insertions = @ \ {m.to}]
  ELSE [c EXCEPT !.moves = Append(@, m)]

clean_up_stale_moves(c) ==
  LET cleaned[n \in 0..Len(c.moves)] ==
        IF n = 0 THEN [c EXCEPT !.moves = <<>>] ELSE CleanUp(cleaned[n - 1], c.moves[n])
  IN cleaned[Len(c.moves)]

\* move.  A row that was moved already keeps its origin; one that was inserted
\* has none; the others are deleted, inserted and moved.
move(c, from, to) ==
  LET pass == [t \in Nat |-> IF t = from THEN to
                             ELSE IF to <= t /\ t < from THEN t + 1
                             ELSE IF from < t /\ t <= to THEN t - 1 ELSE t]
      known == \E k \in DOMAIN c.moves : c.moves[k].to = from
      unshifted == erased_or_unshifted(c.insertions, from)
      origin == shift(c.deletions, unshifted)
      moved == [c EXCEPT !.insertions = insert_at(erase_at(@, {from}), {to}),
                         !.modifications =
                            IF from \in @ THEN insert_at(erase_at(@, {from}), {to})
                            ELSE shift_for_insert_at(erase_at(@, {from}), {to})]
  IN IF known \/ unshifted = npos THEN MapMoves(moved, pass)
     ELSE [MapMoves(moved, pass) EXCEPT !.deletions = @ \cup {origin},
                                        !.moves = Append(@, Pair(origin, to))]

-----------------------------------------------------------------------------
(* Operations on tables, where the last row takes the place of an erased   *)
(* one and no other row changes its position.                              *)

\* The row that was at "old" is at "new" now.  One that was there in the old
\* table becomes a deletion and an insertion, with the mapping.
MovedAway(c, old, new) ==
  IF old \in c.insertions THEN c
  ELSE LET from == shift(c.deletions, unshift(c.insertions, old))
       IN [Mapped(c, new, from) EXCEPT !.deletions = @ \cup {from},
                                       !.insertions = @ \cup {old}]

\* move_over: the last row replaces the row at i.
move_over(c, i, last) ==
  LET inserted == i \in c.insertions
      lastInserted == last \in c.insertions
      lastMoved == lastInserted /\ Mapping(c, last) # {}
      modified ==
        [c EXCEPT !.modifications =
           IF last \in @ /\ i # last THEN (@ \ {last}) \cup {i} ELSE @ \ {i}]
      mapped == IF lastMoved THEN Mapped(Unmapped(modified, last), i, Origin(c, last))
                ELSE IF inserted THEN Unmapped(modified, i) ELSE modified
      lastGone == IF lastInserted THEN [mapped EXCEPT !.insertions = @ \ {last}]
                  ELSE LET from == shift(c.deletions, unshift(c.insertions, last))
                       IN [Mapped(mapped, i, from) EXCEPT !.deletions = @ \cup {from}]
  IN IF i = last
     THEN [Unmapped(Deleted(modified, i), i) EXCEPT !.insertions = erase_at(@, {i})]
     ELSE IF inserted THEN lastGone
     ELSE [Deleted(lastGone, i) EXCEPT !.insertions = @ \cup {i}]

\* swap, with i < j.
swap(c, i, j) ==
  LET exchange(k) == IF k = i THEN j ELSE IF k = j THEN i ELSE k
      swapped == [c EXCEPT !.modifications = {exchange(k) : k \in @},
                           !.mapping = {Pair(m.from, exchange(m.to)) : m \in @}]
      knowI == Mapping(c, i) # {}
      knowJ == Mapping(c, j) # {}
  IN CASE knowI /\ knowJ -> swapped
       [] knowI /\ ~knowJ -> MovedAway(swapped, j, i)
       [] ~knowI /\ knowJ -> MovedAway(swapped, i, j)
       [] ~knowI /\ ~knowJ -> MovedAway(MovedAway(swapped, j, i), i, j)

\* subsume: the row at "new", just inserted, becomes what the row at "old" was.
subsume(c, old, new) ==
  LET modified == IF old \in c.modifications THEN modify(c, new) ELSE c
  IN IF Mapping(c, old) # {} THEN Mapped(Unmapped(modified, old), new, Origin(c, old))
     ELSE IF old \in c.insertions THEN modified
     ELSE Mapped(modified, new, shift(c.deletions, unshift(c.insertions, old)))

\* parse_complete: the mapping becomes moves, by ascending origin.
parse_complete(c) ==
  LET back == {m \in c.mapping : m.from = m.to}
      all == ToSet(c.moves) \cup (c.mapping \ back)
      origins == Ascending({m.from : m \in all})
  IN [deletions |-> c.deletions \ {m.from : m \in back},
      insertions |-> c.insertions \ {m.to : m \in back},
      modifications |-> c.modifications,
      moves |-> [k \in DOMAIN origins |-> CHOOSE m \in all : m.from = origins[k]], mapping |-> {}]
-----------------------------------------------------------------------------
(* Two changes in a row.                                                   *)

\* Mutant of After: c's deletions are not looked at.
AfterInsertions(c, i) == shift(c.insertions, i)

\* Where the row at position i is after c, if c has neither moved nor deleted it.
After(c, i) == shift(c.insertions, unshift(c.deletions, i))

\* The first part of merge: every old move whose row c moves again takes that
\* move over, one whose row c deletes is dropped, the others are adjusted.  The
\* last of c's moves takes the place of one that was taken over.
TakeOverOne(r, o, c) ==
  LET again == {k \in DOMAIN r.new : r.new[k].from = o.to}
  IN IF again # {}
     THEN LET k == CHOOSE k \in again : \A l \in again : k <= l
          IN [kept |-> Append(r.kept, Pair(o.from, r.new[k].to)),
              new |-> Front([r.new EXCEPT ![k] = Last(r.new)])]
     ELSE IF o.to \in c.deletions THEN r
     ELSE [kept |-> Append(r.kept, Pair(o.from, After(c, o.to))), new |-> r.new]

TakeOver(old, c) ==
  LET taken[n \in 0..Len(old)] ==
        IF n = 0 THEN [kept |-> <<>>, new |-> c.moves]
        ELSE TakeOverOne(taken[n - 1], old[n], c)
  IN taken[Len(old)]

\* merge.  A move of a row that b inserted is none; modified rows that c moves
\* stay modified.
merge(b, c) ==
  LET taken == TakeOver(b.moves, c)
      ofOldRow == {k \in DOMAIN taken.new : taken.new[k].from \notin b.insertions}
      new == Subsequence(taken.new, ofOldRow)
      ignored == {m \in ToSet(taken.new) : m.from \in b.insertions}
      modified == {m \in ToSet(c.moves) \ ignored : m.from \in b.modifications}
      back(m) == Pair(shift(b.deletions, unshift(b.insertions, m.from)), m.to)
      merged ==
        [deletions |-> add_shifted_by(b.deletions, b.insertions, c.deletions),
         insertions |-> insert_at(erase_at(b.insertions, c.deletions), c.insertions),
         modifications |-> b.modifications,
         moves |-> taken.kept \o [k \in DOMAIN new |-> back(new[k])],
         mapping |-> {}]
  IN IF IsEmpty(c) THEN b
     ELSE IF IsEmpty(b) THEN c
     ELSE [clean_up_stale_moves(merged) EXCEPT
             !.modifications =
                shift_for_insert_at(erase_at(@, c.deletions), c.insertions)
                  \cup c.modifications \cup {m.to : m \in modified}]

\* Mutant of finalize: deletions are not made room for.
finalize_unshifted(c) ==
  [deletions |-> c.deletions, insertions |-> c.insertions, moves |-> c.moves,
   modifications |-> erase_at(c.modifications, c.insertions),
   modifications_new |-> c.modifications \ c.insertions]

\* finalize: what callbacks are given.  What is modified is said in positions of
\* the old and of the new collection, and not of what is inserted or moved.
finalize(c) ==
  [deletions |-> c.deletions, insertions |-> c.insertions, moves |-> c.moves,
   modifications |->
      shift_for_insert_at(erase_at(c.modifications, c.insertions), c.deletions),
   modifications_new |-> c.modifications \ c.insertions]
=============================================================================
