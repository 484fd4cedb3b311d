------------------------- MODULE CollectionNotifier -------------------------
(***************************************************************************)
(* One CollectionNotifier of Realm's object store: the background twin of  *)
(* a collection, with the callbacks that want to hear of its changes.      *)
(* The operators below are its member functions, as functions from the     *)
(* notifier's state to its next state; RealmCoordinator decides when, and  *)
(* under which lock, each is called.                                       *)
(*                                                                         *)
(* Every transaction changes the collection.  A change set is the set of   *)
(* the versions whose transactions it describes: merging two is their      *)
(* union, and an empty one has nothing to tell.                            *)
(***************************************************************************)
EXTENDS Integers, Sequences, FiniteSets

CONSTANTS
  Notifier,  \* the collections that are observed
  Token      \* what add_callback returns; a token is never used twice

\* Not a notifier.
CONSTANT NoOne

ASSUME NoOneAssumption == NoOne \notin Notifier

CONSTANT SizeMax  \* std::numeric_limits<size_t>::max()

ASSUME SizeMaxAssumption == SizeMax \in Nat

\* The largest index: one more is 0.
npos == -1

Callback(t) ==
  [token |-> t, accumulated |-> {}, deliver |-> {},
   initialDelivered |-> FALSE, skipNext |-> FALSE]

\* "place" is where RealmCoordinator keeps the notifier: nowhere yet, in
\* m_new_notifiers, in m_notifiers, or dropped again.  "rows" is the version
\* whose rows the next changes are computed against (m_previous_rows), and
\* "wants" the Results' m_wants_background_updates.
Unregistered ==
  [place |-> "none", alive |-> FALSE, version |-> 0, hasRun |-> FALSE,
   haveCallbacks |-> FALSE, callbacks |-> <<>>, index |-> npos, count |-> SizeMax,
   changes |-> {}, rows |-> 0, wants |-> TRUE]

Tokens(n) == {n.callbacks[i].token : i \in DOMAIN n.callbacks}

\* find_callback.
PositionOf(n, t) == CHOOSE i \in DOMAIN n.callbacks : n.callbacks[i].token = t

-----------------------------------------------------------------------------
\* The constructor, for a Realm that reads "version".
Registered(version) ==
  [Unregistered EXCEPT !.place = "new", !.alive = TRUE, !.version = version]

\* The notifier's own loop over the callbacks is running.
Sending(n) == n.index # npos

\* add_callback.  It wakes the worker only when no loop is running.
AddCallback(n, t) ==
  [n EXCEPT !.callbacks = Append(@, Callback(t)),
            !.haveCallbacks = @ \/ ~Sending(n)]

\* Mutant of RemoveAt: the count stays.
RemoveAtUncounted(n, i) ==
  LET rest == SubSeq(n.callbacks, 1, i - 1)
                \o SubSeq(n.callbacks, i + 1, Len(n.callbacks))
  IN [n EXCEPT !.callbacks = rest,
               !.index = IF Sending(n) /\ @ >= i - 1 THEN @ - 1 ELSE @,
               !.haveCallbacks = rest # <<>>]

\* Mutant of RemoveAt: the index stays.
RemoveAtUnfollowed(n, i) ==
  LET rest == SubSeq(n.callbacks, 1, i - 1)
                \o SubSeq(n.callbacks, i + 1, Len(n.callbacks))
  IN [n EXCEPT !.callbacks = rest,
               !.count = IF @ = 0 THEN SizeMax ELSE @ - 1,
               !.haveCallbacks = rest # <<>>]

\* remove_callback, of the callback at position i (the code counts from 0).
\* Index and count are unsigned: taking one from 0 gives npos, or SizeMax.
RemoveAt(n, i) ==
  LET rest == SubSeq(n.callbacks, 1, i - 1)
                \o SubSeq(n.callbacks, i + 1, Len(n.callbacks))
  IN [n EXCEPT !.callbacks = rest,
               !.index = IF Sending(n) /\ @ >= i - 1 THEN @ - 1 ELSE @,
               !.count = IF @ = 0 THEN SizeMax ELSE @ - 1,
               !.haveCallbacks = rest # <<>>]

RemoveCallback(n, t) == RemoveAt(n, PositionOf(n, t))

EachCallback(n, F(_)) ==
  [n EXCEPT !.callbacks = [i \in DOMAIN @ |-> F(@[i])]]

\* suppress_next_notification, for each token of a commit without notifying.
Suppress(n, tokens) ==
  LET skip(c) == [c EXCEPT !.skipNext = @ \/ c.token \in tokens]
  IN EachCallback(n, skip)

\* Mutant of AddChanges: the new change replaces what has accumulated.
AddChangesOverwriting(n) ==
  LET add(c) == IF c.skipNext
                THEN [c EXCEPT !.skipNext = FALSE]
                ELSE [c EXCEPT !.accumulated = n.changes]
  IN [EachCallback(n, add) EXCEPT !.changes = {}]

\* add_changes: a callback that skips loses the change and stops skipping.
AddChanges(n) ==
  LET add(c) == IF c.skipNext
                THEN [c EXCEPT !.skipNext = FALSE]
                ELSE [c EXCEPT !.accumulated = @ \cup n.changes]
  IN [EachCallback(n, add) EXCEPT !.changes = {}]

\* Mutant of Package: what has accumulated is copied, not moved.
PackageCopying(n) ==
  LET take(c) == [c EXCEPT !.deliver = c.accumulated]
  IN [EachCallback(n, take) EXCEPT !.count = Len(n.callbacks)]

\* package_for_delivery, once prepare_to_deliver has found the Realm.
Package(n) ==
  LET take(c) == [c EXCEPT !.deliver = c.accumulated, !.accumulated = {}]
  IN [EachCallback(n, take) EXCEPT !.count = Len(n.callbacks)]

\* for_each_callback in after_advance: the next callback with something to
\* tell.  The mutex is released only around a call, so those that have
\* nothing are passed over in the same step.
Ready(n) ==
  {i \in (n.index + 1)..(n.count - 1) :
     /\ i < Len(n.callbacks)
     /\ LET c == n.callbacks[i + 1] IN ~c.initialDelivered \/ c.deliver # {}}

\* The loop goes on to a callback that is not there.
BeyondCallbacks(n) == Ready(n) = {} /\ n.count > Len(n.callbacks)

CallAt(n, i) ==
  [n EXCEPT !.index = i,
            !.callbacks[i + 1].initialDelivered = TRUE,
            !.callbacks[i + 1].deliver = {}]

LoopEnds(n) == [n EXCEPT !.index = npos]

\* unregister, by the destructor of the collection.
Unregister(n) == [n EXCEPT !.alive = FALSE]

-----------------------------------------------------------------------------
\* ResultsNotifier::run on the worker, with the shared group at "version":
\* need_to_run, then calculate_changes.  Neither holds a lock that keeps
\* callbacks from being added, so haveCallbacks may be out of date.
NeedToRun(n, version) ==
  /\ n.alive
  /\ n.haveCallbacks \/ n.wants
  /\ n.hasRun => n.rows # version

Run(n, version) ==
  IF ~NeedToRun(n, version) THEN n
  ELSE [n EXCEPT !.rows = version,
                 !.changes = IF n.hasRun /\ n.haveCallbacks
                             THEN (n.rows + 1)..version ELSE {}]

\* Mutant of PrepareHandover: without changes the version stays.
PrepareHandoverOfChanges(n, version) ==
  [AddChanges(n) EXCEPT !.version = IF n.changes = {} THEN @ ELSE version,
                        !.hasRun = TRUE]

\* prepare_handover, under the coordinator's lock.
PrepareHandover(n, version) ==
  [AddChanges(n) EXCEPT !.version = version, !.hasRun = TRUE]

NotifierState(Version) ==
  [place : {"none", "new", "main", "gone"}, alive : BOOLEAN,
   version : Version \cup {0}, hasRun : BOOLEAN, haveCallbacks : BOOLEAN,
   callbacks : Seq([token : Token, accumulated : SUBSET Version,
                    deliver : SUBSET Version, initialDelivered : BOOLEAN,
                    skipNext : BOOLEAN]),
   index : Int, count : Nat, changes : SUBSET Version,
   rows : Version \cup {0}, wants : BOOLEAN]
=============================================================================
