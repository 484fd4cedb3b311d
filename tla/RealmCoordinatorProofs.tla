----------------------- MODULE RealmCoordinatorProofs -----------------------
(***************************************************************************)
(* What RealmCoordinator promises for every number of collections, tokens  *)
(* and commits.  The argument has three parts, each an inductive invariant *)
(* on top of the one before:                                               *)
(*   CoreInv      who is in which list at which version, and where the     *)
(*                main thread and the worker are (this module);            *)
(*   DeliveryInv  what has accumulated, is delivered and was told          *)
(*                (RealmDeliveryProofs);                                   *)
(*   CoverInv     that nothing up to a notifier's version is missing       *)
(*                (RealmCoverProofs).                                      *)
(***************************************************************************)
EXTENDS RealmCoordinator, SequenceTheorems, WellFoundedInduction, TLAPS

-----------------------------------------------------------------------------
(* What the member functions of a CollectionNotifier do to it, field by    *)
(* field: the facts that the proofs use instead of the functions'          *)
(* definitions.                                                            *)

CallbackState(Versions) ==
  [token : Token, accumulated : SUBSET Versions, deliver : SUBSET Versions,
   initialDelivered : BOOLEAN, skipNext : BOOLEAN]

LEMMA NotifierFields ==
  ASSUME NEW Versions, NEW s \in NotifierState(Versions)
  PROVE  /\ s.place \in {"none", "new", "main", "gone"} /\ s.alive \in BOOLEAN
         /\ s.version \in Versions \cup {0} /\ s.hasRun \in BOOLEAN
         /\ s.haveCallbacks \in BOOLEAN
         /\ s.callbacks \in Seq(CallbackState(Versions))
         /\ s.index \in Int /\ s.count \in Nat
         /\ s.changes \in SUBSET Versions /\ s.rows \in Versions \cup {0}
         /\ s.wants \in BOOLEAN
BY DEF NotifierState, CallbackState

LEMMA CallbackFields ==
  ASSUME NEW Versions, NEW s \in NotifierState(Versions), NEW j \in DOMAIN s.callbacks
  PROVE  /\ s.callbacks[j].token \in Token
         /\ s.callbacks[j].accumulated \in SUBSET Versions
         /\ s.callbacks[j].deliver \in SUBSET Versions
         /\ s.callbacks[j].initialDelivered \in BOOLEAN
         /\ s.callbacks[j].skipNext \in BOOLEAN
<1>1. s.callbacks[j] \in CallbackState(Versions)
  BY NotifierFields
<1> QED BY <1>1 DEF CallbackState

\* The functions on callbacks leave these members alone.
Apart(s, r) ==
  /\ r.place = s.place /\ r.alive = s.alive /\ r.version = s.version
  /\ r.hasRun = s.hasRun /\ r.rows = s.rows

LEMMA RegisteredFacts ==
  ASSUME NEW Versions, NEW version \in Versions
  PROVE  LET r == Registered(version) IN
         /\ Unregistered \in NotifierState(Versions)
         /\ r \in NotifierState(Versions)
         /\ r.place = "new" /\ r.alive /\ r.version = version
         /\ ~ r.hasRun /\ r.rows = 0 /\ r.changes = {} /\ ~ r.haveCallbacks
         /\ r.callbacks = <<>> /\ r.index = -1 /\ r.count = SizeMax
<1>1. <<>> \in Seq(CallbackState(Versions)) /\ npos \in Int /\ SizeMax \in Nat
  BY SizeMaxAssumption DEF npos
<1>2. Unregistered \in NotifierState(Versions)
  BY <1>1 DEF Unregistered, NotifierState, CallbackState
<1>3. Registered(version) \in NotifierState(Versions)
  BY <1>2 DEF Registered, NotifierState
<1> QED BY <1>2, <1>3 DEF Registered, Unregistered, npos

\* A sequence with each element replaced.
LEMMA EachIsSeq ==
  ASSUME NEW S, NEW q \in Seq(S), NEW f \in [DOMAIN q -> S]
  PROVE  f \in Seq(S) /\ Len(f) = Len(q) /\ DOMAIN f = DOMAIN q
<1>1. DOMAIN q = 1..Len(q) /\ Len(q) \in Nat
  OBVIOUS
<1> QED BY <1>1

-----------------------------------------------------------------------------
(* Sequences of callbacks.                                                 *)

\* add_callback appends a callback that was told of nothing.
LEMMA AddCallbackFacts ==
  ASSUME NEW Versions, NEW s \in NotifierState(Versions), NEW t \in Token
  PROVE  LET r == AddCallback(s, t)
             last == Len(s.callbacks) + 1
         IN /\ r \in NotifierState(Versions)
            /\ Apart(s, r) /\ r.changes = s.changes
            /\ r.index = s.index /\ r.count = s.count
            /\ r.haveCallbacks <=> (s.haveCallbacks \/ s.index = -1)
            /\ Len(r.callbacks) = last
            /\ \A j \in DOMAIN s.callbacks : r.callbacks[j] = s.callbacks[j]
            /\ r.callbacks[last].token = t
            /\ r.callbacks[last].accumulated = {} /\ r.callbacks[last].deliver = {}
            /\ ~ r.callbacks[last].initialDelivered /\ ~ r.callbacks[last].skipNext
<1> DEFINE r == AddCallback(s, t)
<1>1. /\ s.callbacks \in Seq(CallbackState(Versions)) /\ s.haveCallbacks \in BOOLEAN
      /\ s.index \in Int
  BY NotifierFields
<1>2. Callback(t) \in CallbackState(Versions)
  BY DEF Callback, CallbackState
<1>3. Append(s.callbacks, Callback(t)) \in Seq(CallbackState(Versions))
  BY <1>1, <1>2
<1>4. r \in NotifierState(Versions)
  BY <1>1, <1>3 DEF AddCallback, NotifierState, CallbackState, Sending
<1>5. /\ r.callbacks = Append(s.callbacks, Callback(t))
      /\ r.haveCallbacks = (s.haveCallbacks \/ ~ Sending(s))
      /\ Apart(s, r) /\ r.changes = s.changes
      /\ r.index = s.index /\ r.count = s.count
  BY DEF AddCallback, NotifierState, Apart
<1> HIDE DEF r
<1>6. r.haveCallbacks <=> (s.haveCallbacks \/ s.index = -1)
  BY <1>5 DEF Sending, npos
<1>7. /\ Len(r.callbacks) = Len(s.callbacks) + 1
      /\ \A j \in DOMAIN s.callbacks : r.callbacks[j] = s.callbacks[j]
      /\ r.callbacks[Len(s.callbacks) + 1] = Callback(t)
  BY <1>1, <1>2, <1>5
<1>8. /\ Callback(t).token = t /\ Callback(t).accumulated = {} /\ Callback(t).deliver = {}
      /\ ~ Callback(t).initialDelivered /\ ~ Callback(t).skipNext
  BY DEF Callback
<1> QED BY <1>4, <1>5, <1>6, <1>7, <1>8 DEF r

\* The position of a token is the position of a callback that has it.
LEMMA PositionFacts ==
  ASSUME NEW s, NEW t \in Tokens(s)
  PROVE  /\ PositionOf(s, t) \in DOMAIN s.callbacks
         /\ s.callbacks[PositionOf(s, t)].token = t
BY DEF Tokens, PositionOf

\* A sequence without its element at i.
LEMMA WithoutFacts ==
  ASSUME NEW S, NEW q \in Seq(S), NEW i \in DOMAIN q
  PROVE  LET rest == SubSeq(q, 1, i - 1) \o SubSeq(q, i + 1, Len(q)) IN
         /\ rest \in Seq(S) /\ Len(rest) = Len(q) - 1
         /\ \A j \in DOMAIN rest : rest[j] = IF j < i THEN q[j] ELSE q[j + 1]
         /\ \A j \in DOMAIN rest : (j < i => j \in DOMAIN q) /\ (j >= i => j + 1 \in DOMAIN q)
<1> DEFINE front == SubSeq(q, 1, i - 1)
           back == SubSeq(q, i + 1, Len(q))
           rest == front \o back
<1>1. Len(q) \in Nat /\ i \in 1..Len(q) /\ DOMAIN q = 1..Len(q)
  OBVIOUS
<1>2. /\ front \in Seq(S) /\ Len(front) = i - 1
      /\ \A j \in 1..(i - 1) : front[j] = q[j]
  BY <1>1
<1>3. /\ back \in Seq(S) /\ Len(back) = Len(q) - i
      /\ \A j \in 1..(Len(q) - i) : back[j] = q[i + j]
  BY <1>1
<1> HIDE DEF front, back
<1>4. /\ rest \in Seq(S) /\ Len(rest) = Len(q) - 1
      /\ \A j \in 1..(Len(front) + Len(back)) :
           rest[j] = IF j <= Len(front) THEN front[j] ELSE back[j - Len(front)]
  <2>1. /\ rest \in Seq(S) /\ Len(rest) = Len(front) + Len(back)
        /\ \A j \in 1..(Len(front) + Len(back)) :
             rest[j] = IF j <= Len(front) THEN front[j] ELSE back[j - Len(front)]
    BY <1>2, <1>3, ConcatProperties
  <2> QED BY <1>1, <1>2, <1>3, <2>1
<1> HIDE DEF rest
<1>5. DOMAIN rest = 1..(Len(q) - 1)
  BY <1>4, LenProperties
<1>6. ASSUME NEW j \in 1..(Len(q) - 1)
      PROVE  rest[j] = IF j < i THEN q[j] ELSE q[j + 1]
  <2>1. CASE j < i
    <3>1. j \in 1..(i - 1) /\ j \in 1..(Len(front) + Len(back)) /\ j <= Len(front)
      BY <1>1, <1>2, <1>3, <2>1
    <3> QED BY <1>2, <1>4, <2>1, <3>1
  <2>2. CASE ~ (j < i)
    <3> DEFINE k == j - (i - 1)
    <3>1. /\ k \in 1..(Len(q) - i) /\ i + k = j + 1
          /\ j \in 1..(Len(front) + Len(back)) /\ ~ (j <= Len(front))
          /\ j - Len(front) = k
      BY <1>1, <1>2, <1>3, <2>2, SMTT(30)
    <3> HIDE DEF k
    <3>2. rest[j] = back[k]
      BY <1>4, <3>1
    <3>3. back[k] = q[i + k]
      BY <1>3, <3>1
    <3> QED BY <2>2, <3>1, <3>2, <3>3
  <2> QED BY <2>1, <2>2
<1>7. ASSUME NEW j \in 1..(Len(q) - 1)
      PROVE  (j < i => j \in DOMAIN q) /\ (j >= i => j + 1 \in DOMAIN q)
  BY <1>1
<1> QED BY <1>4, <1>5, <1>6, <1>7 DEF rest, front, back

\* remove_callback closes the gap; the index and the count follow.
LEMMA RemoveCallbackFacts ==
  ASSUME NEW Versions, NEW s \in NotifierState(Versions), NEW t \in Tokens(s)
  PROVE  LET r == RemoveCallback(s, t)
             i == PositionOf(s, t)
         IN /\ r \in NotifierState(Versions)
            /\ Apart(s, r) /\ r.changes = s.changes
            /\ i \in DOMAIN s.callbacks
            /\ r.index = IF s.index # -1 /\ s.index >= i - 1 THEN s.index - 1 ELSE s.index
            /\ r.count = IF s.count = 0 THEN SizeMax ELSE s.count - 1
            /\ r.haveCallbacks <=> r.callbacks # <<>>
            /\ Len(r.callbacks) = Len(s.callbacks) - 1
            /\ \A j \in DOMAIN r.callbacks :
                 /\ (j < i => j \in DOMAIN s.callbacks /\ r.callbacks[j] = s.callbacks[j])
                 /\ (j >= i => j + 1 \in DOMAIN s.callbacks
                               /\ r.callbacks[j] = s.callbacks[j + 1])
<1> DEFINE r == RemoveCallback(s, t)
           i == PositionOf(s, t)
           rest == SubSeq(s.callbacks, 1, i - 1)
                     \o SubSeq(s.callbacks, i + 1, Len(s.callbacks))
<1>1. i \in DOMAIN s.callbacks
  BY PositionFacts
<1>2. s.callbacks \in Seq(CallbackState(Versions)) /\ s.index \in Int /\ s.count \in Nat
  BY NotifierFields
<1>3. i \in Int
  BY <1>1, <1>2
<1> HIDE DEF i
<1>4. /\ rest \in Seq(CallbackState(Versions)) /\ Len(rest) = Len(s.callbacks) - 1
      /\ \A j \in DOMAIN rest :
           rest[j] = IF j < i THEN s.callbacks[j] ELSE s.callbacks[j + 1]
      /\ \A j \in DOMAIN rest : /\ (j < i => j \in DOMAIN s.callbacks)
                                /\ (j >= i => j + 1 \in DOMAIN s.callbacks)
  BY <1>1, <1>2, WithoutFacts
<1> HIDE DEF rest
<1>5. r = [s EXCEPT !.callbacks = rest,
                    !.index = IF Sending(s) /\ @ >= i - 1 THEN @ - 1 ELSE @,
                    !.count = IF @ = 0 THEN SizeMax ELSE @ - 1,
                    !.haveCallbacks = rest # <<>>]
  BY DEF RemoveCallback, RemoveAt, rest, i
<1>6. (IF Sending(s) /\ s.index >= i - 1 THEN s.index - 1 ELSE s.index) \in Int
      /\ (IF s.count = 0 THEN SizeMax ELSE s.count - 1) \in Nat
  BY <1>2, SizeMaxAssumption
<1> HIDE DEF r
<1>7. r \in NotifierState(Versions)
  BY <1>4, <1>5, <1>6 DEF NotifierState, CallbackState
<1>8. /\ Apart(s, r) /\ r.changes = s.changes
      /\ r.index = IF s.index # -1 /\ s.index >= i - 1 THEN s.index - 1 ELSE s.index
      /\ r.count = IF s.count = 0 THEN SizeMax ELSE s.count - 1
      /\ r.callbacks = rest
      /\ r.haveCallbacks = (rest # <<>>)
  BY <1>5 DEF NotifierState, Apart, Sending, npos
<1>9. ASSUME NEW j \in DOMAIN r.callbacks
      PROVE  /\ (j < i => j \in DOMAIN s.callbacks /\ r.callbacks[j] = s.callbacks[j])
             /\ (j >= i => j + 1 \in DOMAIN s.callbacks
                           /\ r.callbacks[j] = s.callbacks[j + 1])
  <2>1. j \in Int
    BY <1>4, <1>8
  <2> QED BY <1>3, <1>4, <1>8, <2>1
<1>10. Len(r.callbacks) = Len(s.callbacks) - 1 /\ (r.haveCallbacks <=> r.callbacks # <<>>)
  BY <1>4, <1>8
<1> QED BY <1>1, <1>7, <1>8, <1>9, <1>10 DEF r, i

-----------------------------------------------------------------------------
(* Functions that go over all callbacks.                                   *)

LEMMA SuppressFacts ==
  ASSUME NEW Versions, NEW s \in NotifierState(Versions), NEW tokens \in SUBSET Token
  PROVE  LET r == Suppress(s, tokens) IN
         /\ r \in NotifierState(Versions)
         /\ Apart(s, r) /\ r.changes = s.changes
         /\ r.index = s.index /\ r.count = s.count /\ r.haveCallbacks = s.haveCallbacks
         /\ Len(r.callbacks) = Len(s.callbacks)
         /\ DOMAIN r.callbacks = DOMAIN s.callbacks
         /\ \A j \in DOMAIN s.callbacks :
              /\ r.callbacks[j].token = s.callbacks[j].token
              /\ r.callbacks[j].accumulated = s.callbacks[j].accumulated
              /\ r.callbacks[j].deliver = s.callbacks[j].deliver
              /\ r.callbacks[j].initialDelivered = s.callbacks[j].initialDelivered
              /\ r.callbacks[j].skipNext =
                   (s.callbacks[j].skipNext \/ s.callbacks[j].token \in tokens)
<1> DEFINE r == Suppress(s, tokens)
           skip(c) == [c EXCEPT !.skipNext = @ \/ c.token \in tokens]
           all == [j \in DOMAIN s.callbacks |-> skip(s.callbacks[j])]
<1>1. s.callbacks \in Seq(CallbackState(Versions))
  BY NotifierFields
<1>2. \A j \in DOMAIN s.callbacks : s.callbacks[j] \in CallbackState(Versions)
  BY <1>1
<1>3. ASSUME NEW c \in CallbackState(Versions)
      PROVE  /\ skip(c) \in CallbackState(Versions)
             /\ skip(c).token = c.token /\ skip(c).accumulated = c.accumulated
             /\ skip(c).deliver = c.deliver
             /\ skip(c).initialDelivered = c.initialDelivered
             /\ skip(c).skipNext = (c.skipNext \/ c.token \in tokens)
  BY DEF CallbackState
<1>4. r = [s EXCEPT !.callbacks = all]
  BY DEF Suppress, EachCallback
<1> HIDE DEF r, skip
<1>5. all \in [DOMAIN s.callbacks -> CallbackState(Versions)]
  BY <1>2, <1>3
<1>6. /\ all \in Seq(CallbackState(Versions)) /\ Len(all) = Len(s.callbacks)
      /\ DOMAIN all = DOMAIN s.callbacks
  BY <1>1, <1>5, EachIsSeq
<1>7. \A j \in DOMAIN s.callbacks : all[j] = skip(s.callbacks[j])
  OBVIOUS
<1> HIDE DEF all
<1>8. r \in NotifierState(Versions)
  BY <1>4, <1>6 DEF NotifierState, CallbackState
<1>9. /\ Apart(s, r) /\ r.changes = s.changes
      /\ r.index = s.index /\ r.count = s.count /\ r.haveCallbacks = s.haveCallbacks
      /\ r.callbacks = all
  BY <1>4 DEF NotifierState, Apart
<1>10. ASSUME NEW j \in DOMAIN s.callbacks
       PROVE  /\ r.callbacks[j].token = s.callbacks[j].token
              /\ r.callbacks[j].accumulated = s.callbacks[j].accumulated
              /\ r.callbacks[j].deliver = s.callbacks[j].deliver
              /\ r.callbacks[j].initialDelivered = s.callbacks[j].initialDelivered
              /\ r.callbacks[j].skipNext =
                   (s.callbacks[j].skipNext \/ s.callbacks[j].token \in tokens)
  <2>1. r.callbacks[j] = skip(s.callbacks[j]) /\ s.callbacks[j] \in CallbackState(Versions)
    BY <1>2, <1>7, <1>9
  <2> QED BY <1>3, <2>1
<1> QED BY <1>6, <1>8, <1>9, <1>10 DEF r

LEMMA PackageFacts ==
  ASSUME NEW Versions, NEW s \in NotifierState(Versions)
  PROVE  LET r == Package(s) IN
         /\ r \in NotifierState(Versions)
         /\ Apart(s, r) /\ r.changes = s.changes
         /\ r.index = s.index /\ r.count = Len(s.callbacks)
         /\ r.haveCallbacks = s.haveCallbacks
         /\ Len(r.callbacks) = Len(s.callbacks)
         /\ DOMAIN r.callbacks = DOMAIN s.callbacks
         /\ \A j \in DOMAIN s.callbacks :
              /\ r.callbacks[j].token = s.callbacks[j].token
              /\ r.callbacks[j].accumulated = {}
              /\ r.callbacks[j].deliver = s.callbacks[j].accumulated
              /\ r.callbacks[j].initialDelivered = s.callbacks[j].initialDelivered
              /\ r.callbacks[j].skipNext = s.callbacks[j].skipNext
<1> DEFINE r == Package(s)
           take(c) == [c EXCEPT !.deliver = c.accumulated, !.accumulated = {}]
           all == [j \in DOMAIN s.callbacks |-> take(s.callbacks[j])]
<1>1. s.callbacks \in Seq(CallbackState(Versions)) /\ Len(s.callbacks) \in Nat
  BY NotifierFields
<1>2. \A j \in DOMAIN s.callbacks : s.callbacks[j] \in CallbackState(Versions)
  BY <1>1
<1>3. ASSUME NEW c \in CallbackState(Versions)
      PROVE  /\ take(c) \in CallbackState(Versions)
             /\ take(c).token = c.token /\ take(c).accumulated = {}
             /\ take(c).deliver = c.accumulated
             /\ take(c).initialDelivered = c.initialDelivered
             /\ take(c).skipNext = c.skipNext
  BY DEF CallbackState
<1>4. r = [[s EXCEPT !.callbacks = all] EXCEPT !.count = Len(s.callbacks)]
  BY DEF Package, EachCallback
<1> HIDE DEF r, take
<1>5. all \in [DOMAIN s.callbacks -> CallbackState(Versions)]
  BY <1>2, <1>3
<1>6. /\ all \in Seq(CallbackState(Versions)) /\ Len(all) = Len(s.callbacks)
      /\ DOMAIN all = DOMAIN s.callbacks
  BY <1>1, <1>5, EachIsSeq
<1>7. \A j \in DOMAIN s.callbacks : all[j] = take(s.callbacks[j])
  OBVIOUS
<1> HIDE DEF all
<1>8. r \in NotifierState(Versions)
  BY <1>1, <1>4, <1>6 DEF NotifierState, CallbackState
<1>9. /\ Apart(s, r) /\ r.changes = s.changes
      /\ r.index = s.index /\ r.count = Len(s.callbacks)
      /\ r.haveCallbacks = s.haveCallbacks /\ r.callbacks = all
  BY <1>4 DEF NotifierState, Apart
<1>10. ASSUME NEW j \in DOMAIN s.callbacks
       PROVE  /\ r.callbacks[j].token = s.callbacks[j].token
              /\ r.callbacks[j].accumulated = {}
              /\ r.callbacks[j].deliver = s.callbacks[j].accumulated
              /\ r.callbacks[j].initialDelivered = s.callbacks[j].initialDelivered
              /\ r.callbacks[j].skipNext = s.callbacks[j].skipNext
  <2>1. r.callbacks[j] = take(s.callbacks[j]) /\ s.callbacks[j] \in CallbackState(Versions)
    BY <1>2, <1>7, <1>9
  <2> QED BY <1>3, <2>1
<1> QED BY <1>6, <1>8, <1>9, <1>10 DEF r

\* What add_changes leaves with each callback.
Caught(s, r) ==
  /\ Len(r.callbacks) = Len(s.callbacks) /\ DOMAIN r.callbacks = DOMAIN s.callbacks
  /\ \A j \in DOMAIN s.callbacks :
       /\ r.callbacks[j].token = s.callbacks[j].token
       /\ s.callbacks[j].skipNext =>
            r.callbacks[j].accumulated = s.callbacks[j].accumulated
       /\ ~ s.callbacks[j].skipNext =>
            r.callbacks[j].accumulated = s.callbacks[j].accumulated \cup s.changes
       /\ r.callbacks[j].deliver = s.callbacks[j].deliver
       /\ r.callbacks[j].initialDelivered = s.callbacks[j].initialDelivered
       /\ ~ r.callbacks[j].skipNext

\* prepare_handover: a callback that skips loses the changes.
LEMMA PrepareHandoverFacts ==
  ASSUME NEW Versions, NEW s \in NotifierState(Versions), NEW version \in Versions
  PROVE  LET r == PrepareHandover(s, version) IN
         /\ r \in NotifierState(Versions)
         /\ r.place = s.place /\ r.alive = s.alive /\ r.wants = s.wants
         /\ r.rows = s.rows /\ r.version = version /\ r.hasRun /\ r.changes = {}
         /\ r.index = s.index /\ r.count = s.count /\ r.haveCallbacks = s.haveCallbacks
         /\ Caught(s, r)
<1> DEFINE r == PrepareHandover(s, version)
           add(c) == IF c.skipNext THEN [c EXCEPT !.skipNext = FALSE]
                     ELSE [c EXCEPT !.accumulated = @ \cup s.changes]
           all == [j \in DOMAIN s.callbacks |-> add(s.callbacks[j])]
<1>1. s.callbacks \in Seq(CallbackState(Versions)) /\ s.changes \in SUBSET Versions
  BY NotifierFields
<1>2. \A j \in DOMAIN s.callbacks : s.callbacks[j] \in CallbackState(Versions)
  BY <1>1
<1>3. ASSUME NEW c \in CallbackState(Versions)
      PROVE  /\ add(c) \in CallbackState(Versions)
             /\ add(c).token = c.token
             /\ add(c).accumulated = IF c.skipNext THEN c.accumulated
                                     ELSE c.accumulated \cup s.changes
             /\ add(c).deliver = c.deliver
             /\ add(c).initialDelivered = c.initialDelivered
             /\ ~ add(c).skipNext
  <2>1. CASE c.skipNext
    BY <2>1 DEF CallbackState
  <2>2. CASE ~ c.skipNext
    <3>1. c.accumulated \cup s.changes \in SUBSET Versions
      BY <1>1 DEF CallbackState
    <3> QED BY <2>2, <3>1 DEF CallbackState
  <2> QED BY <2>1, <2>2
<1>4. r = [[[s EXCEPT !.callbacks = all] EXCEPT !.changes = {}]
             EXCEPT !.version = version, !.hasRun = TRUE]
  BY DEF PrepareHandover, AddChanges, EachCallback
<1> HIDE DEF r, add
<1>5. all \in [DOMAIN s.callbacks -> CallbackState(Versions)]
  BY <1>2, <1>3
<1>6. /\ all \in Seq(CallbackState(Versions)) /\ Len(all) = Len(s.callbacks)
      /\ DOMAIN all = DOMAIN s.callbacks
  BY <1>1, <1>5, EachIsSeq
<1>7. \A j \in DOMAIN s.callbacks : all[j] = add(s.callbacks[j])
  OBVIOUS
<1> HIDE DEF all
<1>8. r \in NotifierState(Versions)
  BY <1>1, <1>4, <1>6 DEF NotifierState, CallbackState
<1>9. /\ r.place = s.place /\ r.alive = s.alive /\ r.wants = s.wants
      /\ r.rows = s.rows /\ r.version = version /\ r.hasRun /\ r.changes = {}
      /\ r.index = s.index /\ r.count = s.count /\ r.haveCallbacks = s.haveCallbacks
      /\ r.callbacks = all
  BY <1>4 DEF NotifierState
<1>10. ASSUME NEW j \in DOMAIN s.callbacks
       PROVE  /\ r.callbacks[j].token = s.callbacks[j].token
              /\ s.callbacks[j].skipNext =>
                   r.callbacks[j].accumulated = s.callbacks[j].accumulated
              /\ ~ s.callbacks[j].skipNext =>
                   r.callbacks[j].accumulated = s.callbacks[j].accumulated \cup s.changes
              /\ r.callbacks[j].deliver = s.callbacks[j].deliver
              /\ r.callbacks[j].initialDelivered = s.callbacks[j].initialDelivered
              /\ ~ r.callbacks[j].skipNext
  <2>1. r.callbacks[j] = add(s.callbacks[j]) /\ s.callbacks[j] \in CallbackState(Versions)
    BY <1>2, <1>7, <1>9
  <2> QED BY <1>3, <2>1
<1>11. Caught(s, r)
  BY <1>6, <1>9, <1>10 DEF Caught
<1> QED BY <1>8, <1>9, <1>11 DEF r

-----------------------------------------------------------------------------
(* The loop over the callbacks.                                            *)

\* A set of natural numbers that is not empty has a least element.
LEMMA LeastElement ==
  ASSUME NEW T, T \subseteq Nat, T # {}
  PROVE  \E j \in T : \A k \in T : j <= k
<1>1. PICK j \in T : \A k \in T : ~ (<<k, j>> \in OpToRel(<, Nat))
  BY NatLessThanWellFounded, WFMin
<1>2. \A k \in T : (<<k, j>> \in OpToRel(<, Nat)) <=> k < j
  BY DEF OpToRel
<1>3. ASSUME NEW k \in T
      PROVE  j <= k
  <2>1. ~ (k < j)
    BY <1>1, <1>2, Zenon
  <2>2. j \in Nat /\ k \in Nat
    OBVIOUS
  <2> QED BY <2>1, <2>2
<1> QED BY <1>3

\* The next callback to call is the first one that is ready.
LEMMA NextReady ==
  ASSUME NEW Versions, NEW s \in NotifierState(Versions), s.index >= -1, Ready(s) # {}
  PROVE  LET i == CHOOSE j \in Ready(s) : \A k \in Ready(s) : j <= k
         IN /\ i \in Ready(s) /\ \A k \in Ready(s) : i <= k
            /\ i \in Int /\ s.index < i /\ i < s.count /\ i + 1 \in DOMAIN s.callbacks
<1>1. /\ s.index \in Int /\ s.count \in Int
      /\ DOMAIN s.callbacks = 1..Len(s.callbacks) /\ Len(s.callbacks) \in Nat
  BY NotifierFields
<1>2. Ready(s) \subseteq Nat
  BY <1>1 DEF Ready
<1>3. \E j \in Ready(s) : \A k \in Ready(s) : j <= k
  BY <1>2, LeastElement
<1> DEFINE i == CHOOSE j \in Ready(s) : \A k \in Ready(s) : j <= k
<1>4. i \in Ready(s) /\ \A k \in Ready(s) : i <= k
  BY <1>3
<1> HIDE DEF i
<1>5. i \in Int /\ s.index < i /\ i < s.count /\ i + 1 \in DOMAIN s.callbacks
  <2>1. i \in (s.index + 1)..(s.count - 1) /\ i < Len(s.callbacks)
    BY <1>4 DEF Ready
  <2>2. i \in Int /\ s.index < i /\ i < s.count
    BY <1>1, <2>1
  <2> QED BY <1>1, <2>1, <2>2
<1> QED BY <1>4, <1>5 DEF i

LEMMA CallAtFacts ==
  ASSUME NEW Versions, NEW s \in NotifierState(Versions), NEW i \in Int,
         i + 1 \in DOMAIN s.callbacks
  PROVE  LET r == CallAt(s, i) IN
         /\ r \in NotifierState(Versions)
         /\ Apart(s, r) /\ r.changes = s.changes
         /\ r.index = i /\ r.count = s.count /\ r.haveCallbacks = s.haveCallbacks
         /\ Len(r.callbacks) = Len(s.callbacks)
         /\ DOMAIN r.callbacks = DOMAIN s.callbacks
         /\ \A j \in DOMAIN s.callbacks :
              /\ r.callbacks[j].token = s.callbacks[j].token
              /\ r.callbacks[j].accumulated = s.callbacks[j].accumulated
              /\ r.callbacks[j].deliver = IF j = i + 1 THEN {} ELSE s.callbacks[j].deliver
              /\ r.callbacks[j].initialDelivered <=>
                   (j = i + 1 \/ s.callbacks[j].initialDelivered)
              /\ r.callbacks[j].skipNext = s.callbacks[j].skipNext
<1> DEFINE r == CallAt(s, i)
           c == s.callbacks[i + 1]
           called == [c EXCEPT !.initialDelivered = TRUE, !.deliver = {}]
           all == [s.callbacks EXCEPT ![i + 1] = called]
<1>1. s.callbacks \in Seq(CallbackState(Versions))
  BY NotifierFields
<1>2. \A j \in DOMAIN s.callbacks : s.callbacks[j] \in CallbackState(Versions)
  BY <1>1
<1>3. /\ called \in CallbackState(Versions)
      /\ called.token = c.token /\ called.accumulated = c.accumulated
      /\ called.deliver = {} /\ called.initialDelivered = TRUE
      /\ called.skipNext = c.skipNext
  BY <1>2 DEF CallbackState
<1>4. r.callbacks = all
  BY DEF CallAt, NotifierState
<1> HIDE DEF called
<1>5. /\ all \in [DOMAIN s.callbacks -> CallbackState(Versions)]
      /\ \A j \in DOMAIN s.callbacks : all[j] = IF j = i + 1 THEN called ELSE s.callbacks[j]
  BY <1>2, <1>3
<1>6. /\ all \in Seq(CallbackState(Versions)) /\ Len(all) = Len(s.callbacks)
      /\ DOMAIN all = DOMAIN s.callbacks
  BY <1>1, <1>5, EachIsSeq
<1> HIDE DEF all
<1>7. /\ Apart(s, r) /\ r.changes = s.changes
      /\ r.index = i /\ r.count = s.count /\ r.haveCallbacks = s.haveCallbacks
  BY DEF CallAt, NotifierState, Apart
<1> HIDE DEF r
<1>8. r \in NotifierState(Versions)
  BY <1>4, <1>6 DEF NotifierState, CallbackState, r, CallAt
<1>9. ASSUME NEW j \in DOMAIN s.callbacks
      PROVE  /\ r.callbacks[j].token = s.callbacks[j].token
             /\ r.callbacks[j].accumulated = s.callbacks[j].accumulated
             /\ r.callbacks[j].deliver = IF j = i + 1 THEN {} ELSE s.callbacks[j].deliver
             /\ r.callbacks[j].initialDelivered =
                  IF j = i + 1 THEN TRUE ELSE s.callbacks[j].initialDelivered
             /\ r.callbacks[j].skipNext = s.callbacks[j].skipNext
  BY <1>3, <1>4, <1>5
<1> QED BY <1>4, <1>6, <1>7, <1>8, <1>9 DEF r

LEMMA LoopEndsFacts ==
  ASSUME NEW Versions, NEW s \in NotifierState(Versions)
  PROVE  LET r == LoopEnds(s) IN
         /\ r \in NotifierState(Versions)
         /\ Apart(s, r) /\ r.changes = s.changes
         /\ r.index = -1 /\ r.count = s.count
         /\ r.haveCallbacks = s.haveCallbacks /\ r.callbacks = s.callbacks
<1>1. LoopEnds(s) \in NotifierState(Versions)
  BY DEF LoopEnds, NotifierState, npos
<1> QED BY <1>1 DEF LoopEnds, NotifierState, Apart, npos

LEMMA UnregisterFacts ==
  ASSUME NEW Versions, NEW s \in NotifierState(Versions)
  PROVE  LET r == Unregister(s) IN
         /\ r \in NotifierState(Versions)
         /\ r.place = s.place /\ ~ r.alive /\ r.version = s.version /\ r.hasRun = s.hasRun
         /\ r.rows = s.rows /\ r.wants = s.wants /\ r.changes = s.changes
         /\ r.index = s.index /\ r.count = s.count
         /\ r.haveCallbacks = s.haveCallbacks /\ r.callbacks = s.callbacks
<1>1. Unregister(s) \in NotifierState(Versions)
  BY DEF Unregister, NotifierState
<1> QED BY <1>1 DEF Unregister, NotifierState

\* Handing a view over may change what the Results wants.
LEMMA WantsFacts ==
  ASSUME NEW Versions, NEW s \in NotifierState(Versions), NEW b \in BOOLEAN
  PROVE  LET r == [s EXCEPT !.wants = b] IN
         /\ r \in NotifierState(Versions)
         /\ r.place = s.place /\ r.alive = s.alive /\ r.version = s.version
         /\ r.hasRun = s.hasRun /\ r.rows = s.rows /\ r.changes = s.changes
         /\ r.index = s.index /\ r.count = s.count
         /\ r.haveCallbacks = s.haveCallbacks /\ r.callbacks = s.callbacks
<1>1. [s EXCEPT !.wants = b] \in NotifierState(Versions)
  BY DEF NotifierState
<1> QED BY <1>1 DEF NotifierState

LEMMA PlaceFacts ==
  ASSUME NEW Versions, NEW s \in NotifierState(Versions), NEW p \in {"main", "gone"}
  PROVE  LET r == [s EXCEPT !.place = p] IN
         /\ r \in NotifierState(Versions)
         /\ r.place = p /\ r.alive = s.alive /\ r.version = s.version
         /\ r.hasRun = s.hasRun /\ r.rows = s.rows /\ r.wants = s.wants
         /\ r.changes = s.changes /\ r.index = s.index /\ r.count = s.count
         /\ r.haveCallbacks = s.haveCallbacks /\ r.callbacks = s.callbacks
<1>1. [s EXCEPT !.place = p] \in NotifierState(Versions)
  BY DEF NotifierState
<1> QED BY <1>1 DEF NotifierState

-----------------------------------------------------------------------------
(* The worker's part.                                                      *)

\* run computes the changes since the rows it has, if anybody wants them.
LEMMA RunFacts ==
  ASSUME NEW last \in Nat, NEW s \in NotifierState(1..last), NEW version \in 1..last
  PROVE  LET r == Run(s, version) IN
         /\ r \in NotifierState(1..last)
         /\ r.place = s.place /\ r.alive = s.alive /\ r.version = s.version
         /\ r.hasRun = s.hasRun /\ r.wants = s.wants
         /\ r.index = s.index /\ r.count = s.count
         /\ r.haveCallbacks = s.haveCallbacks /\ r.callbacks = s.callbacks
         /\ \/ r.changes = s.changes /\ r.rows = s.rows
            \/ r.changes = {} /\ r.rows = version
            \/ s.hasRun /\ r.changes = (s.rows + 1)..version /\ r.rows = version
<1> DEFINE r == Run(s, version)
<1>1. s.rows \in Nat
  BY NotifierFields
<1>2. CASE ~ NeedToRun(s, version)
  BY <1>2 DEF Run
<1>3. CASE NeedToRun(s, version) /\ s.hasRun /\ s.haveCallbacks
  <2>1. (s.rows + 1)..version \in SUBSET (1..last)
    BY <1>1
  <2>2. r = [s EXCEPT !.rows = version, !.changes = (s.rows + 1)..version]
    BY <1>3 DEF Run
  <2> QED BY <1>3, <2>1, <2>2 DEF NotifierState
<1>4. CASE NeedToRun(s, version) /\ ~ (s.hasRun /\ s.haveCallbacks)
  <2>1. r = [s EXCEPT !.rows = version, !.changes = {}]
    BY <1>4 DEF Run
  <2> QED BY <2>1 DEF NotifierState
<1> QED BY <1>2, <1>3, <1>4

-----------------------------------------------------------------------------
(* The core.                                                               *)

\* m_notifiers, with the dead ones that are still in it.
Listed == {n \in Notifier : notifiers[n].place = "main"}

\* The worker has begun a run and not handed it over.
Underway == worker.pc \in {"skipping", "skipped", "running", "ran"}

\* The first part of a run that skips a version.
Skipping == worker.pc \in {"skipping", "skipped"}

InDelivery(n) == realm.pc = "calling" /\ n \in realm.package \cup {realm.cur}

\* What holds of one notifier by itself.
SoundState(s) ==
  /\ s.alive => s.place \in {"new", "main"}
  /\ s.place \in {"none", "new"} => ~ s.hasRun
  /\ s.place \in {"new", "main"} => s.version >= 1
  /\ s.callbacks # <<>> => s.alive
  /\ s.haveCallbacks <=> s.callbacks # <<>>
  /\ -1 <= s.index /\ s.index < Len(s.callbacks)

Sound == \A n \in Notifier : SoundState(notifiers[n]) /\ notifiers[n].version <= latest

\* A run is about all the notifiers in the list, the old ones at the version
\* of the last run and the new ones not yet run.
RunFits ==
  /\ ~ Underway => \A n \in Listed : notifiers[n].hasRun
  /\ Underway =>
       /\ Listed = worker.old \cup worker.new /\ worker.old \cap worker.new = {}
       /\ \A n \in worker.old : notifiers[n].hasRun
       /\ \A n \in worker.new : ~ notifiers[n].hasRun
       /\ 1 <= worker.target /\ worker.target <= latest
       /\ \A n \in Listed : notifiers[n].version <= worker.target
  /\ Skipping =>
       /\ worker.old # {}
       /\ 1 <= worker.skip /\ worker.skip <= worker.target
       /\ \A n \in worker.old : notifiers[n].version <= worker.skip

\* OneVersion, of the dead as well.
SameVersion ==
  \A m, n \in Listed : notifiers[m].hasRun /\ notifiers[n].hasRun =>
    notifiers[m].version = notifiers[n].version

\* A version to skip is ahead of everybody and of the run that is under way.
SkipFits ==
  skipVersion # 0 =>
    /\ Listed # {} /\ skipVersion <= latest
    /\ \A n \in Listed : notifiers[n].version <= skipVersion
    /\ Underway => worker.target < skipVersion

\* Where the main thread is.
RealmFits ==
  /\ realm.version <= latest
  /\ realm.cur # NoOne => realm.pc = "calling"
  /\ realm.cur \notin realm.package
  /\ realm.pc \in {"refreshing", "beginning"} =>
       /\ realm.version <= realm.target /\ realm.target <= latest
       /\ ForRealm \subseteq realm.package
  /\ realm.pc = "beginning" => realm.writing /\ realm.target = latest
  /\ realm.pc = "refreshing" => ~ realm.writing
  /\ realm.pc = "committing" => realm.writing
  /\ realm.pc = "calling" => 1 <= realm.target /\ realm.target <= realm.version

\* Whose callbacks are being called.
CallingFits ==
  \A n \in Notifier :
    /\ InDelivery(n) => notifiers[n].hasRun /\ realm.target <= notifiers[n].version
    /\ notifiers[n].index # -1 => \/ realm.pc = "calling" /\ n = realm.cur
                                  \/ realm.pc = "beyond"

\* No loop runs past the callbacks there are.
Counted == CountFits /\ realm.pc # "beyond"

CoreInv ==
  /\ TypeOK /\ Sound /\ RunFits /\ SameVersion /\ SkipFits
  /\ RealmFits /\ CallingFits /\ CountFitsIfCounted

-----------------------------------------------------------------------------
LEMMA VersionIsNat == Version \subseteq Nat \ {0} /\ 1 \in Version /\ 0 \notin Version
BY MaxVersionAssumption DEF Version

RealmState ==
  [version : Version, writing : BOOLEAN,
   pc : {"idle", "committing", "refreshing", "beginning", "calling", "beyond"},
   target : 0..MaxVersion, wait : {"first", "asleep", "woken"},
   package : SUBSET Notifier, cur : Notifier \cup {NoOne}]

WorkerState ==
  [pc : {"idle", "skipping", "skipped", "running", "ran", "notifying"},
   target : 0..MaxVersion, skip : 0..MaxVersion,
   old : SUBSET Notifier, new : SUBSET Notifier]

LEMMA RealmFields ==
  ASSUME TypeOK
  PROVE  /\ realm.version \in 1..MaxVersion /\ realm.writing \in BOOLEAN
         /\ realm.pc \in {"idle", "committing", "refreshing", "beginning", "calling", "beyond"}
         /\ realm.target \in 0..MaxVersion /\ realm.package \in SUBSET Notifier
         /\ realm.cur \in Notifier \cup {NoOne}
         /\ latest \in 1..MaxVersion
BY DEF TypeOK, Version

LEMMA WorkerFields ==
  ASSUME TypeOK
  PROVE  /\ worker.pc \in {"idle", "skipping", "skipped", "running", "ran", "notifying"}
         /\ worker.target \in 0..MaxVersion /\ worker.skip \in 0..MaxVersion
         /\ worker.old \in SUBSET Notifier /\ worker.new \in SUBSET Notifier
         /\ skipVersion \in 0..MaxVersion /\ latest \in 1..MaxVersion
BY DEF TypeOK, Version

\* The types of what the proofs take apart most.
LEMMA Fields ==
  ASSUME TypeOK, NEW n \in Notifier
  PROVE  LET s == notifiers[n] IN
         /\ s \in NotifierState(Version)
         /\ s.place \in {"none", "new", "main", "gone"} /\ s.alive \in BOOLEAN
         /\ s.version \in 0..MaxVersion /\ s.hasRun \in BOOLEAN
         /\ s.haveCallbacks \in BOOLEAN
         /\ s.callbacks \in Seq(CallbackState(Version))
         /\ Len(s.callbacks) \in Nat /\ DOMAIN s.callbacks = 1..Len(s.callbacks)
         /\ s.index \in Int /\ s.count \in Nat
         /\ s.changes \in SUBSET Version /\ s.rows \in 0..MaxVersion
<1> DEFINE s == notifiers[n]
<1>1. s \in NotifierState(Version)
  BY DEF TypeOK
<1> HIDE DEF s
<1>2. /\ s.place \in {"none", "new", "main", "gone"} /\ s.alive \in BOOLEAN
      /\ s.version \in Version \cup {0} /\ s.hasRun \in BOOLEAN
      /\ s.haveCallbacks \in BOOLEAN
      /\ s.callbacks \in Seq(CallbackState(Version))
      /\ s.index \in Int /\ s.count \in Nat
      /\ s.changes \in SUBSET Version /\ s.rows \in Version \cup {0}
  BY <1>1, NotifierFields
<1>3. Version \cup {0} = 0..MaxVersion
  BY MaxVersionAssumption DEF Version
<1>4. Len(s.callbacks) \in Nat /\ DOMAIN s.callbacks = 1..Len(s.callbacks)
  BY <1>2, LenProperties
<1> QED BY <1>1, <1>2, <1>3, <1>4 DEF s

LEMMA InitCore == Init => CoreInv
<1> SUFFICES ASSUME Init PROVE CoreInv
  OBVIOUS
<1>1. Unregistered \in NotifierState(Version)
  BY RegisteredFacts, VersionIsNat
<1>2. TypeOK
  <2>1. realm \in RealmState /\ worker \in WorkerState
    BY VersionIsNat, MaxVersionAssumption DEF Init, RealmState, WorkerState
  <2>2. notifiers \in [Notifier -> NotifierState(Version)] /\ latest \in Version
    BY <1>1, VersionIsNat DEF Init
  <2>3. skipVersion \in 0..MaxVersion /\ excuses \in SUBSET Excuse
    BY MaxVersionAssumption DEF Init
  <2>4. pipe \in BOOLEAN /\ signal \in BOOLEAN /\ owed \in BOOLEAN
    BY DEF Init
  <2>5. told \in [Token -> SUBSET Version] /\ hushed \in [Token -> SUBSET Version]
    BY DEF Init
  <2> QED BY <2>1, <2>2, <2>3, <2>4, <2>5 DEF TypeOK, RealmState, WorkerState
<1>3. \A n \in Notifier : notifiers[n] = Unregistered
  BY DEF Init
<1>4. Sound /\ CallingFits
  BY <1>3 DEF Init, Sound, SoundState, Unregistered, npos, CallingFits, InDelivery
<1>5. Listed = {}
  BY <1>3 DEF Listed, Unregistered
<1>6. RunFits /\ SameVersion /\ SkipFits
  BY <1>5 DEF Init, RunFits, SameVersion, SkipFits, Underway, Skipping
<1>7. RealmFits /\ CountFitsIfCounted
  BY DEF Init, RealmFits, CountFits, CountFitsIfCounted
<1> QED BY <1>2, <1>4, <1>6, <1>7 DEF CoreInv

-----------------------------------------------------------------------------
(* Deliveries.  However the main thread comes to read another version, it  *)
(* does one of four things.                                                *)

PackagedFrom(s, r) ==
  /\ Apart(s, r) /\ r.changes = s.changes
  /\ r.index = s.index /\ r.count = Len(s.callbacks)
  /\ r.haveCallbacks = s.haveCallbacks
  /\ Len(r.callbacks) = Len(s.callbacks) /\ DOMAIN r.callbacks = DOMAIN s.callbacks
  /\ \A j \in DOMAIN s.callbacks :
       /\ r.callbacks[j].token = s.callbacks[j].token
       /\ r.callbacks[j].accumulated = {}
       /\ r.callbacks[j].deliver = s.callbacks[j].accumulated
       /\ r.callbacks[j].initialDelivered = s.callbacks[j].initialDelivered
       /\ r.callbacks[j].skipNext = s.callbacks[j].skipNext

Packs(ns) ==
  /\ notifiers' \in [Notifier -> NotifierState(Version)]
  /\ \A n \in Notifier \ ns : notifiers'[n] = notifiers[n]
  /\ \A n \in ns : PackagedFrom(notifiers[n], notifiers'[n])

\* Nothing to tell, or a write is under way.
Silent ==
  /\ realm.pc = "idle" /\ UNCHANGED notifiers
  /\ UNCHANGED realm \/ ReadAndCall(realm.version, {})

\* A package that is older than what is read is dropped.
Drops ==
  /\ realm.pc = "idle" /\ UNCHANGED realm
  /\ \E ns \in SUBSET Notifier :
       Packs(ns) /\ \A n \in ns : notifiers[n].version < realm.version

\* The newest version is read, as nobody who has run has callbacks.
ReadsLatest ==
  /\ \E ns \in SUBSET Notifier : Packs(ns)
  /\ ReadAndCall(latest, {})
  /\ \A n \in Notifier : notifiers[n].hasRun => notifiers[n].callbacks = <<>>

\* Everybody who has run is packaged at one version, which is read.
Delivers(v, ns) ==
  /\ ns # {} /\ ns = HaveRun(Notifier) /\ Packs(ns)
  /\ \A n \in ns : notifiers[n].version = v
  /\ realm.version <= v /\ v <= latest
  /\ realm.pc \in {"refreshing", "beginning"} => realm.target <= v
  /\ ReadAndCall(v, ns)

LEMMA PackagesPack ==
  ASSUME TypeOK, NEW ns \in SUBSET Notifier, Packaged(ns) \/ PackagedAndDelivered(ns)
  PROVE  Packs(ns)
<1>1. \A n \in Notifier : notifiers[n] \in NotifierState(Version)
  BY DEF TypeOK
<1>2. CASE Packaged(ns)
  <2>1. \A n \in Notifier :
          notifiers'[n] = IF n \in ns THEN Package(notifiers[n]) ELSE notifiers[n]
    BY <1>2 DEF Packaged
  <2>2. ASSUME NEW n \in ns
        PROVE  /\ notifiers'[n] \in NotifierState(Version)
               /\ PackagedFrom(notifiers[n], notifiers'[n])
    <3>1. notifiers'[n] = Package(notifiers[n]) /\ notifiers[n] \in NotifierState(Version)
      BY <1>1, <2>1
    <3> QED BY <3>1, PackageFacts DEF PackagedFrom, Apart
  <2>3. notifiers' \in [Notifier -> NotifierState(Version)]
    BY <1>1, <1>2, <2>1, <2>2 DEF Packaged
  <2> QED BY <2>1, <2>2, <2>3 DEF Packs
<1>3. CASE PackagedAndDelivered(ns)
  <2>1. PICK wants \in [ns -> BOOLEAN] :
          notifiers' = [n \in Notifier |->
                          IF n \in ns THEN [Package(notifiers[n]) EXCEPT !.wants = wants[n]]
                          ELSE notifiers[n]]
    BY <1>3 DEF PackagedAndDelivered
  <2>2. ASSUME NEW n \in ns
        PROVE  /\ notifiers'[n] \in NotifierState(Version)
               /\ PackagedFrom(notifiers[n], notifiers'[n])
    <3> DEFINE p == Package(notifiers[n])
    <3>1. notifiers'[n] = [p EXCEPT !.wants = wants[n]] /\ wants[n] \in BOOLEAN
      BY <2>1
    <3>2. p \in NotifierState(Version) /\ PackagedFrom(notifiers[n], p)
      BY <1>1, PackageFacts DEF PackagedFrom, Apart
    <3> HIDE DEF p
    <3> QED BY <3>1, <3>2, WantsFacts DEF PackagedFrom, Apart
  <2>3. \A n \in Notifier \ ns : notifiers'[n] = notifiers[n]
    BY <2>1
  <2>4. notifiers' \in [Notifier -> NotifierState(Version)]
    BY <1>1, <2>1, <2>2, <2>3
  <2> QED BY <2>2, <2>3, <2>4 DEF Packs
<1> QED BY <1>2, <1>3

LEMMA PackageVersionIs ==
  ASSUME NEW ns, NEW v, ns # {}, \A n \in ns : notifiers[n].version = v
  PROVE  PackageVersion(ns) = v
BY DEF PackageVersion

\* Alive notifiers that have run are in the list, at one version.
LEMMA HaveRunFacts ==
  ASSUME CoreInv
  PROVE  /\ HaveRun(Notifier) = HaveRun(ForRealm)
         /\ HaveRun(ForRealm) \subseteq Listed
         /\ \A n \in Notifier : notifiers[n].callbacks # <<>> => n \in ForRealm
         /\ \A n \in Notifier : notifiers[n].hasRun /\ notifiers[n].callbacks # <<>>
                                  => n \in HaveRun(ForRealm)
         /\ HaveRun(ForRealm) # {} =>
              \E v \in 1..latest : \A n \in HaveRun(ForRealm) : notifiers[n].version = v
<1>1. \A n \in Notifier : SoundState(notifiers[n]) /\ notifiers[n].version <= latest
  BY DEF CoreInv, Sound
<1>2. /\ HaveRun(Notifier) = HaveRun(ForRealm)
      /\ HaveRun(ForRealm) \subseteq Listed
      /\ \A n \in Notifier : notifiers[n].callbacks # <<>> => n \in ForRealm
      /\ \A n \in Notifier : notifiers[n].hasRun /\ notifiers[n].callbacks # <<>>
                               => n \in HaveRun(ForRealm)
  BY <1>1 DEF HaveRun, ForRealm, Listed, SoundState
<1>3. ASSUME HaveRun(ForRealm) # {}
      PROVE  \E v \in 1..latest : \A n \in HaveRun(ForRealm) : notifiers[n].version = v
  <2>1. PICK m \in HaveRun(ForRealm) : TRUE
    BY <1>3
  <2>2. m \in Notifier /\ m \in Listed
    BY <1>2, <2>1 DEF Listed
  <2>3. notifiers[m].version \in Int /\ latest \in Int
    BY <2>2, Fields, RealmFields DEF CoreInv
  <2>4. notifiers[m].version \in 1..latest
    BY <1>1, <2>2, <2>3 DEF SoundState, Listed
  <2>5. \A n \in HaveRun(ForRealm) : notifiers[n].version = notifiers[m].version
    BY <1>2, <2>1 DEF CoreInv, SameVersion, HaveRun
  <2> QED BY <2>4, <2>5
<1> QED BY <1>2, <1>3

LEMMA DeliveryKinds ==
  ASSUME CoreInv, Notify \/ SendPackage \/ (Refresh /\ ForRealm = {})
  PROVE  /\ realm.pc \in {"idle", "refreshing", "beginning"}
         /\ realm.writing => realm.pc \in {"idle", "beginning"}
         /\ \/ Silent \/ Drops \/ ReadsLatest
            \/ \E v \in Version, ns \in SUBSET Notifier : Delivers(v, ns)
<1> DEFINE run == HaveRun(ForRealm)
<1>0. TypeOK
  BY DEF CoreInv
<1>1. /\ run = HaveRun(Notifier) /\ run \in SUBSET Notifier
      /\ \A n \in Notifier : notifiers[n].callbacks # <<>> => n \in ForRealm
      /\ \A n \in Notifier : notifiers[n].hasRun /\ notifiers[n].callbacks # <<>> => n \in run
  BY HaveRunFacts DEF HaveRun, ForRealm
<1>2. run # {} => \E v \in 1..latest : \A n \in run : notifiers[n].version = v
  BY HaveRunFacts
<1>3. 1..latest \subseteq Version /\ latest \in Version /\ realm.version <= latest
      /\ latest \in Int /\ realm.version \in Int
  <2>1. realm.version <= latest
    BY DEF CoreInv, RealmFits
  <2> QED BY <1>0, <2>1, RealmFields, MaxVersionAssumption DEF Version
<1> HIDE DEF run
<1>4. CASE Notify
  <2>1. realm.pc = "idle"
    BY <1>4 DEF Notify
  <2>2. CASE NotifyInWrite
    BY <2>1, <2>2 DEF NotifyInWrite, Silent
  <2>3. CASE ProcessAvailable
    <3> DEFINE ns == {n \in run : notifiers[n].version = realm.version}
    <3>1. PackagedAndDelivered(ns) /\ ReadAndCall(realm.version, ns) /\ latest = realm.version
      BY <2>3 DEF ProcessAvailable, run
    <3>2. CASE ns = {}
      <4>1. Packs({}) /\ ReadAndCall(realm.version, {})
        BY <1>0, <3>1, <3>2, PackagesPack
      <4>2. UNCHANGED notifiers
        BY <1>0, <4>1 DEF Packs, TypeOK
      <4> QED BY <2>1, <4>1, <4>2 DEF Silent
    <3>3. CASE ns # {}
      <4>1. PICK v \in 1..latest : \A n \in run : notifiers[n].version = v
        BY <1>2, <3>3
      <4>2. v = realm.version /\ ns = run
        BY <3>3, <4>1
      <4>3. Packs(ns)
        BY <1>0, <1>1, <3>1, PackagesPack
      <4>4. Delivers(v, ns)
        BY <1>1, <1>3, <2>1, <3>1, <3>3, <4>1, <4>2, <4>3 DEF Delivers
      <4> QED BY <1>1, <1>3, <2>1, <4>2, <4>4
    <3> QED BY <3>2, <3>3
  <2>4. CASE AdvanceToReady
    <3>1. CASE run = {} /\ ReadAndCall(latest, {}) /\ UNCHANGED notifiers
      <4>1. Packs({})
        BY <1>0, <3>1 DEF Packs, TypeOK
      <4>2. \A n \in Notifier : notifiers[n].hasRun => notifiers[n].callbacks = <<>>
        BY <1>1, <3>1
      <4> QED BY <2>1, <3>1, <4>1, <4>2 DEF ReadsLatest
    <3>2. CASE run # {} /\ PackageVersion(run) < realm.version /\ Packaged(run) /\ UNCHANGED realm
      <4>1. PICK v \in 1..latest : \A n \in run : notifiers[n].version = v
        BY <1>2, <3>2
      <4>2. v < realm.version
        BY <3>2, <4>1, PackageVersionIs
      <4>3. Packs(run)
        BY <1>0, <1>1, <3>2, PackagesPack
      <4> QED BY <1>1, <2>1, <3>2, <4>1, <4>2, <4>3 DEF Drops
    <3>3. CASE run # {} /\ PackageVersion(run) >= realm.version
               /\ PackagedAndDelivered(run) /\ ReadAndCall(PackageVersion(run), run)
      <4>1. PICK v \in 1..latest : \A n \in run : notifiers[n].version = v
        BY <1>2, <3>3
      <4>2. v = PackageVersion(run) /\ realm.version <= v
        BY <1>3, <3>3, <4>1, PackageVersionIs
      <4>3. Packs(run)
        BY <1>0, <1>1, <3>3, PackagesPack
      <4>4. Delivers(v, run)
        BY <1>1, <1>3, <2>1, <3>3, <4>1, <4>2, <4>3 DEF Delivers
      <4> QED BY <1>1, <1>3, <2>1, <4>4
    <3> QED BY <2>4, <3>1, <3>2, <3>3 DEF AdvanceToReady, run
  <2> QED BY <1>4, <2>2, <2>3, <2>4 DEF Notify
<1>5. CASE SendPackage
  <2> DEFINE ns == HaveRun(realm.package)
  <2>1. /\ realm.pc \in {"refreshing", "beginning"} /\ Awaited
        /\ realm.writing => realm.pc = "beginning"
    BY <1>5 DEF SendPackage, Waiting, CoreInv, RealmFits
  <2>2. ns = run
    <3>1. ForRealm \subseteq realm.package /\ realm.package \subseteq Notifier
      BY <1>0, <2>1, RealmFields DEF CoreInv, RealmFits
    <3> QED BY <1>1, <3>1 DEF HaveRun, run
  <2>3. realm.version <= realm.target /\ realm.target <= latest /\ realm.target \in Int
    BY <1>0, <2>1, RealmFields DEF CoreInv, RealmFits
  <2> HIDE DEF ns
  <2>4. CASE /\ ns = {} \/ PackageVersion(ns) < realm.target
             /\ Packaged(ns) /\ ReadAndCall(latest, {})
    <3>1. Packs(ns)
      BY <1>0, <1>1, <2>2, <2>4, PackagesPack
    <3>2. ASSUME NEW n \in Notifier, notifiers[n].hasRun, notifiers[n].callbacks # <<>>
          PROVE  FALSE
      <4>1. n \in ns /\ ns # {} /\ n \in realm.package
        BY <1>1, <2>2, <3>2 DEF ns, HaveRun
      <4>2. PICK v \in 1..latest : \A m \in ns : notifiers[m].version = v
        BY <1>2, <2>2, <4>1
      <4>3. v < realm.target
        BY <2>4, <4>1, <4>2, PackageVersionIs
      <4>4. notifiers[n].haveCallbacks
        BY <3>2 DEF CoreInv, Sound, SoundState
      <4>5. notifiers[n].version >= realm.target
        BY <2>1, <4>1, <4>4 DEF Awaited, ReadyFor
      <4> QED BY <1>3, <2>3, <4>1, <4>2, <4>3, <4>5
    <3> QED BY <1>1, <2>1, <2>2, <2>4, <3>1, <3>2 DEF ReadsLatest
  <2>5. CASE /\ ns # {} /\ ~ (PackageVersion(ns) < realm.target)
             /\ Packaged(ns) \/ PackagedAndDelivered(ns)
             /\ ReadAndCall(PackageVersion(ns), ns)
    <3>1. PICK v \in 1..latest : \A n \in ns : notifiers[n].version = v
      BY <1>2, <2>2, <2>5
    <3>2. v = PackageVersion(ns) /\ realm.target <= v /\ realm.version <= v
      <4>1. v = PackageVersion(ns)
        BY <2>5, <3>1, PackageVersionIs
      <4>2. v \in Int
        BY <1>3, <3>1
      <4> QED BY <1>3, <2>3, <2>5, <4>1, <4>2
    <3>3. Packs(ns)
      BY <1>0, <1>1, <2>2, <2>5, PackagesPack
    <3>4. Delivers(v, ns)
      BY <1>1, <1>3, <2>2, <2>5, <3>1, <3>2, <3>3 DEF Delivers
    <3> QED BY <1>1, <1>3, <2>1, <2>2, <3>4
  <2> QED BY <1>5, <2>4, <2>5 DEF SendPackage, ns
<1>6. CASE Refresh /\ ForRealm = {}
  <2>1. realm.pc = "idle" /\ ReadAndCall(latest, {}) /\ UNCHANGED notifiers
    BY <1>6 DEF Refresh
  <2>2. Packs({})
    BY <1>0, <2>1 DEF Packs, TypeOK
  <2>3. \A n \in Notifier : notifiers[n].hasRun => notifiers[n].callbacks = <<>>
    BY <1>1, <1>6
  <2> QED BY <2>1, <2>2, <2>3 DEF ReadsLatest
<1> QED BY <1>4, <1>5, <1>6

LEMMA ReadAndCallFacts ==
  ASSUME TypeOK, NEW v \in Version, NEW ns \in SUBSET Notifier, ReadAndCall(v, ns)
  PROVE  /\ realm' \in RealmState
         /\ realm'.version = v /\ realm'.writing = realm.writing
         /\ realm'.package = ns /\ realm'.cur = realm.cur
         /\ realm'.target = IF ns = {} THEN 0 ELSE v
         /\ realm'.pc = IF ns = {} THEN "idle" ELSE "calling"
<1>1. realm \in RealmState
  BY DEF TypeOK, RealmState
<1>2. (IF ns = {} THEN 0 ELSE v) \in 0..MaxVersion
  BY MaxVersionAssumption DEF Version
<1> QED BY <1>1, <1>2 DEF ReadAndCall, RealmState

\* A step that moves no notifier in or out of the list or to another version.
Steady ==
  /\ Listed' = Listed
  /\ \A n \in Listed : /\ notifiers'[n].version = notifiers[n].version
                       /\ notifiers'[n].hasRun = notifiers[n].hasRun

LEMMA SteadyKeeps ==
  ASSUME CoreInv, Steady, UNCHANGED <<worker, skipVersion>>,
         latest' \in Int, latest <= latest'
  PROVE  RunFits' /\ SameVersion' /\ SkipFits'
<1>1. Listed' = Listed
  BY DEF Steady
<1>2. \A n \in Listed : /\ notifiers'[n].version = notifiers[n].version
                        /\ notifiers'[n].hasRun = notifiers[n].hasRun
  BY DEF Steady
<1>3. latest \in Int /\ worker.target \in Int /\ skipVersion \in Int
  BY WorkerFields DEF CoreInv
<1>4. RunFits /\ SameVersion /\ SkipFits
  BY DEF CoreInv
<1>5. Underway' = Underway /\ Skipping' = Skipping
  BY DEF Underway, Skipping
<1>6. Underway => worker.old \subseteq Listed /\ worker.new \subseteq Listed
  BY <1>4 DEF RunFits
<1>7. RunFits'
  <2>1. Skipping => Underway
    BY DEF Skipping, Underway
  <2> QED BY <1>1, <1>2, <1>3, <1>4, <1>5, <1>6, <2>1 DEF RunFits
<1>8. SameVersion'
  BY <1>1, <1>2, <1>4 DEF SameVersion
<1>9. SkipFits'
  BY <1>1, <1>2, <1>3, <1>4, <1>5 DEF SkipFits
<1> QED BY <1>7, <1>8, <1>9

LEMMA PacksSteady ==
  ASSUME CoreInv, NEW ns \in SUBSET Notifier, Packs(ns)
  PROVE  /\ Steady /\ (latest' = latest => Sound')
         /\ \A n \in Notifier :
              /\ notifiers'[n].index = notifiers[n].index
              /\ notifiers'[n].alive = notifiers[n].alive
              /\ notifiers'[n].version = notifiers[n].version
              /\ notifiers'[n].hasRun = notifiers[n].hasRun
              /\ Len(notifiers'[n].callbacks) = Len(notifiers[n].callbacks)
         /\ ForRealm' = ForRealm
<1>1. \A n \in Notifier : /\ notifiers'[n].index = notifiers[n].index
                          /\ notifiers'[n].alive = notifiers[n].alive
                          /\ notifiers'[n].place = notifiers[n].place
                          /\ notifiers'[n].version = notifiers[n].version
                          /\ notifiers'[n].hasRun = notifiers[n].hasRun
                          /\ notifiers'[n].haveCallbacks = notifiers[n].haveCallbacks
                          /\ Len(notifiers'[n].callbacks) = Len(notifiers[n].callbacks)
  BY DEF Packs, PackagedFrom, Apart
<1>2. \A n \in Notifier : notifiers'[n].callbacks = <<>> <=> notifiers[n].callbacks = <<>>
  <2> SUFFICES ASSUME NEW n \in Notifier
               PROVE  notifiers'[n].callbacks = <<>> <=> notifiers[n].callbacks = <<>>
    OBVIOUS
  <2>1. notifiers[n].callbacks \in Seq(CallbackState(Version))
    BY Fields DEF CoreInv
  <2>2. notifiers'[n].callbacks \in Seq(CallbackState(Version))
    BY NotifierFields DEF Packs
  <2> QED BY <1>1, <2>1, <2>2, EmptySeq
<1>3. Steady
  BY <1>1 DEF Steady, Listed
<1>4. latest' = latest => Sound'
  BY <1>1, <1>2 DEF CoreInv, Sound, SoundState
<1>5. ForRealm' = ForRealm
  BY <1>1 DEF ForRealm
<1> QED BY <1>1, <1>3, <1>4, <1>5

\* The notifiers and the main thread after a delivery.
LEMMA DeliveryCore ==
  ASSUME CoreInv, realm.pc \in {"idle", "refreshing", "beginning"},
         UNCHANGED <<latest, worker, skipVersion>>,
         \/ Silent \/ Drops \/ ReadsLatest
         \/ \E v \in Version, ns \in SUBSET Notifier : Delivers(v, ns)
  PROVE  /\ realm' \in RealmState /\ notifiers' \in [Notifier -> NotifierState(Version)]
         /\ Sound' /\ RunFits' /\ SameVersion' /\ SkipFits'
         /\ RealmFits' /\ CallingFits' /\ Counted'
<1>0. /\ TypeOK /\ Sound /\ RunFits /\ SameVersion /\ SkipFits
      /\ RealmFits /\ CallingFits
  BY DEF CoreInv
<1>1. /\ realm.cur = NoOne /\ NoOne \notin Notifier
      /\ latest \in Int /\ realm.version \in Int /\ realm.version <= latest
      /\ latest \in Version /\ realm.version \in Version
  BY <1>0, RealmFields, NoOneAssumption, MaxVersionAssumption DEF RealmFits, Version
<1>2. ASSUME NEW v \in Version, NEW ns \in SUBSET Notifier, ReadAndCall(v, ns),
             ns = {} \/ realm.version <= v, v <= latest
      PROVE  realm' \in RealmState /\ RealmFits'
  <2>1. /\ realm' \in RealmState
        /\ realm'.version = v /\ realm'.writing = realm.writing
        /\ realm'.package = ns /\ realm'.cur = realm.cur
        /\ realm'.target = IF ns = {} THEN 0 ELSE v
        /\ realm'.pc = IF ns = {} THEN "idle" ELSE "calling"
    BY <1>0, <1>2, ReadAndCallFacts
  <2>2. v >= 1
    BY MaxVersionAssumption DEF Version
  <2> QED BY <1>1, <1>2, <2>1, <2>2 DEF RealmFits
\* No loop over callbacks was running, and a package is counted.
<1>3. ASSUME NEW ns \in SUBSET Notifier, Packs(ns), realm'.cur = NoOne,
             realm'.package = {} \/ realm'.pc # "calling", realm'.pc # "beyond"
      PROVE  CallingFits' /\ Counted'
  <2>1. \A n \in Notifier : notifiers'[n].index = notifiers[n].index
    BY <1>3, PacksSteady
  <2>2. \A n \in Notifier : notifiers[n].index = -1
    BY <1>0, <1>1 DEF CallingFits
  <2> QED BY <1>1, <1>3, <2>1, <2>2 DEF CallingFits, Counted, CountFits, InDelivery
<1>4. CASE Silent
  <2>1. Packs({}) /\ UNCHANGED notifiers
    BY <1>0, <1>4 DEF Silent, Packs, TypeOK
  <2>2. realm' \in RealmState /\ RealmFits' /\ realm'.cur = NoOne
          /\ realm'.pc = "idle"
    <3>1. CASE UNCHANGED realm
      <4>1. ForRealm' = ForRealm
        BY <2>1 DEF ForRealm
      <4> QED BY <1>0, <1>1, <1>4, <3>1, <4>1 DEF Silent, RealmFits, TypeOK, RealmState
    <3>2. CASE ReadAndCall(realm.version, {})
      BY <1>0, <1>1, <1>2, <3>2, ReadAndCallFacts
    <3> QED BY <1>4, <3>1, <3>2 DEF Silent
  <2>3. Steady /\ Sound'
    BY <2>1, PacksSteady
  <2>4. CallingFits' /\ Counted'
    BY <1>3, <2>1, <2>2
  <2>5. RunFits' /\ SameVersion' /\ SkipFits'
    BY <1>1, <2>3, SteadyKeeps
  <2> QED BY <2>1, <2>2, <2>3, <2>4, <2>5 DEF Packs
<1>5. CASE Drops
  <2>1. PICK ns \in SUBSET Notifier : Packs(ns)
    BY <1>5 DEF Drops
  <2>2. UNCHANGED realm /\ realm.pc = "idle"
    BY <1>5 DEF Drops
  <2>3. Steady /\ Sound' /\ ForRealm' = ForRealm
    BY <2>1, PacksSteady
  <2>4. realm' \in RealmState /\ RealmFits'
    BY <1>0, <2>2, <2>3 DEF RealmFits, TypeOK, RealmState
  <2> QED BY <1>1, <1>3, <2>1, <2>2, <2>3, <2>4, SteadyKeeps DEF Packs
<1>6. CASE ReadsLatest
  <2>1. PICK ns \in SUBSET Notifier : Packs(ns)
    BY <1>6 DEF ReadsLatest
  <2>2. ReadAndCall(latest, {})
    BY <1>6 DEF ReadsLatest
  <2>3. Steady /\ Sound' /\ ForRealm' = ForRealm
    BY <2>1, PacksSteady
  <2>4. realm' \in RealmState /\ RealmFits' /\ realm'.cur = NoOne /\ realm'.package = {}
        /\ realm'.pc = "idle"
    BY <1>0, <1>1, <1>2, <2>2, ReadAndCallFacts
  <2> QED BY <1>1, <1>3, <2>1, <2>3, <2>4, SteadyKeeps DEF Packs
<1>7. CASE \E v \in Version, ns \in SUBSET Notifier : Delivers(v, ns)
  <2>1. PICK v \in Version, ns \in SUBSET Notifier : Delivers(v, ns)
    BY <1>7
  <2>2. Packs(ns) /\ ReadAndCall(v, ns) /\ realm.version <= v /\ v <= latest /\ ns # {}
    BY <2>1 DEF Delivers
  <2>3. /\ realm' \in RealmState /\ RealmFits' /\ realm'.cur = NoOne
        /\ realm'.package = ns /\ realm'.pc = "calling" /\ realm'.target = v
    BY <1>0, <1>1, <1>2, <2>2, ReadAndCallFacts
  <2>4. /\ Steady /\ Sound'
        /\ \A n \in Notifier : /\ notifiers'[n].index = notifiers[n].index
                              /\ notifiers'[n].version = notifiers[n].version
                              /\ notifiers'[n].hasRun = notifiers[n].hasRun
    BY <2>2, PacksSteady
  <2>5. CallingFits'
    <3>1. \A n \in Notifier : notifiers[n].index = -1
      BY <1>0, <1>1 DEF CallingFits
    <3>2. \A n \in ns : notifiers[n].hasRun /\ notifiers[n].version = v
      BY <2>1 DEF Delivers, HaveRun
    <3>3. \A n \in ns : notifiers'[n].hasRun /\ notifiers'[n].version = v
      BY <2>4, <3>2
    <3> QED BY <1>1, <2>3, <2>4, <3>1, <3>3, MaxVersionAssumption
            DEF CallingFits, InDelivery, Version
  <2>6. Counted'
    <3> SUFFICES ASSUME NEW n \in Notifier, n \in ns
                 PROVE  notifiers'[n].count <= Len(notifiers'[n].callbacks)
      BY <1>1, <2>3 DEF Counted, CountFits
    <3>1. PackagedFrom(notifiers[n], notifiers'[n])
      BY <2>2 DEF Packs
    <3>2. Len(notifiers[n].callbacks) \in Nat
      BY <1>0, Fields
    <3> QED BY <3>1, <3>2 DEF PackagedFrom
  <2> QED BY <1>1, <2>2, <2>3, <2>4, <2>5, <2>6, SteadyKeeps DEF Packs
<1> QED BY <1>4, <1>5, <1>6, <1>7

-----------------------------------------------------------------------------
(* Each action keeps the core.                                             *)

\* TypeOK without the pipe, the signals and the history.
Parts ==
  /\ latest \in Version /\ realm \in RealmState
  /\ notifiers \in [Notifier -> NotifierState(Version)]
  /\ worker \in WorkerState /\ skipVersion \in 0..MaxVersion

HistoryOK ==
  /\ pipe \in BOOLEAN /\ signal \in BOOLEAN /\ owed \in BOOLEAN
  /\ told \in [Token -> SUBSET Version]
  /\ hushed \in [Token -> SUBSET Version]
  /\ excuses \in SUBSET Excuse

Core ==
  /\ Parts /\ Sound /\ RunFits /\ SameVersion /\ SkipFits
  /\ RealmFits /\ CallingFits

\* A step runs past the callbacks only if it removes one that was not counted.
CountKept == "uncounted" \notin excuses' /\ Counted => Counted'

LEMMA CoreParts == CoreInv <=> Core /\ HistoryOK /\ CountFitsIfCounted
BY DEF CoreInv, Core, Parts, HistoryOK, TypeOK, RealmState, WorkerState

\* What most lemmas need to know of where they start.
LEMMA CoreFacts ==
  ASSUME CoreInv
  PROVE  /\ Parts /\ Sound /\ RunFits /\ SameVersion /\ SkipFits
         /\ RealmFits /\ CallingFits /\ CountFitsIfCounted /\ NoOne \notin Notifier
         /\ latest \in 1..MaxVersion /\ realm.version \in 1..MaxVersion
         /\ realm.target \in 0..MaxVersion /\ realm.writing \in BOOLEAN
         /\ realm.package \subseteq Notifier /\ realm.cur \in Notifier \cup {NoOne}
         /\ worker.target \in 0..MaxVersion /\ worker.skip \in 0..MaxVersion
         /\ worker.old \subseteq Notifier /\ worker.new \subseteq Notifier
         /\ skipVersion \in 0..MaxVersion /\ MaxVersion \in Nat /\ MaxVersion >= 1
BY CoreParts, RealmFields, WorkerFields, NoOneAssumption, MaxVersionAssumption
   DEF CoreInv, Core

\* One notifier's callbacks change, or it dies.
LEMMA OneChanges ==
  ASSUME CoreInv, NEW n \in Notifier, NEW r \in NotifierState(Version),
         notifiers' = [notifiers EXCEPT ![n] = r],
         r.place = notifiers[n].place, r.version = notifiers[n].version,
         r.hasRun = notifiers[n].hasRun, r.alive => notifiers[n].alive,
         SoundState(r), r.index # -1 => notifiers[n].index # -1,
         "uncounted" \notin excuses' /\ Counted /\ InDelivery(n) =>
           r.count <= Len(r.callbacks),
         UNCHANGED <<latest, realm, worker, skipVersion>>
  PROVE  Core' /\ CountKept
<1>1. /\ notifiers'[n] = r
      /\ \A m \in Notifier \ {n} : notifiers'[m] = notifiers[m]
      /\ notifiers' \in [Notifier -> NotifierState(Version)]
  BY CoreFacts DEF Parts
<1>2. Steady
  BY <1>1 DEF Steady, Listed
<1>3. Sound'
  BY <1>1, CoreFacts DEF Sound, SoundState
<1>4. RunFits' /\ SameVersion' /\ SkipFits'
  BY <1>2, SteadyKeeps, CoreFacts
<1>5. ForRealm' \subseteq ForRealm
  BY <1>1 DEF ForRealm
<1>6. RealmFits'
  BY <1>5, CoreFacts DEF RealmFits
<1>7. CallingFits' /\ CountKept
  BY <1>1, CoreFacts DEF CallingFits, CountFits, Counted, CountKept, InDelivery
<1> QED BY <1>1, <1>3, <1>4, <1>6, <1>7, CoreFacts DEF Core, Parts

\* Nothing happens to the notifiers.
LEMMA NobodyChanges ==
  ASSUME CoreInv, UNCHANGED <<notifiers, worker, skipVersion>>,
         latest' \in Version, latest <= latest'
  PROVE  /\ Sound' /\ RunFits' /\ SameVersion' /\ SkipFits'
         /\ Parts' <=> realm' \in RealmState
         /\ ForRealm' = ForRealm
<1>1. latest' \in Int /\ latest \in Int
  BY CoreFacts DEF Version
<1>2. Steady
  BY DEF Steady, Listed
<1>3. RunFits' /\ SameVersion' /\ SkipFits'
  BY <1>1, <1>2, SteadyKeeps
<1>4. Sound'
  <2>1. \A n \in Notifier : notifiers[n].version \in Int
    BY Fields DEF CoreInv
  <2> QED BY <1>1, <2>1, CoreFacts DEF Sound, SoundState
<1> QED BY <1>3, <1>4, CoreFacts DEF Parts, ForRealm

LEMMA RegisterKeeps ==
  ASSUME CoreInv, NEW n \in Notifier, Register(n)
  PROVE  Core' /\ CountKept
<1> DEFINE r == Registered(realm.version)
<1>1. realm.version \in Version
  BY CoreFacts DEF Version
<1>2. /\ r \in NotifierState(Version)
      /\ r.place = "new" /\ r.alive /\ r.version = realm.version
      /\ ~ r.hasRun /\ ~ r.haveCallbacks
      /\ r.callbacks = <<>> /\ r.index = -1
  BY <1>1, RegisteredFacts
<1>3. /\ notifiers' = [notifiers EXCEPT ![n] = r] /\ notifiers[n].place = "none"
      /\ UNCHANGED <<latest, realm, worker, skipVersion>> /\ UserCode
  BY DEF Register
<1> HIDE DEF r
<1>4. /\ notifiers'[n] = r
      /\ \A m \in Notifier \ {n} : notifiers'[m] = notifiers[m]
      /\ notifiers' \in [Notifier -> NotifierState(Version)]
  BY <1>2, <1>3, CoreFacts DEF Parts
<1>5. Steady
  BY <1>2, <1>3, <1>4 DEF Steady, Listed
<1>6. Sound'
  <2>1. SoundState(r)
    BY <1>2, CoreFacts DEF SoundState
  <2> QED BY <1>2, <1>3, <1>4, <2>1, CoreFacts DEF Sound, SoundState, RealmFits
<1>7. RunFits' /\ SameVersion' /\ SkipFits'
  BY <1>3, <1>5, SteadyKeeps, CoreFacts
<1>8. RealmFits'
  BY <1>3, CoreFacts DEF RealmFits, UserCode, InCallback
<1>9. CallingFits' /\ CountKept
  <2>1. ~ notifiers[n].hasRun
    BY <1>3, CoreFacts DEF Sound, SoundState
  <2>2. ~ InDelivery(n)
    BY <2>1, CoreFacts DEF CallingFits
  <2> QED BY <1>2, <1>3, <1>4, <2>2, CoreFacts DEF CallingFits, CountFits, Counted, CountKept, InDelivery
<1> QED BY <1>3, <1>4, <1>6, <1>7, <1>8, <1>9, CoreFacts DEF Core, Parts

LEMMA AddKeeps ==
  ASSUME CoreInv, NEW n \in Notifier, NEW t \in Token, Add(n, t)
  PROVE  Core' /\ CountKept
<1> DEFINE s == notifiers[n]
           r == AddCallback(s, t)
<1>1. /\ s \in NotifierState(Version) /\ Len(s.callbacks) \in Nat
      /\ s.index \in Int /\ s.count \in Int /\ SoundState(s)
      /\ s.callbacks \in Seq(CallbackState(Version)) /\ s.haveCallbacks \in BOOLEAN
  BY Fields, CoreFacts DEF CoreInv, Sound
<1>2. /\ notifiers' = [notifiers EXCEPT ![n] = r] /\ s.alive
      /\ UNCHANGED <<latest, realm, worker, skipVersion>>
  BY DEF Add, ForRealm
<1>3. Counted /\ InDelivery(n) => s.count <= Len(s.callbacks)
  BY DEF Counted, CountFits, InDelivery
<1> HIDE DEF s
<1>4. /\ r \in NotifierState(Version) /\ Apart(s, r)
      /\ r.index = s.index /\ r.count = s.count
      /\ r.haveCallbacks <=> (s.haveCallbacks \/ s.index = -1)
      /\ Len(r.callbacks) = Len(s.callbacks) + 1
  BY <1>1, AddCallbackFacts
<1> HIDE DEF r
<1>5. r.callbacks # <<>>
  BY <1>1, <1>4
<1>6. r.haveCallbacks
  <2>1. s.index # -1 => s.callbacks # <<>>
    BY <1>1 DEF SoundState
  <2> QED BY <1>1, <1>4, <2>1 DEF SoundState
<1>7. SoundState(r)
  BY <1>1, <1>2, <1>4, <1>5, <1>6 DEF SoundState, Apart
<1>8. /\ r.place = notifiers[n].place /\ r.version = notifiers[n].version
      /\ r.hasRun = notifiers[n].hasRun
      /\ r.alive => notifiers[n].alive
      /\ r.index # -1 => notifiers[n].index # -1
      /\ "uncounted" \notin excuses' /\ Counted /\ InDelivery(n) =>
           r.count <= Len(r.callbacks)
  BY <1>1, <1>3, <1>4 DEF Apart, s
<1> QED BY <1>2, <1>4, <1>7, <1>8, OneChanges

LEMMA RemoveKeeps ==
  ASSUME CoreInv, NEW n \in Notifier, NEW t \in Token, Remove(n, t)
  PROVE  Core' /\ CountKept
<1> DEFINE s == notifiers[n]
           r == RemoveCallback(s, t)
<1>1. /\ s \in NotifierState(Version) /\ Len(s.callbacks) \in Nat
      /\ s.index \in Int /\ s.count \in Nat /\ SoundState(s)
      /\ s.callbacks \in Seq(CallbackState(Version)) /\ s.haveCallbacks \in BOOLEAN
      /\ DOMAIN s.callbacks = 1..Len(s.callbacks)
  BY Fields, CoreFacts DEF CoreInv, Sound
<1>2. /\ notifiers' = [notifiers EXCEPT ![n] = r] /\ t \in Tokens(s)
      /\ UNCHANGED <<latest, realm, worker, skipVersion>>
  BY DEF Remove
<1>0. InDelivery(n) /\ PositionOf(s, t) > s.count => "uncounted" \in excuses'
  BY DEF Remove, InDelivery
<1>3. Counted /\ InDelivery(n) => s.count <= Len(s.callbacks)
  BY DEF Counted, CountFits, InDelivery
<1> HIDE DEF s
<1>4. PICK i \in DOMAIN s.callbacks :
        /\ r \in NotifierState(Version) /\ Apart(s, r)
        /\ r.index = IF s.index # -1 /\ s.index >= i - 1 THEN s.index - 1 ELSE s.index
        /\ r.count = IF s.count = 0 THEN SizeMax ELSE s.count - 1
        /\ InDelivery(n) /\ i > s.count => "uncounted" \in excuses'
        /\ r.haveCallbacks <=> r.callbacks # <<>>
        /\ Len(r.callbacks) = Len(s.callbacks) - 1
  <2> DEFINE i == PositionOf(s, t)
  <2>1. /\ i \in DOMAIN s.callbacks
        /\ r \in NotifierState(Version) /\ Apart(s, r)
        /\ r.index = IF s.index # -1 /\ s.index >= i - 1 THEN s.index - 1 ELSE s.index
        /\ r.count = IF s.count = 0 THEN SizeMax ELSE s.count - 1
        /\ InDelivery(n) /\ i > s.count => "uncounted" \in excuses'
        /\ r.haveCallbacks <=> r.callbacks # <<>>
        /\ Len(r.callbacks) = Len(s.callbacks) - 1
    BY <1>0, <1>1, <1>2, RemoveCallbackFacts
  <2> HIDE DEF i, r
  <2> QED BY <2>1
<1> HIDE DEF r
<1>5. s.alive
  <2>1. s.callbacks # <<>>
    BY <1>1, <1>4
  <2> QED BY <1>1, <2>1 DEF SoundState
<1>6. -1 <= r.index /\ r.index < Len(r.callbacks)
  <2>1. i \in 1..Len(s.callbacks) /\ -1 <= s.index /\ s.index < Len(s.callbacks)
    BY <1>1 DEF SoundState
  <2> QED BY <1>1, <1>4, <2>1
<1>7. SoundState(r)
  BY <1>1, <1>4, <1>5, <1>6 DEF SoundState, Apart
<1>8. /\ r.place = notifiers[n].place /\ r.version = notifiers[n].version
      /\ r.hasRun = notifiers[n].hasRun
      /\ r.alive => notifiers[n].alive
      /\ r.index # -1 => notifiers[n].index # -1
      /\ "uncounted" \notin excuses' /\ Counted /\ InDelivery(n) =>
           r.count <= Len(r.callbacks)
  <2>1. i \in 1..Len(s.callbacks)
    BY <1>1
  <2> QED BY <1>1, <1>3, <1>4, <2>1 DEF Apart, s
<1> QED BY <1>2, <1>4, <1>7, <1>8, OneChanges

LEMMA ReleaseKeeps ==
  ASSUME CoreInv, NEW n \in Notifier, Release(n)
  PROVE  Core' /\ CountKept
<1> DEFINE s == notifiers[n]
           r == Unregister(s)
<1>1. s \in NotifierState(Version) /\ SoundState(s)
  BY Fields, CoreFacts DEF CoreInv, Sound
<1>2. /\ notifiers' = [notifiers EXCEPT ![n] = r] /\ s.callbacks = <<>>
      /\ UNCHANGED <<latest, realm, worker, skipVersion>>
  BY DEF Release
<1>3. Counted /\ InDelivery(n) => s.count <= Len(s.callbacks)
  BY DEF Counted, CountFits, InDelivery
<1> HIDE DEF s
<1>4. /\ r \in NotifierState(Version)
      /\ r.place = s.place /\ ~ r.alive /\ r.version = s.version /\ r.hasRun = s.hasRun
      /\ r.index = s.index /\ r.count = s.count
      /\ r.haveCallbacks = s.haveCallbacks /\ r.callbacks = s.callbacks
  BY <1>1, UnregisterFacts
<1> HIDE DEF r
<1>5. SoundState(r)
  BY <1>1, <1>2, <1>4 DEF SoundState
<1> QED BY <1>1, <1>2, <1>3, <1>4, <1>5, OneChanges DEF s

\* The main thread calls the callback at k, as the code counts.
Calls(n, k) ==
  LET s == notifiers[n]
      c == s.callbacks[k + 1]
  IN /\ s.index < k /\ k < s.count /\ k + 1 \in DOMAIN s.callbacks
     /\ k \in Ready(s) /\ \A j \in Ready(s) : k <= j
     /\ notifiers' = [notifiers EXCEPT ![n] = CallAt(s, k)]
     /\ realm' = [realm EXCEPT !.cur = n, !.package = realm.package \ {n}]
     /\ told' = [told EXCEPT ![c.token] =
                   IF c.initialDelivered THEN @ \cup c.deliver
                   ELSE @ \cup ((1..realm.target) \ hushed[c.token])]

\* It is through with the callbacks of n.
Ends(n) ==
  /\ Ready(notifiers[n]) = {} /\ notifiers[n].count <= Len(notifiers[n].callbacks)
  /\ notifiers' = [notifiers EXCEPT ![n] = LoopEnds(notifiers[n])]
  /\ realm' = IF realm.package \ {n} = {}
              THEN [realm EXCEPT !.cur = NoOne, !.package = {},
                                 !.target = 0, !.pc = "idle"]
              ELSE [realm EXCEPT !.cur = NoOne, !.package = realm.package \ {n}]
  /\ UNCHANGED told

\* It runs past them, and is lost.
RunsPast(n) ==
  /\ notifiers[n].count > Len(notifiers[n].callbacks)
  /\ realm' = [realm EXCEPT !.pc = "beyond", !.cur = NoOne, !.package = {}, !.target = 0]
  /\ UNCHANGED <<notifiers, told>>

LEMMA CallNextCases ==
  ASSUME CoreInv, NEW n \in Notifier, CallNext(n)
  PROVE  /\ InDelivery(n)
         /\ (\E k \in Int : Calls(n, k)) \/ Ends(n) \/ RunsPast(n)
<1> DEFINE s == notifiers[n]
           i == CHOOSE j \in Ready(s) : \A k \in Ready(s) : j <= k
           c == s.callbacks[i + 1]
<1>1. /\ s \in NotifierState(Version) /\ SoundState(s)
      /\ s.count \in Nat /\ Len(s.callbacks) \in Nat
  BY Fields, CoreFacts DEF CoreInv, Parts, Sound
<1>2. realm.pc = "calling" /\ (n = realm.cur \/ (realm.cur = NoOne /\ n \in realm.package))
  BY DEF CallNext
<1>3. InDelivery(n) /\ s.index >= -1
  BY <1>1, <1>2, CoreFacts DEF InDelivery, SoundState
<1>4. CASE Ready(s) # {}
  <2>1. /\ i \in Int /\ s.index < i /\ i < s.count /\ i + 1 \in DOMAIN s.callbacks
        /\ i \in Ready(s) /\ \A k \in Ready(s) : i <= k
    BY <1>1, <1>3, <1>4, NextReady
  <2>2. /\ notifiers' = [notifiers EXCEPT ![n] = CallAt(s, i)]
        /\ realm' = [realm EXCEPT !.cur = n, !.package = realm.package \ {n}]
        /\ told' = [told EXCEPT ![c.token] =
                      IF c.initialDelivered THEN @ \cup c.deliver
                      ELSE @ \cup ((1..realm.target) \ hushed[c.token])]
    BY <1>4 DEF CallNext, BeyondCallbacks
  <2> HIDE DEF i
  <2>3. Calls(n, i)
    BY <2>1, <2>2 DEF Calls
  <2> QED BY <1>3, <2>1, <2>3
<1>5. CASE Ready(s) = {} /\ s.count <= Len(s.callbacks)
  <2>1. ~ BeyondCallbacks(s)
    BY <1>1, <1>5 DEF BeyondCallbacks
  <2> QED BY <1>3, <1>5, <2>1 DEF CallNext, Ends
<1>6. CASE Ready(s) = {} /\ s.count > Len(s.callbacks)
  BY <1>3, <1>6 DEF CallNext, RunsPast, BeyondCallbacks
<1> QED BY <1>1, <1>4, <1>5, <1>6

LEMMA RunsPastKeeps ==
  ASSUME CoreInv, NEW n \in Notifier, CallNext(n), RunsPast(n)
  PROVE  Core' /\ CountKept
<1>1. /\ UNCHANGED <<latest, notifiers, worker, skipVersion>> /\ InDelivery(n)
      /\ realm.pc = "calling"
  BY CallNextCases DEF CallNext, RunsPast
<1>2. latest \in Version /\ latest <= latest /\ realm \in RealmState
  BY CoreFacts DEF Version, Parts
<1>3. /\ Sound' /\ RunFits' /\ SameVersion' /\ SkipFits'
      /\ Parts' <=> realm' \in RealmState
      /\ ForRealm' = ForRealm
  BY <1>1, <1>2, NobodyChanges
<1>4. /\ realm' \in RealmState /\ realm'.version = realm.version
      /\ realm'.package = {} /\ realm'.cur = NoOne /\ realm'.pc = "beyond"
  <2>1. 0 \in 0..MaxVersion
    BY CoreFacts
  <2> QED BY <1>2, <2>1 DEF RunsPast, RealmState
<1>5. RealmFits' /\ CallingFits'
  BY <1>1, <1>4, CoreFacts DEF RealmFits, CallingFits, InDelivery
<1>6. ~ Counted
  BY <1>1, CoreFacts, Fields DEF Counted, CountFits, RunsPast, InDelivery, CoreInv
<1> QED BY <1>3, <1>4, <1>5, <1>6 DEF Core, CountKept

LEMMA CallNextKeeps ==
  ASSUME CoreInv, NEW n \in Notifier, CallNext(n), ~ RunsPast(n)
  PROVE  Core' /\ CountKept
<1> DEFINE s == notifiers[n]
           rest == realm.package \ {n}
<1>1. /\ s \in NotifierState(Version) /\ Len(s.callbacks) \in Nat
      /\ s.index \in Int /\ s.count \in Int /\ SoundState(s)
      /\ s.callbacks \in Seq(CallbackState(Version))
  BY Fields, CoreFacts DEF CoreInv, Sound
<1>2. /\ realm.pc = "calling" /\ UNCHANGED <<latest, worker, skipVersion>>
      /\ n = realm.cur \/ (realm.cur = NoOne /\ n \in realm.package)
  BY DEF CallNext
<1>3. InDelivery(n) /\ s.index >= -1
  BY <1>1, <1>2, CoreFacts DEF InDelivery, SoundState
<1>4. PICK r \in NotifierState(Version) :
        /\ notifiers' = [notifiers EXCEPT ![n] = r]
        /\ Apart(s, r) /\ r.haveCallbacks = s.haveCallbacks /\ r.count = s.count
        /\ r.callbacks \in Seq(CallbackState(Version))
        /\ Len(r.callbacks) = Len(s.callbacks)
        /\ r.index \in Int /\ -1 <= r.index /\ r.index < Len(r.callbacks)
        /\ \/ realm' = [realm EXCEPT !.cur = n, !.package = rest]
           \/ /\ r.index = -1
              /\ realm' = IF rest = {}
                          THEN [realm EXCEPT !.cur = NoOne, !.package = {},
                                             !.target = 0, !.pc = "idle"]
                          ELSE [realm EXCEPT !.cur = NoOne, !.package = rest]
  <2>1. CASE Ready(s) # {}
    <3>1. PICK k \in Int : /\ s.index < k /\ k < s.count /\ k + 1 \in DOMAIN s.callbacks
                           /\ notifiers' = [notifiers EXCEPT ![n] = CallAt(s, k)]
                           /\ realm' = [realm EXCEPT !.cur = n, !.package = rest]
      <4>1. \E k \in Int : Calls(n, k)
        BY <2>1, CallNextCases DEF Ends
      <4> QED BY <4>1 DEF Calls
    <3> DEFINE r == CallAt(s, k)
    <3> HIDE DEF s
    <3>2. /\ r \in NotifierState(Version) /\ Apart(s, r)
          /\ r.index = k /\ r.count = s.count /\ r.haveCallbacks = s.haveCallbacks
          /\ Len(r.callbacks) = Len(s.callbacks)
      BY <1>1, <3>1, CallAtFacts
    <3>3. notifiers' = [notifiers EXCEPT ![n] = r]
      BY <3>1
    <3> HIDE DEF r
    <3>4. r.callbacks \in Seq(CallbackState(Version))
      BY <3>2, NotifierFields
    <3>5. k >= -1 /\ k < Len(s.callbacks)
      BY <1>1, <1>3, <3>1
    <3> QED BY <3>1, <3>2, <3>3, <3>4, <3>5
  <2>2. CASE Ready(s) = {}
    <3>1. /\ notifiers' = [notifiers EXCEPT ![n] = LoopEnds(s)]
          /\ realm' = IF rest = {}
                      THEN [realm EXCEPT !.cur = NoOne, !.package = {},
                                         !.target = 0, !.pc = "idle"]
                      ELSE [realm EXCEPT !.cur = NoOne, !.package = rest]
      BY <2>2, CallNextCases DEF Calls, Ends
    <3> DEFINE r == LoopEnds(s)
    <3> HIDE DEF s
    <3>2. /\ r \in NotifierState(Version) /\ Apart(s, r)
          /\ r.index = -1 /\ r.count = s.count
          /\ r.haveCallbacks = s.haveCallbacks /\ r.callbacks = s.callbacks
      BY <1>1, LoopEndsFacts
    <3>3. notifiers' = [notifiers EXCEPT ![n] = r]
      BY <3>1
    <3>4. r.index \in Int /\ -1 <= r.index /\ r.index < Len(r.callbacks)
      BY <1>1, <3>2
    <3> HIDE DEF r, rest
    <3> QED BY <1>1, <3>1, <3>2, <3>3, <3>4
  <2> QED BY <2>1, <2>2
<1>5. /\ notifiers'[n] = r
      /\ \A m \in Notifier \ {n} : notifiers'[m] = notifiers[m]
      /\ notifiers' \in [Notifier -> NotifierState(Version)]
  BY <1>4, CoreFacts DEF Parts
<1>6. Steady
  BY <1>4, <1>5 DEF Steady, Listed, Apart
<1>7. RunFits' /\ SameVersion' /\ SkipFits'
  BY <1>2, <1>6, SteadyKeeps, CoreFacts
<1>8. SoundState(r)
  <2>1. r.callbacks = <<>> <=> s.callbacks = <<>>
    BY <1>1, <1>4, EmptySeq
  <2> QED BY <1>1, <1>4, <2>1 DEF SoundState, Apart
<1>9. Sound'
  BY <1>2, <1>4, <1>5, <1>8, CoreFacts DEF Sound, Apart
<1>10. realm \in RealmState /\ realm.cur \notin realm.package
  BY CoreFacts DEF Parts, RealmFits
<1> HIDE DEF s
<1>11. CASE realm' = [realm EXCEPT !.cur = n, !.package = rest]
  <2>1. /\ realm' \in RealmState /\ realm'.cur = n /\ realm'.package = rest
        /\ realm'.version = realm.version /\ realm'.target = realm.target
        /\ realm'.pc = realm.pc /\ realm'.writing = realm.writing
    BY <1>10, <1>11 DEF RealmState
  <2>2. RealmFits'
    BY <1>2, <2>1, CoreFacts DEF RealmFits
  <2>3. \A m \in Notifier : InDelivery(m)' => InDelivery(m)
    BY <1>2, <1>3, <2>1 DEF InDelivery
  <2>4. CallingFits'
    <3>1. \A m \in Notifier : notifiers'[m].index # -1 => m = n
      BY <1>2, <1>5, CoreFacts DEF CallingFits
    <3> QED BY <1>2, <1>4, <1>5, <2>1, <2>3, <3>1, CoreFacts DEF CallingFits, Apart, s
  <2>5. CountKept
    BY <1>3, <1>4, <1>5, <2>1, <2>3, CoreFacts DEF CountFits, Counted, CountKept, InDelivery, s
  <2> QED BY <1>2, <1>5, <1>7, <1>9, <2>1, <2>2, <2>4, <2>5, CoreFacts DEF Core, Parts
<1>12. CASE /\ r.index = -1
            /\ realm' = IF rest = {}
                        THEN [realm EXCEPT !.cur = NoOne, !.package = {},
                                           !.target = 0, !.pc = "idle"]
                        ELSE [realm EXCEPT !.cur = NoOne, !.package = rest]
  <2>1. /\ realm' \in RealmState /\ realm'.cur = NoOne /\ realm'.package = rest
        /\ realm'.version = realm.version /\ realm'.writing = realm.writing
        /\ \/ realm'.pc = "idle" /\ rest = {}
           \/ realm'.pc = "calling" /\ realm'.target = realm.target
    <3>1. CASE rest = {}
      <4>1. /\ realm' = [realm EXCEPT !.cur = NoOne, !.package = {},
                                      !.target = 0, !.pc = "idle"]
            /\ rest = {} /\ 0 \in 0..MaxVersion
        BY <1>12, <3>1, MaxVersionAssumption
      <4> HIDE DEF rest
      <4> QED BY <1>10, <4>1 DEF RealmState
    <3>2. CASE rest # {}
      <4>1. realm' = [realm EXCEPT !.cur = NoOne, !.package = rest]
        BY <1>12, <3>2
      <4>2. rest \subseteq Notifier
        BY CoreFacts
      <4> HIDE DEF rest
      <4> QED BY <1>2, <1>10, <4>1, <4>2 DEF RealmState
    <3> QED BY <3>1, <3>2
  <2>2. RealmFits'
    BY <1>2, <2>1, CoreFacts DEF RealmFits
  <2>3. \A m \in Notifier : InDelivery(m)' => InDelivery(m) /\ realm'.target = realm.target
    BY <1>2, <2>1, CoreFacts DEF InDelivery
  <2>4. CallingFits'
    <3>1. \A m \in Notifier : notifiers'[m].index = -1
      BY <1>2, <1>5, <1>12, CoreFacts DEF CallingFits
    <3> QED BY <1>4, <1>5, <2>3, <3>1, CoreFacts DEF CallingFits, Apart, s
  <2>5. CountKept
    BY <1>3, <1>4, <1>5, <2>1, <2>3, CoreFacts DEF CountFits, Counted, CountKept, InDelivery, s
  <2> QED BY <1>2, <1>5, <1>7, <1>9, <2>1, <2>2, <2>4, <2>5, CoreFacts DEF Core, Parts
<1> QED BY <1>4, <1>11, <1>12

\* Every way to read another version.
LEMMA DeliveryKeeps ==
  ASSUME CoreInv, Notify \/ SendPackage \/ (Refresh /\ ForRealm = {})
  PROVE  Core' /\ CountKept
<1>1. UNCHANGED <<latest, worker, skipVersion>>
  BY DEF Notify, SendPackage, Refresh
<1>2. /\ realm.pc \in {"idle", "refreshing", "beginning"}
      /\ \/ Silent \/ Drops \/ ReadsLatest
         \/ \E v \in Version, ns \in SUBSET Notifier : Delivers(v, ns)
  BY DeliveryKinds
<1> QED BY <1>1, <1>2, DeliveryCore, CoreFacts DEF Core, Parts, CountKept

LEMMA WaitingKeeps ==
  ASSUME CoreInv, (Refresh /\ ForRealm # {}) \/ Begin \/ FallAsleep
  PROVE  Core' /\ CountKept
<1>1. UNCHANGED <<latest, notifiers, worker, skipVersion>>
  BY DEF Refresh, Begin, FallAsleep
<1>2. latest \in Version /\ latest <= latest /\ realm \in RealmState
  BY CoreFacts DEF Version, Parts
<1>3. /\ Sound' /\ RunFits' /\ SameVersion' /\ SkipFits'
      /\ Parts' <=> realm' \in RealmState
      /\ ForRealm' = ForRealm
  BY <1>1, <1>2, NobodyChanges
<1>4. realm' \in RealmState /\ RealmFits'
  <2>1. ASSUME NEW pc \in {"refreshing", "beginning"}, StartWaiting(pc), realm.pc = "idle"
        PROVE  realm' \in RealmState /\ RealmFits'
    <3> DEFINE all == ForRealm
               w == pc = "beginning"
    <3>1. /\ all \subseteq Notifier /\ w \in BOOLEAN /\ latest \in 0..MaxVersion
          /\ realm' = [realm EXCEPT !.pc = pc, !.package = all, !.target = latest,
                                    !.wait = "first", !.writing = w]
      BY <2>1, CoreFacts DEF StartWaiting, ForRealm
    <3>2. w <=> pc = "beginning"
      OBVIOUS
    <3>3. realm.cur = NoOne /\ NoOne \notin all /\ realm.version <= latest
      BY <2>1, CoreFacts DEF RealmFits, ForRealm
    <3>4. all = ForRealm
      OBVIOUS
    <3> HIDE DEF all, w
    <3>5. /\ realm' \in RealmState /\ realm'.version = realm.version
          /\ realm'.package = all /\ realm'.target = latest /\ realm'.cur = realm.cur
          /\ realm'.pc = pc /\ realm'.writing = w
      BY <1>2, <2>1, <3>1 DEF RealmState
    <3>6. (realm'.pc = "beginning" => realm'.writing) /\ (realm'.pc = "refreshing" => ~ realm'.writing)
      BY <3>2, <3>5
    <3> QED BY <1>1, <1>3, <2>1, <3>3, <3>4, <3>5, <3>6, CoreFacts DEF RealmFits
  <2>2. CASE Refresh /\ ForRealm # {}
    BY <2>1, <2>2 DEF Refresh
  <2>3. CASE Begin
    <3>1. CASE realm' = [realm EXCEPT !.version = latest, !.writing = TRUE]
      BY <1>1, <1>2, <2>3, <3>1, CoreFacts DEF RealmFits, RealmState, Begin
    <3> QED BY <2>1, <2>3, <3>1 DEF Begin
  <2>4. CASE FallAsleep
    BY <1>1, <1>2, <1>3, <2>4, CoreFacts DEF RealmFits, RealmState, FallAsleep
  <2> QED BY <2>2, <2>3, <2>4
<1>5. CallingFits' /\ CountKept
  <2>1. /\ realm'.pc \notin {"calling", "beyond"}
        /\ realm.pc \notin {"calling", "beyond"}
    BY <1>2 DEF Refresh, Begin, FallAsleep, Waiting, StartWaiting, RealmState
  <2> QED BY <1>1, <2>1, CoreFacts DEF CallingFits, CountFits, Counted, CountKept, InDelivery
<1> QED BY <1>3, <1>4, <1>5 DEF Core

LEMMA BeginInCallbackKeeps ==
  ASSUME CoreInv, BeginInCallback
  PROVE  Core' /\ CountKept
<1>1. UNCHANGED <<latest, notifiers, worker, skipVersion>>
  BY DEF BeginInCallback
<1>2. latest \in Version /\ latest <= latest /\ realm \in RealmState
  BY CoreFacts DEF Version, Parts
<1>3. /\ realm' \in RealmState /\ realm'.version = latest
      /\ realm'.package = realm.package /\ realm'.target = realm.target
      /\ realm'.cur = realm.cur /\ realm'.pc = realm.pc /\ realm.pc = "calling"
  BY <1>2 DEF BeginInCallback, InCallback, RealmState
<1>4. RealmFits'
  BY <1>1, <1>3, CoreFacts DEF RealmFits
<1>5. CallingFits' /\ CountKept
  BY <1>1, <1>3, CoreFacts DEF CallingFits, CountFits, Counted, CountKept, InDelivery
<1> QED BY <1>1, <1>2, <1>3, <1>4, <1>5, NobodyChanges DEF Core

LEMMA SuppressTokensKeeps ==
  ASSUME CoreInv, NEW tokens \in SUBSET Token, SuppressTokens(tokens)
  PROVE  Core' /\ CountKept
<1>1. /\ UNCHANGED <<latest, worker, skipVersion>> /\ realm.pc = "idle" /\ realm.writing
      /\ notifiers' = [n \in Notifier |-> Suppress(notifiers[n], tokens)]
      /\ realm' = [realm EXCEPT !.pc = "committing"]
  BY DEF SuppressTokens
<1>2. ASSUME NEW n \in Notifier
      PROVE  LET s == notifiers[n]
                 r == notifiers'[n]
             IN /\ r \in NotifierState(Version) /\ Apart(s, r)
                /\ r.index = s.index /\ r.count = s.count
                /\ r.haveCallbacks = s.haveCallbacks
                /\ Len(r.callbacks) = Len(s.callbacks)
                /\ r.callbacks = <<>> <=> s.callbacks = <<>>
  <2> DEFINE s == notifiers[n]
             r == Suppress(s, tokens)
  <2>1. s \in NotifierState(Version) /\ s.callbacks \in Seq(CallbackState(Version))
    BY Fields DEF CoreInv
  <2>2. notifiers'[n] = r
    BY <1>1
  <2> HIDE DEF s
  <2>3. /\ r \in NotifierState(Version) /\ Apart(s, r)
        /\ r.index = s.index /\ r.count = s.count /\ r.haveCallbacks = s.haveCallbacks
        /\ Len(r.callbacks) = Len(s.callbacks)
    BY <2>1, SuppressFacts
  <2> HIDE DEF r
  <2>4. r.callbacks \in Seq(CallbackState(Version))
    BY <2>3, NotifierFields
  <2>5. r.callbacks = <<>> <=> s.callbacks = <<>>
    BY <2>1, <2>3, <2>4, EmptySeq
  <2> QED BY <2>2, <2>3, <2>5 DEF s
<1>3. notifiers' \in [Notifier -> NotifierState(Version)]
  BY <1>1, <1>2
<1>4. Steady
  BY <1>2 DEF Steady, Listed, Apart
<1>5. RunFits' /\ SameVersion' /\ SkipFits'
  BY <1>1, <1>4, SteadyKeeps, CoreFacts
<1>6. Sound'
  BY <1>1, <1>2, CoreFacts DEF Sound, SoundState, Apart
<1>7. /\ realm' \in RealmState /\ realm'.pc = "committing"
      /\ realm'.version = realm.version /\ realm'.package = realm.package
      /\ realm'.cur = realm.cur /\ realm'.writing = realm.writing
  BY <1>1, CoreFacts DEF Parts, RealmState
<1>8. RealmFits'
  BY <1>1, <1>7, CoreFacts DEF RealmFits
<1>9. CallingFits' /\ CountKept
  BY <1>1, <1>2, <1>7, CoreFacts DEF CallingFits, CountFits, Counted, CountKept, InDelivery
<1> QED BY <1>1, <1>3, <1>5, <1>6, <1>7, <1>8, <1>9, CoreFacts DEF Core, Parts

LEMMA CommitKeeps ==
  ASSUME CoreInv, Commit
  PROVE  Core' /\ CountKept
<1> DEFINE listed == \E n \in ForRealm : notifiers[n].place = "main"
           pc == IF realm.pc = "committing" THEN "idle" ELSE realm.pc
<1>1. /\ UNCHANGED <<notifiers, worker>> /\ latest' = latest + 1 /\ latest < MaxVersion
      /\ (realm.writing /\ UserCode) \/ realm.pc = "committing"
      /\ realm' = [realm EXCEPT !.version = latest', !.writing = FALSE, !.pc = pc]
      /\ skipVersion' = IF listed THEN latest' ELSE skipVersion
  BY DEF Commit
<1>2. /\ latest' \in Version /\ latest' \in Int /\ latest < latest' /\ latest \in Int
      /\ realm \in RealmState
  BY <1>1, CoreFacts DEF Version, Parts
<1>3. /\ pc \in {"idle", "calling"} /\ (pc = "calling" <=> realm.pc = "calling")
      /\ realm.pc # "beyond"
  BY <1>1 DEF UserCode, InCallback
<1> HIDE DEF pc
<1>4. /\ realm' \in RealmState /\ realm'.version = latest' /\ ~ realm'.writing
      /\ realm'.package = realm.package /\ realm'.target = realm.target
      /\ realm'.cur = realm.cur /\ realm'.pc = pc
  BY <1>1, <1>2, <1>3 DEF RealmState
<1>5. RealmFits'
  <2>1. realm.pc = "calling" => realm.target <= latest'
    BY <1>2, CoreFacts DEF RealmFits
  <2>2. realm.cur # NoOne => realm.pc = "calling"
    BY CoreFacts DEF RealmFits
  <2>3. /\ realm.cur \notin realm.package /\ latest' <= latest'
        /\ realm.pc = "calling" => 1 <= realm.target
    BY <1>2, CoreFacts DEF RealmFits
  <2> QED BY <1>3, <1>4, <2>1, <2>2, <2>3 DEF RealmFits
<1>6. CallingFits' /\ CountKept
  BY <1>1, <1>3, <1>4, CoreFacts DEF CallingFits, CountFits, Counted, CountKept, InDelivery
<1>7. \A n \in Notifier : notifiers[n].version \in Int /\ notifiers[n].version <= latest
  BY Fields, CoreFacts DEF CoreInv, Sound
<1>8. Sound'
  BY <1>1, <1>2, <1>7, CoreFacts DEF Sound, SoundState
<1>9. Listed' = Listed /\ Underway' = Underway /\ Skipping' = Skipping
  BY <1>1 DEF Listed, Underway, Skipping
<1>10. RunFits'
  <2>1. RunFits /\ worker.target \in Int
    BY CoreFacts
  <2>2. Skipping => Underway
    BY DEF Skipping, Underway
  <2> QED BY <1>1, <1>2, <1>9, <2>1, <2>2 DEF RunFits
<1>11. SameVersion'
  BY <1>1, <1>9, CoreFacts DEF SameVersion
<1>12. SkipFits' /\ skipVersion' \in 0..MaxVersion
  <2>1. CASE listed
    <3>1. skipVersion' = latest' /\ Listed # {}
      BY <1>1, <2>1 DEF Listed, ForRealm
    <3>2. Underway => worker.target < latest'
      BY <1>2, CoreFacts DEF RunFits
    <3>3. \A n \in Listed : notifiers[n].version <= latest'
      BY <1>2, <1>7 DEF Listed
    <3> QED BY <1>1, <1>2, <1>9, <3>1, <3>2, <3>3, CoreFacts DEF SkipFits, Version
  <2>2. CASE ~ listed
    BY <1>1, <1>2, <1>9, <2>2, CoreFacts DEF SkipFits
  <2> QED BY <2>1, <2>2
<1> QED BY <1>1, <1>2, <1>4, <1>5, <1>6, <1>8, <1>10, <1>11, <1>12, CoreFacts DEF Core, Parts

LEMMA SmallStepsKeep ==
  ASSUME CoreInv, Cancel \/ OtherCommit \/ OtherNotify
  PROVE  Core' /\ CountKept
<1>1. /\ UNCHANGED <<notifiers, worker, skipVersion>>
      /\ latest' \in Version /\ latest <= latest' /\ latest' \in Int
  BY CoreFacts DEF Cancel, OtherCommit, OtherNotify, Version
<1>2. realm \in RealmState /\ ForRealm' = ForRealm
  BY <1>1, NobodyChanges, CoreFacts DEF Parts
<1>3. CASE Cancel
  <2>1. /\ realm' = [realm EXCEPT !.writing = FALSE] /\ UserCode /\ realm.writing
        /\ latest' = latest
    BY <1>3 DEF Cancel
  <2>2. /\ realm' \in RealmState /\ realm'.version = realm.version /\ ~ realm'.writing
        /\ realm'.package = realm.package /\ realm'.target = realm.target
        /\ realm'.cur = realm.cur /\ realm'.pc = realm.pc
        /\ realm.pc \in {"idle", "calling"}
    BY <1>2, <2>1 DEF RealmState, UserCode, InCallback
  <2>3. RealmFits'
    BY <1>2, <2>1, <2>2, CoreFacts DEF RealmFits
  <2>4. CallingFits' /\ CountKept
    BY <1>1, <2>2, CoreFacts DEF CallingFits, CountFits, Counted, CountKept, InDelivery
  <2> QED BY <1>1, <2>2, <2>3, <2>4, NobodyChanges DEF Core
<1>4. CASE OtherCommit \/ OtherNotify
  <2>1. realm' = realm /\ (latest' = latest \/ ~ realm.writing)
    BY <1>4 DEF OtherCommit, OtherNotify
  <2>2. RealmFits'
    <3>1. realm.version <= latest' /\ (realm.pc = "refreshing" => realm.target <= latest')
      BY <1>1, CoreFacts DEF RealmFits
    <3>2. realm.pc = "beginning" => realm.target = latest /\ latest' = latest
      BY <2>1, CoreFacts DEF RealmFits
    <3> QED BY <1>1, <1>2, <2>1, <3>1, <3>2, CoreFacts DEF RealmFits
  <2>3. CallingFits' /\ CountKept
    BY <1>1, <2>1, CoreFacts DEF CallingFits, CountFits, Counted, CountKept, InDelivery
  <2> QED BY <1>1, <1>2, <2>1, <2>2, <2>3, NobodyChanges DEF Core
<1> QED BY <1>3, <1>4

LEMMA NotifyRealmsKeeps ==
  ASSUME CoreInv, NotifyRealms
  PROVE  Core' /\ CountKept
<1>1. /\ UNCHANGED <<latest, realm, notifiers, skipVersion>> /\ worker.pc = "notifying"
      /\ worker' = [pc |-> "idle", target |-> 0, skip |-> 0, old |-> {}, new |-> {}]
  BY DEF NotifyRealms
<1>2. worker' \in WorkerState
  BY <1>1, CoreFacts DEF WorkerState
<1>3. ~ Underway /\ ~ Underway' /\ ~ Skipping' /\ Listed' = Listed /\ ForRealm' = ForRealm
  BY <1>1 DEF Underway, Skipping, Listed, ForRealm
<1>4. RunFits' /\ SameVersion' /\ SkipFits'
  BY <1>1, <1>3, CoreFacts DEF RunFits, SameVersion, SkipFits
<1>5. Sound' /\ RealmFits' /\ CallingFits' /\ CountKept
  BY <1>1, <1>3, CoreFacts
     DEF Sound, SoundState, RealmFits, CallingFits, CountFits, Counted, CountKept, InDelivery
<1> QED BY <1>1, <1>2, <1>4, <1>5, CoreFacts DEF Core, Parts

\* What the dead leave behind.
LEMMA CleanedUpFacts ==
  ASSUME NEW s \in NotifierState(Version)
  PROVE  LET r == CleanedUp(s) IN
         /\ r \in NotifierState(Version)
         /\ s.place \in {"new", "main"} /\ ~ s.alive => r.place = "gone"
         /\ s.place \notin {"new", "main"} \/ s.alive => r.place = s.place
         /\ r.alive = s.alive /\ r.version = s.version
         /\ r.hasRun = s.hasRun /\ r.rows = s.rows
         /\ r.changes = s.changes /\ r.index = s.index /\ r.count = s.count
         /\ r.haveCallbacks = s.haveCallbacks /\ r.callbacks = s.callbacks
BY PlaceFacts DEF CleanedUp

\* Without notifiers there is no version to skip, and the other way round.
LEMMA SkipAfterCleanUpFacts ==
  ASSUME CoreInv
  PROVE  /\ SkipAfterCleanUp \in {0, skipVersion}
         /\ SkipAfterCleanUp # 0 => skipVersion # 0 /\ Alive("main") # {}
BY CoreFacts DEF SkipAfterCleanUp, SkipFits, Listed

LEMMA RunBeginsKeeps ==
  ASSUME CoreInv, RunBegins
  PROVE  Core' /\ CountKept
<1> DEFINE old == Alive("main")
           new == Alive("new")
<1>1. /\ UNCHANGED <<latest, realm>> /\ worker.pc = "idle"
      /\ notifiers' = [n \in Notifier |->
                         IF n \in new THEN [notifiers[n] EXCEPT !.place = "main"]
                         ELSE CleanedUp(notifiers[n])]
  BY DEF RunBegins
<1>2. ASSUME NEW n \in Notifier
      PROVE  LET s == notifiers[n]
                 r == notifiers'[n]
             IN /\ r \in NotifierState(Version)
                /\ s.alive => r.place = "main"
                /\ ~ s.alive => r.place \notin {"new", "main"}
                /\ r.place = "none" => s.place = "none"
                /\ r.alive = s.alive /\ r.version = s.version /\ r.hasRun = s.hasRun
                /\ r.index = s.index /\ r.count = s.count
                /\ r.haveCallbacks = s.haveCallbacks /\ r.callbacks = s.callbacks
  <2> DEFINE s == notifiers[n]
  <2>1. s \in NotifierState(Version) /\ SoundState(s)
    BY CoreFacts DEF Parts, Sound
  <2>2. notifiers'[n] = IF s.place = "new" /\ s.alive THEN [s EXCEPT !.place = "main"]
                        ELSE CleanedUp(s)
    BY <1>1 DEF Alive
  <2>3. s.alive => s.place \in {"new", "main"}
    BY <2>1 DEF SoundState
  <2> HIDE DEF s
  <2>4. CASE s.place = "new" /\ s.alive
    <3>1. notifiers'[n] = [s EXCEPT !.place = "main"]
      BY <2>2, <2>4
    <3>2. notifiers'[n] \in NotifierState(Version)
      BY <2>1, <3>1 DEF NotifierState
    <3>3. /\ notifiers'[n].place = "main" /\ notifiers'[n].alive = s.alive
          /\ notifiers'[n].version = s.version /\ notifiers'[n].hasRun = s.hasRun
          /\ notifiers'[n].index = s.index /\ notifiers'[n].count = s.count
          /\ notifiers'[n].haveCallbacks = s.haveCallbacks
          /\ notifiers'[n].callbacks = s.callbacks
      BY <2>1, <3>1 DEF NotifierState
    <3> QED BY <2>4, <3>2, <3>3 DEF s
  <2>5. CASE ~ (s.place = "new" /\ s.alive)
    <3>1. notifiers'[n] = CleanedUp(s)
      BY <2>2, <2>5
    <3>2. s.alive => s.place = "main"
      BY <2>3, <2>5
    <3> QED BY <2>1, <3>1, <3>2, CleanedUpFacts DEF s
  <2> QED BY <2>4, <2>5
<1>3. notifiers' \in [Notifier -> NotifierState(Version)]
  BY <1>1, <1>2
<1> HIDE DEF old, new
<1>4. /\ Listed' = old \cup new /\ old \cap new = {} /\ old \subseteq Listed
      /\ old \subseteq Notifier /\ new \subseteq Notifier /\ ForRealm' = ForRealm
  <2>1. \A n \in Notifier : notifiers'[n].place = "main" <=> notifiers[n].alive
    <3> SUFFICES ASSUME NEW n \in Notifier
                 PROVE  notifiers'[n].place = "main" <=> notifiers[n].alive
      OBVIOUS
    <3>1. notifiers[n].alive \in BOOLEAN
      BY Fields DEF CoreInv
    <3> QED BY <1>2, <3>1
  <2>2. \A n \in Notifier : notifiers[n].alive => notifiers[n].place \in {"new", "main"}
    BY CoreFacts DEF Sound, SoundState
  <2>3. \A n \in Notifier : notifiers'[n].alive => notifiers'[n].place = "main"
    BY <1>2
  <2> QED BY <1>2, <2>1, <2>2, <2>3 DEF Listed, Alive, ForRealm, old, new
<1>5. /\ \A n \in old : notifiers'[n].hasRun
      /\ \A n \in new : ~ notifiers'[n].hasRun
      /\ \A n \in Listed' : notifiers'[n].version <= latest
  <2>1. \A n \in Listed : notifiers[n].hasRun
    BY <1>1, CoreFacts DEF Underway, RunFits
  <2>2. \A n \in new : ~ notifiers[n].hasRun
    BY CoreFacts DEF Sound, SoundState, Alive, new
  <2>3. \A n \in Notifier : notifiers[n].version <= latest
    BY CoreFacts DEF Sound
  <2> QED BY <1>2, <1>4, <2>1, <2>2, <2>3
<1>6. Sound'
  <2> SUFFICES ASSUME NEW n \in Notifier
               PROVE  SoundState(notifiers'[n]) /\ notifiers'[n].version <= latest'
    BY DEF Sound
  <2>1. SoundState(notifiers[n]) /\ notifiers[n].version <= latest
    BY CoreFacts DEF Sound
  <2>2. /\ notifiers[n].alive => notifiers'[n].place = "main"
        /\ ~ notifiers[n].alive => notifiers'[n].place \notin {"new", "main"}
        /\ notifiers'[n].place = "none" => notifiers[n].place = "none"
        /\ notifiers'[n].alive = notifiers[n].alive
        /\ notifiers'[n].version = notifiers[n].version
        /\ notifiers'[n].hasRun = notifiers[n].hasRun
        /\ notifiers'[n].haveCallbacks = notifiers[n].haveCallbacks
        /\ notifiers'[n].callbacks = notifiers[n].callbacks
        /\ notifiers'[n].index = notifiers[n].index
    BY <1>2
  <2>3. CASE notifiers[n].alive
    BY <1>1, <2>1, <2>2, <2>3 DEF SoundState
  <2>4. CASE ~ notifiers[n].alive
    BY <1>1, <2>1, <2>2, <2>4 DEF SoundState
  <2> QED BY <2>3, <2>4
<1>7. SameVersion'
  BY <1>2, <1>4, <1>5, CoreFacts DEF SameVersion, Listed
<1>8. RealmFits' /\ CallingFits' /\ CountKept
  <2>1. RealmFits'
    BY <1>1, <1>4, CoreFacts DEF RealmFits
  <2>2. CallingFits' /\ CountKept
    <3>1. \A n \in Notifier : InDelivery(n)' <=> InDelivery(n)
      BY <1>1 DEF InDelivery
    <3>2. \A n \in Notifier : /\ notifiers'[n].hasRun = notifiers[n].hasRun
                              /\ notifiers'[n].version = notifiers[n].version
                              /\ notifiers'[n].index = notifiers[n].index
                              /\ notifiers'[n].count = notifiers[n].count
                              /\ notifiers'[n].callbacks = notifiers[n].callbacks
      BY <1>2
    <3>3. CallingFits'
      BY <1>1, <3>1, <3>2, CoreFacts DEF CallingFits
    <3>4. CountKept
      BY <1>1, <3>2, CoreFacts DEF CountFits, Counted, CountKept
    <3> QED BY <3>3, <3>4
  <2> QED BY <2>1, <2>2
<1>9. \A n \in old : skipVersion # 0 => notifiers'[n].version <= skipVersion
  BY <1>2, <1>4, CoreFacts DEF SkipFits, Listed
<1>10. worker' \in WorkerState /\ skipVersion' = 0 /\ RunFits'
  <2>1. CASE new \cup old = {}
    <3>1. worker' = [worker EXCEPT !.pc = "notifying"] /\ skipVersion' = 0
      BY <2>1, SkipAfterCleanUpFacts DEF RunBegins, old, new
    <3>2. worker' \in WorkerState /\ worker'.pc = "notifying"
      BY <3>1, CoreFacts DEF WorkerState, Parts
    <3> QED BY <1>4, <2>1, <3>1, <3>2 DEF RunFits, Underway, Skipping
  <2>2. CASE new \cup old # {}
    <3> DEFINE skip == SkipAfterCleanUp
    <3>1. /\ worker' = [pc |-> IF skip # 0 THEN "skipping" ELSE "running",
                        target |-> latest, skip |-> skip, old |-> old, new |-> new]
          /\ skipVersion' = 0
      BY <2>2 DEF RunBegins, old, new
    <3>2. skip \in 0..MaxVersion /\ (skip # 0 => skip = skipVersion /\ old # {} /\ skip <= latest)
      BY SkipAfterCleanUpFacts, CoreFacts DEF SkipFits, old
    <3> HIDE DEF skip
    <3>3. worker' \in WorkerState
      BY <1>4, <3>1, <3>2, CoreFacts DEF WorkerState
    <3>4. /\ worker'.pc \in {"skipping", "running"} /\ (worker'.pc = "skipping" => skip # 0)
          /\ worker'.target = latest /\ worker'.skip = skip
          /\ worker'.old = old /\ worker'.new = new
      BY <3>1
    <3>5. RunFits'
      <4>1. Underway' /\ (Skipping' => skip # 0)
        BY <3>4 DEF Underway, Skipping
      <4>2. skip # 0 => 1 <= skip /\ \A n \in old : notifiers'[n].version <= skip
        BY <1>9, <3>2
      <4>3. /\ Listed' = worker'.old \cup worker'.new /\ worker'.old \cap worker'.new = {}
            /\ \A n \in worker'.old : notifiers'[n].hasRun
            /\ \A n \in worker'.new : ~ notifiers'[n].hasRun
        BY <1>4, <1>5, <3>4
      <4>4. /\ 1 <= worker'.target /\ worker'.target <= latest'
            /\ \A n \in Listed' : notifiers'[n].version <= worker'.target
        BY <1>1, <1>5, <3>4, CoreFacts
      <4>5. Skipping' => /\ worker'.old # {}
                         /\ 1 <= worker'.skip /\ worker'.skip <= worker'.target
                         /\ \A n \in worker'.old : notifiers'[n].version <= worker'.skip
        BY <3>2, <3>4, <4>1, <4>2
      <4> QED BY <4>1, <4>3, <4>4, <4>5 DEF RunFits
    <3> QED BY <3>1, <3>3, <3>5
  <2> QED BY <2>1, <2>2
<1> QED BY <1>1, <1>3, <1>6, <1>7, <1>8, <1>10, CoreFacts DEF Core, Parts, SkipFits

\* Where a part of a run goes, and with whom.
LEMMA RunTargetFacts ==
  ASSUME CoreInv, Underway
  PROVE  /\ RunTarget \in 1..MaxVersion /\ RunTarget \in Version
         /\ RunTarget <= worker.target /\ RunTarget <= latest
         /\ RunSet \subseteq Listed
         /\ \A n \in RunSet : notifiers[n].version <= RunTarget
BY CoreFacts DEF RunTarget, RunSet, RunFits, Skipping, Version

LEMMA RunNotifiersKeeps ==
  ASSUME CoreInv, RunNotifiers
  PROVE  Core' /\ CountKept
<1>1. /\ UNCHANGED <<latest, realm, skipVersion>> /\ worker.pc \in {"skipping", "running"}
      /\ notifiers' = [n \in Notifier |-> IF n \in RunSet THEN Run(notifiers[n], RunTarget)
                                          ELSE notifiers[n]]
      /\ worker' = [worker EXCEPT !.pc = IF worker.pc = "skipping" THEN "skipped" ELSE "ran"]
  BY DEF RunNotifiers
<1>2. ASSUME NEW n \in Notifier
      PROVE  LET s == notifiers[n]
                 r == notifiers'[n]
             IN /\ r \in NotifierState(Version)
                /\ r.place = s.place /\ r.alive = s.alive
                /\ r.version = s.version /\ r.hasRun = s.hasRun
                /\ r.index = s.index /\ r.count = s.count
                /\ r.haveCallbacks = s.haveCallbacks /\ r.callbacks = s.callbacks
  <2> DEFINE s == notifiers[n]
  <2>1. s \in NotifierState(1..MaxVersion) /\ MaxVersion \in Nat
    BY CoreFacts DEF Parts, Version
  <2>2. RunTarget \in 1..MaxVersion
    BY <1>1, RunTargetFacts DEF Underway
  <2>3. notifiers'[n] = IF n \in RunSet THEN Run(s, RunTarget) ELSE s
    BY <1>1
  <2> HIDE DEF s
  <2> QED BY <2>1, <2>2, <2>3, RunFacts DEF s, Version
<1>3. notifiers' \in [Notifier -> NotifierState(Version)]
  BY <1>1, <1>2
<1>4. /\ worker' \in WorkerState
      /\ worker'.target = worker.target /\ worker'.skip = worker.skip
      /\ worker'.old = worker.old /\ worker'.new = worker.new
      /\ worker.pc = "skipping" => worker'.pc = "skipped"
      /\ worker.pc = "running" => worker'.pc = "ran"
  BY <1>1, CoreFacts DEF Parts, WorkerState
<1>5. Underway /\ Underway' /\ (Skipping' <=> Skipping)
  BY <1>1, <1>4 DEF Underway, Skipping
<1>6. Listed' = Listed /\ ForRealm' = ForRealm
  BY <1>2 DEF Listed, ForRealm
<1>7. \A n \in Listed : /\ n \in Notifier /\ notifiers'[n].version = notifiers[n].version
                        /\ notifiers'[n].hasRun = notifiers[n].hasRun
  BY <1>2 DEF Listed
<1>8. RunFits' /\ SameVersion' /\ SkipFits'
  <2>1. RunFits'
    <3>1. RunFits /\ (Skipping => Underway)
      BY CoreFacts DEF Underway, Skipping
    <3>2. worker.old \subseteq Listed /\ worker.new \subseteq Listed
      BY <1>5, <3>1 DEF RunFits
    <3> QED BY <1>1, <1>4, <1>5, <1>6, <1>7, <3>1, <3>2 DEF RunFits
  <2>2. SameVersion'
    BY <1>6, <1>7, CoreFacts DEF SameVersion
  <2>3. SkipFits'
    BY <1>1, <1>4, <1>5, <1>6, <1>7, CoreFacts DEF SkipFits
  <2> QED BY <2>1, <2>2, <2>3
<1>9. Sound'
  BY <1>1, <1>2, CoreFacts DEF Sound, SoundState
<1>10. RealmFits' /\ CallingFits' /\ CountKept
  BY <1>1, <1>2, <1>6, CoreFacts DEF RealmFits, CallingFits, CountFits, Counted, CountKept, InDelivery
<1> QED BY <1>1, <1>3, <1>4, <1>8, <1>9, <1>10, CoreFacts DEF Core, Parts

\* What a hand-over does to each notifier, place apart.
HandedOver(s, r, here) ==
  /\ r.alive = s.alive /\ r.rows = s.rows
  /\ r.version = IF here THEN RunTarget ELSE s.version
  /\ here => r.hasRun /\ r.changes = {}
  /\ ~ here => r.hasRun = s.hasRun /\ r.changes = s.changes /\ r.callbacks = s.callbacks
  /\ r.index = s.index /\ r.count = s.count /\ r.haveCallbacks = s.haveCallbacks
  /\ here => Caught(s, r)

LEMMA HandOverFacts ==
  ASSUME CoreInv, HandOver, NEW n \in Notifier
  PROVE  LET s == notifiers[n]
             r == notifiers'[n]
         IN /\ r \in NotifierState(Version)
            /\ HandedOver(s, r, n \in RunSet)
            /\ worker.pc = "skipped" => r.place = s.place
            /\ worker.pc = "ran" =>
                 /\ s.place \in {"new", "main"} /\ ~ s.alive => r.place = "gone"
                 /\ s.place \notin {"new", "main"} \/ s.alive => r.place = s.place
<1> DEFINE s == notifiers[n]
           d == IF n \in RunSet THEN PrepareHandover(s, RunTarget) ELSE s
           r == notifiers'[n]
<1>1. s \in NotifierState(Version) /\ worker.pc \in {"skipped", "ran"}
  BY CoreFacts DEF Parts, HandOver
<1>2. RunTarget \in Version
  BY <1>1, RunTargetFacts DEF Underway
<1>3. /\ worker.pc = "skipped" => r = d
      /\ worker.pc = "ran" => r = CleanedUp(d)
  <2>1. CASE worker.pc = "skipped"
    BY <2>1 DEF HandOver
  <2>2. CASE worker.pc = "ran"
    BY <2>2 DEF HandOver
  <2> QED BY <1>1, <2>1, <2>2
<1>4. d \in NotifierState(Version) /\ HandedOver(s, d, n \in RunSet) /\ d.place = s.place
  <2> HIDE DEF s
  <2>1. CASE n \in RunSet
    <3> DEFINE p == PrepareHandover(s, RunTarget)
    <3>1. /\ p \in NotifierState(Version)
          /\ p.place = s.place /\ p.alive = s.alive /\ p.rows = s.rows
          /\ p.version = RunTarget /\ p.hasRun /\ p.changes = {}
          /\ p.index = s.index /\ p.count = s.count /\ p.haveCallbacks = s.haveCallbacks
          /\ Caught(s, p)
      BY <1>1, <1>2, PrepareHandoverFacts
    <3>2. d = p
      BY <2>1
    <3> HIDE DEF d, p
    <3> QED BY <2>1, <3>1, <3>2 DEF HandedOver
  <2>2. CASE n \notin RunSet
    <3>1. d = s
      BY <2>2
    <3> HIDE DEF d
    <3> QED BY <1>1, <2>2, <3>1 DEF HandedOver
  <2> QED BY <2>1, <2>2
<1> HIDE DEF s, d, r
<1>5. CASE worker.pc = "skipped"
  BY <1>3, <1>4, <1>5 DEF s, r
<1>6. CASE worker.pc = "ran"
  <2>1. r = CleanedUp(d)
    BY <1>3, <1>6
  <2>2. /\ r \in NotifierState(Version)
        /\ d.place \in {"new", "main"} /\ ~ d.alive => r.place = "gone"
        /\ d.place \notin {"new", "main"} \/ d.alive => r.place = d.place
        /\ r.alive = d.alive /\ r.version = d.version
        /\ r.hasRun = d.hasRun /\ r.rows = d.rows
        /\ r.changes = d.changes /\ r.index = d.index /\ r.count = d.count
        /\ r.haveCallbacks = d.haveCallbacks /\ r.callbacks = d.callbacks
    BY <1>4, <2>1, CleanedUpFacts
  <2>3. HandedOver(s, r, n \in RunSet)
    BY <1>4, <2>2 DEF HandedOver, Caught
  <2>4. d.alive = s.alive
    BY <1>4 DEF HandedOver
  <2> QED BY <1>4, <1>6, <2>2, <2>3, <2>4 DEF s, r
<1> QED BY <1>1, <1>5, <1>6

LEMMA HandOverKeeps ==
  ASSUME CoreInv, HandOver
  PROVE  Core' /\ CountKept
<1>1. UNCHANGED latest /\ worker.pc \in {"skipped", "ran"} /\ Underway
  BY DEF HandOver, Underway
<1>2. /\ RunTarget \in 1..MaxVersion /\ RunTarget \in Version
      /\ RunTarget <= worker.target /\ RunTarget <= latest
      /\ RunSet \subseteq Listed
      /\ \A n \in RunSet : notifiers[n].version <= RunTarget
  BY <1>1, RunTargetFacts
<1>3. \A n \in Notifier :
        LET s == notifiers[n]
            r == notifiers'[n]
        IN /\ r \in NotifierState(Version)
           /\ n \in RunSet => r.version = RunTarget /\ r.hasRun
           /\ n \notin RunSet => r.version = s.version /\ r.hasRun = s.hasRun
           /\ r.alive = s.alive
           /\ r.index = s.index /\ r.count = s.count /\ r.haveCallbacks = s.haveCallbacks
           /\ Len(r.callbacks) = Len(s.callbacks)
           /\ worker.pc = "skipped" => r.place = s.place
           /\ worker.pc = "ran" =>
                /\ s.place \in {"new", "main"} /\ ~ s.alive => r.place = "gone"
                /\ s.place \notin {"new", "main"} \/ s.alive => r.place = s.place
  BY HandOverFacts DEF HandedOver, Caught
<1>4. notifiers' \in [Notifier -> NotifierState(Version)]
  BY <1>3, CoreFacts DEF HandOver, Parts
<1>5. \A n \in Notifier : notifiers'[n].callbacks = <<>> <=> notifiers[n].callbacks = <<>>
  <2> SUFFICES ASSUME NEW n \in Notifier
               PROVE  notifiers'[n].callbacks = <<>> <=> notifiers[n].callbacks = <<>>
    OBVIOUS
  <2>1. notifiers'[n].callbacks \in Seq(CallbackState(Version))
    BY <1>3, NotifierFields
  <2>2. notifiers[n].callbacks \in Seq(CallbackState(Version))
    BY Fields DEF CoreInv
  <2> QED BY <1>3, <2>1, <2>2, EmptySeq
<1>6. Listed' \subseteq Listed /\ (worker.pc = "skipped" => Listed' = Listed)
      /\ ForRealm' = ForRealm
  BY <1>1, <1>3 DEF Listed, ForRealm
<1>7. Sound'
  <2> SUFFICES ASSUME NEW n \in Notifier
               PROVE  SoundState(notifiers'[n]) /\ notifiers'[n].version <= latest'
    BY DEF Sound
  <2> DEFINE s == notifiers[n]
             r == notifiers'[n]
  <2>1. SoundState(s) /\ s.version <= latest
    BY CoreFacts DEF Sound
  <2>2. r.place \in {s.place, "gone"} /\ (r.alive => r.place = s.place) /\ r.alive = s.alive
    BY <1>1, <1>3, Fields DEF CoreInv
  <2>3. n \in RunSet => s.place = "main"
    BY <1>2 DEF Listed
  <2>4. /\ r.alive => r.place \in {"new", "main"}
        /\ r.callbacks # <<>> => r.alive
        /\ r.haveCallbacks <=> r.callbacks # <<>>
        /\ -1 <= r.index /\ r.index < Len(r.callbacks)
    BY <1>3, <1>5, <2>1, <2>2 DEF SoundState
  <2>5. r.place \in {"none", "new"} => ~ r.hasRun
    BY <1>3, <2>1, <2>2, <2>3 DEF SoundState
  <2>6. r.place \in {"new", "main"} => r.version >= 1
    BY <1>2, <1>3, <2>1, <2>2 DEF SoundState
  <2>7. r.version <= latest
    BY <1>2, <1>3, <2>1
  <2> QED BY <1>1, <2>4, <2>5, <2>6, <2>7 DEF SoundState
<1>8. /\ realm' \in RealmState /\ realm'.version = realm.version
      /\ realm'.writing = realm.writing /\ realm'.pc = realm.pc
      /\ realm'.target = realm.target /\ realm'.package = realm.package
      /\ realm'.cur = realm.cur
  <2>1. realm \in RealmState
    BY CoreFacts DEF Parts
  <2>2. realm' = realm \/ realm' = [realm EXCEPT !.wait = "woken"]
    BY DEF HandOver
  <2> QED BY <2>1, <2>2 DEF RealmState
<1>9. RealmFits'
  BY <1>1, <1>6, <1>8, CoreFacts DEF RealmFits
<1>10. CallingFits' /\ CountKept
  <2>1. \A n \in Notifier : InDelivery(n)' <=> InDelivery(n)
    BY <1>8 DEF InDelivery
  <2>2. CallingFits'
    <3> SUFFICES ASSUME NEW n \in Notifier
                 PROVE  /\ InDelivery(n) => /\ notifiers'[n].hasRun
                                            /\ realm.target <= notifiers'[n].version
                        /\ notifiers'[n].index # -1 => \/ realm.pc = "calling" /\ n = realm.cur
                                                       \/ realm.pc = "beyond"
      BY <1>8, <2>1 DEF CallingFits
    <3>1. /\ InDelivery(n) => notifiers[n].hasRun /\ realm.target <= notifiers[n].version
          /\ notifiers[n].index # -1 => \/ realm.pc = "calling" /\ n = realm.cur
                                        \/ realm.pc = "beyond"
      BY CoreFacts DEF CallingFits
    <3>2. notifiers[n].version \in Int /\ realm.target \in Int
      BY Fields, CoreFacts DEF CoreInv
    <3>3. notifiers[n].version <= notifiers'[n].version /\ notifiers'[n].version \in Int
      BY <1>2, <1>3, <3>2
    <3> QED BY <1>3, <3>1, <3>2, <3>3
  <2>3. CountKept
    BY <1>3, <1>8, CoreFacts DEF CountFits, Counted, CountKept
  <2> QED BY <2>2, <2>3
<1>11. CASE worker.pc = "skipped"
  <2>1. /\ worker' = [worker EXCEPT !.pc = "running"] /\ UNCHANGED skipVersion
        /\ RunTarget = worker.skip /\ RunSet = worker.old
    BY <1>11 DEF HandOver, RunTarget, RunSet
  <2>2. /\ worker' \in WorkerState /\ worker'.pc = "running"
        /\ worker'.target = worker.target
        /\ worker'.old = worker.old /\ worker'.new = worker.new
    BY <2>1, CoreFacts DEF Parts, WorkerState
  <2>3. Underway' /\ ~ Skipping'
    BY <2>2 DEF Underway, Skipping
  <2>4. /\ Listed = worker.old \cup worker.new /\ worker.old \cap worker.new = {}
        /\ \A n \in worker.new : ~ notifiers[n].hasRun
        /\ 1 <= worker.target /\ worker.target <= latest
        /\ \A n \in Listed : notifiers[n].version <= worker.target
    BY <1>1, CoreFacts DEF RunFits
  <2>5. \A n \in worker.new : n \notin RunSet /\ ~ notifiers'[n].hasRun
    BY <1>3, <2>1, <2>4, CoreFacts
  <2>6. \A n \in Listed' : notifiers'[n].version <= worker.target
    BY <1>2, <1>3, <1>6, <2>4 DEF Listed
  <2>7. \A n \in worker.old : notifiers'[n].hasRun /\ notifiers'[n].version = RunTarget
    BY <1>3, <2>1, CoreFacts
  <2>8. RunFits'
    BY <1>1, <1>6, <1>11, <2>2, <2>3, <2>4, <2>5, <2>6, <2>7 DEF RunFits
  <2>9. SameVersion'
    BY <1>6, <1>11, <2>4, <2>5, <2>7 DEF SameVersion
  <2>10. SkipFits'
    <3>1. /\ skipVersion # 0 => Listed # {} /\ skipVersion <= latest
          /\ skipVersion # 0 => worker.target < skipVersion
      BY <1>1, CoreFacts DEF SkipFits
    <3>2. \A n \in Listed' : notifiers'[n].version \in Int
      BY <1>2, <1>3, Fields DEF Listed, CoreInv
    <3>3. skipVersion # 0 => \A n \in Listed' : notifiers'[n].version <= skipVersion
      BY <2>6, <3>1, <3>2, CoreFacts
    <3> QED BY <1>1, <1>6, <1>11, <2>1, <2>2, <3>1, <3>3 DEF SkipFits
  <2> QED BY <1>1, <1>4, <1>7, <1>8, <1>9, <1>10, <2>1, <2>2, <2>8, <2>9, <2>10, CoreFacts
          DEF Core, Parts
<1>12. CASE worker.pc = "ran"
  <2>1. /\ worker' = [worker EXCEPT !.pc = "notifying"]
        /\ skipVersion' = SkipAfterCleanUp
        /\ RunTarget = worker.target /\ RunSet = worker.old \cup worker.new
    BY <1>12 DEF HandOver, RunTarget, RunSet
  <2>2. worker' \in WorkerState /\ worker'.pc = "notifying"
    BY <2>1, CoreFacts DEF Parts, WorkerState
  <2>3. ~ Underway' /\ ~ Skipping'
    BY <2>2 DEF Underway, Skipping
  <2>4. RunSet = Listed
    BY <1>1, <2>1, CoreFacts DEF RunFits
  <2>5. \A n \in Listed' : notifiers'[n].hasRun /\ notifiers'[n].version = RunTarget
    BY <1>3, <1>6, <2>4 DEF Listed
  <2>6. RunFits' /\ SameVersion'
    BY <2>3, <2>5 DEF RunFits, SameVersion
  <2>7. SkipFits'
    <3> SUFFICES ASSUME skipVersion' # 0
                 PROVE  /\ Listed' # {} /\ skipVersion' <= latest'
                        /\ \A n \in Listed' : notifiers'[n].version <= skipVersion'
      BY <2>3 DEF SkipFits
    <3>1. skipVersion' = skipVersion /\ skipVersion # 0 /\ Alive("main") # {}
      BY <2>1, SkipAfterCleanUpFacts
    <3>2. worker.target < skipVersion /\ skipVersion <= latest
      BY <1>1, <3>1, CoreFacts DEF SkipFits
    <3>3. Listed' # {}
      BY <1>3, <1>12, <3>1 DEF Alive, Listed
    <3> QED BY <1>1, <1>2, <2>1, <2>5, <3>1, <3>2, <3>3, CoreFacts
  <2>8. skipVersion' \in 0..MaxVersion
    BY <2>1, SkipAfterCleanUpFacts, CoreFacts
  <2> QED BY <1>1, <1>4, <1>7, <1>8, <1>9, <1>10, <2>2, <2>6, <2>7, <2>8, CoreFacts
          DEF Core, Parts
<1> QED BY <1>1, <1>11, <1>12

LEMMA HistoryKeeps ==
  ASSUME CoreInv, [Next]_vars
  PROVE  HistoryOK'
<1>1. HistoryOK
  BY DEF CoreInv, TypeOK, HistoryOK
<1>2. latest < MaxVersion => latest + 1 \in Version
  BY CoreFacts DEF Version
<1>3. Excuse = {"uncounted", "unwoken", "unheard", "unread", "jumped", "abandoned"}
  BY DEF Excuse
<1>4. /\ pipe' \in BOOLEAN /\ signal' \in BOOLEAN /\ owed' \in BOOLEAN
  <2>1. CASE Collections
    BY <1>1, <2>1 DEF Collections, Register, Release, Add, Remove, HistoryOK
  <2>2. CASE Main
    BY <1>1, <2>2 DEF Main, Notify, Refresh, FallAsleep, SendPackage, CallNext, HistoryOK
  <2>3. CASE Writes
    BY <1>1, <2>3 DEF Writes, Begin, BeginInCallback, SuppressTokens, Commit, Cancel, HistoryOK
  <2>4. CASE OtherCommit \/ OtherNotify \/ UNCHANGED vars
    BY <1>1, <2>4 DEF OtherCommit, OtherNotify, HistoryOK, vars
  <2>5. CASE Worker
    BY <1>1, <2>5 DEF Worker, RunBegins, RunNotifiers, HandOver, NotifyRealms, HistoryOK
  <2> QED BY <2>1, <2>2, <2>3, <2>4, <2>5 DEF Next
<1>5. told' \in [Token -> SUBSET Version]
  <2>1. CASE \E n \in Notifier, t \in Token : Add(n, t)
    BY <1>1, <2>1, VersionIsNat DEF Add, HistoryOK
  <2>2. ASSUME NEW n \in Notifier, CallNext(n)
        PROVE  told' \in [Token -> SUBSET Version]
    <3>1. CASE Ends(n)
      BY <1>1, <3>1 DEF HistoryOK, Ends
    <3>2. CASE \E k \in Int : Calls(n, k)
      <4>1. PICK k \in Int : Calls(n, k)
        BY <3>2
      <4> DEFINE c == notifiers[n].callbacks[k + 1]
                 now == IF c.initialDelivered THEN told[c.token] \cup c.deliver
                        ELSE told[c.token] \cup ((1..realm.target) \ hushed[c.token])
      <4>2. notifiers[n] \in NotifierState(Version) /\ k + 1 \in DOMAIN notifiers[n].callbacks
        BY <4>1, CoreFacts DEF Calls, Parts
      <4>3. c.token \in Token /\ c.deliver \in SUBSET Version
        BY <4>2, CallbackFields
      <4>4. told' = [told EXCEPT ![c.token] = now]
        BY <4>1 DEF Calls
      <4>5. now \in SUBSET Version
        BY <1>1, <4>3, CoreFacts DEF HistoryOK, Version
      <4> HIDE DEF now, c
      <4> QED BY <1>1, <4>4, <4>5 DEF HistoryOK
    <3>3. CASE RunsPast(n)
      BY <1>1, <3>3 DEF HistoryOK, RunsPast
    <3> QED BY <2>2, <3>1, <3>2, <3>3, CallNextCases
  <2>3. CASE UNCHANGED told
    BY <1>1, <2>3 DEF HistoryOK
  <2> QED BY <2>1, <2>2, <2>3
          DEF Next, vars, Collections, Main, Writes, Worker,
              Register, Release, Remove, Notify, Refresh, FallAsleep, SendPackage,
              Begin, BeginInCallback, SuppressTokens, Commit, Cancel,
              OtherCommit, OtherNotify, RunBegins, RunNotifiers, HandOver, NotifyRealms
<1>6. hushed' \in [Token -> SUBSET Version]
  <2>1. ASSUME NEW tokens \in SUBSET Token, SuppressTokens(tokens)
        PROVE  hushed' \in [Token -> SUBSET Version]
    BY <1>1, <1>2, <2>1 DEF SuppressTokens, HistoryOK
  <2>2. CASE UNCHANGED hushed
    BY <1>1, <2>2 DEF HistoryOK
  <2> QED BY <2>1, <2>2
          DEF Next, vars, Collections, Main, Writes, Worker,
              Register, Release, Add, Remove, Notify, Refresh, FallAsleep, SendPackage,
              CallNext, Begin, BeginInCallback, Commit, Cancel,
              OtherCommit, OtherNotify, RunBegins, RunNotifiers, HandOver, NotifyRealms
<1>7. excuses' \in SUBSET Excuse
  <2>1. CASE Collections
    BY <1>1, <1>3, <2>1 DEF Collections, Register, Release, Add, Remove, HistoryOK
  <2>2. CASE Main
    BY <1>1, <2>2 DEF Main, Notify, NotifyInWrite, ProcessAvailable, AdvanceToReady,
                      Refresh, FallAsleep, SendPackage, CallNext, HistoryOK
  <2>3. CASE Writes
    BY <1>1, <1>3, <2>3
       DEF Writes, Begin, BeginInCallback, SuppressTokens, Commit, Cancel, HistoryOK
  <2>4. CASE OtherCommit \/ OtherNotify \/ UNCHANGED vars
    BY <1>1, <2>4 DEF OtherCommit, OtherNotify, HistoryOK, vars
  <2>5. CASE Worker
    BY <1>1, <1>3, <2>5 DEF Worker, RunBegins, RunNotifiers, HandOver, NotifyRealms, HistoryOK
  <2> QED BY <2>1, <2>2, <2>3, <2>4, <2>5 DEF Next
<1> QED BY <1>4, <1>5, <1>6, <1>7 DEF HistoryOK

\* An excuse is never forgotten.
LEMMA UncountedStays ==
  ASSUME [Next]_vars, "uncounted" \in excuses
  PROVE  "uncounted" \in excuses'
<1>1. CASE Collections
  BY <1>1 DEF Collections, Register, Release, Add, Remove
<1>2. CASE Main
  BY <1>2 DEF Main, Notify, NotifyInWrite, ProcessAvailable, AdvanceToReady,
              Refresh, FallAsleep, SendPackage, CallNext
<1>3. CASE Writes
  BY <1>3 DEF Writes, Begin, BeginInCallback, SuppressTokens, Commit, Cancel
<1>4. CASE OtherCommit \/ OtherNotify \/ UNCHANGED vars
  BY <1>4 DEF OtherCommit, OtherNotify, vars
<1>5. CASE Worker
  BY <1>5 DEF Worker, RunBegins, RunNotifiers, HandOver, NotifyRealms
<1> QED BY <1>1, <1>2, <1>3, <1>4, <1>5 DEF Next

LEMMA StepsKeepCore ==
  ASSUME CoreInv, [Next]_vars
  PROVE  CoreInv'
<1>1. Core' /\ CountKept
  <2>1. CASE UNCHANGED vars
    BY <2>1, CoreParts
       DEF Core, vars, Parts, Sound, RunFits, SameVersion, SkipFits, RealmFits,
           CallingFits, CountFits, Counted, CountKept, Underway, Skipping, Listed, ForRealm, InDelivery
  <2>2. CASE Collections
    BY <2>2, RegisterKeeps, ReleaseKeeps, AddKeeps, RemoveKeeps DEF Collections
  <2>3. CASE Main
    BY <2>3, DeliveryKeeps, WaitingKeeps, CallNextKeeps, RunsPastKeeps DEF Main
  <2>4. CASE Writes
    BY <2>4, WaitingKeeps, BeginInCallbackKeeps, SuppressTokensKeeps, CommitKeeps,
       SmallStepsKeep DEF Writes
  <2>5. CASE OtherCommit \/ OtherNotify
    BY <2>5, SmallStepsKeep
  <2>6. CASE Worker
    BY <2>6, RunBeginsKeeps, RunNotifiersKeeps, HandOverKeeps, NotifyRealmsKeeps DEF Worker
  <2> QED BY <2>1, <2>2, <2>3, <2>4, <2>5, <2>6 DEF Next
<1>2. HistoryOK'
  BY HistoryKeeps
<1>3. CountFitsIfCounted'
  <2>1. "uncounted" \notin excuses => Counted
    BY DEF CoreInv, CountFitsIfCounted, Counted
  <2> QED BY <1>1, <2>1, UncountedStays DEF CountFitsIfCounted, CountKept, Counted
<1> QED BY <1>1, <1>2, <1>3
        DEF CoreInv, Core, Parts, HistoryOK, TypeOK, RealmState, WorkerState

LEMMA CoreAlways == Spec => []CoreInv
<1>1. CoreInv /\ [Next]_vars => CoreInv'
  BY StepsKeepCore
<1> QED BY InitCore, <1>1, PTL DEF Spec

\* The type invariant: the versions of the Realm, the notifiers and the runs
\* stay in the file, and packages hold notifiers.
THEOREM TypeCorrect == Spec => []TypeOK
<1>1. CoreInv => TypeOK
  BY DEF CoreInv
<1> QED BY CoreAlways, <1>1, PTL

\* Between two steps of the worker all notifiers that have run are at one
\* version, so that _impl::NotifierPackage may take the version of any one.
THEOREM OneVersionAlways == Spec => []OneVersion
<1>1. CoreInv => OneVersion
  <2> SUFFICES ASSUME CoreInv, NEW m \in Notifier, NEW n \in Notifier,
                      HaveRun({m, n}) = {m, n}
               PROVE  notifiers[m].version = notifiers[n].version
    BY DEF OneVersion
  <2>1. m \in HaveRun({m, n}) /\ n \in HaveRun({m, n})
    OBVIOUS
  <2>2. notifiers[m].hasRun /\ notifiers[m].alive /\ notifiers[n].hasRun /\ notifiers[n].alive
    BY <2>1 DEF HaveRun
  <2>3. SoundState(notifiers[m]) /\ SoundState(notifiers[n])
    BY CoreFacts DEF Sound
  <2>4. m \in Listed /\ n \in Listed
    BY <2>2, <2>3 DEF SoundState, Listed
  <2> QED BY <2>2, <2>4, CoreFacts DEF SameVersion
<1> QED BY CoreAlways, <1>1, PTL

\* The assertions of run_async_notifiers about the version to skip: it is not
\* older than any notifier that runs to it nor newer than the run's own, and a
\* version noted meanwhile lies ahead of the run.
THEOREM SkipsForwardAlways == Spec => []SkipsForward
<1>1. CoreInv => SkipsForward
  <2> SUFFICES ASSUME CoreInv, worker.pc \in {"skipping", "skipped"}
               PROVE  /\ worker.old # {} /\ worker.skip <= worker.target
                      /\ \A n \in worker.old : notifiers[n].version <= worker.skip
                      /\ skipVersion # 0 => skipVersion > worker.target
    BY DEF SkipsForward
  <2>1. Skipping /\ Underway
    BY DEF Skipping, Underway
  <2> QED BY <2>1, CoreFacts DEF RunFits, SkipFits
<1> QED BY CoreAlways, <1>1, PTL

\* The loop over the callbacks stays within them: as long as no callback is
\* removed that was added during the delivery, the number of callbacks that were
\* packaged, less those removed since, never exceeds those that are there, and
\* the loop does not run past them.
THEOREM CountFitsIfCountedAlways == Spec => []CountFitsIfCounted
<1>1. CoreInv => CountFitsIfCounted
  BY DEF CoreInv
<1> QED BY CoreAlways, <1>1, PTL
=============================================================================
