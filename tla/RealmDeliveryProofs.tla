------------------------ MODULE RealmDeliveryProofs -------------------------
(***************************************************************************)
(* What reaches the callbacks: what has accumulated for each, what is on   *)
(* its way to it and what it was told.  DeliveryInv, on top of the core,   *)
(* says that nothing is told before the Realm reads it, nor twice.         *)
(***************************************************************************)
EXTENDS RealmCoordinatorProofs

\* The worker has computed the changes of n and not handed them over.
Computed(n) == worker.pc \in {"skipped", "ran"} /\ n \in RunSet

\* Changes lead from the notifier's version to the one its run goes to.  When
\* it did not run for its version they may reach further back ("unread").
ChangesFit ==
  \A n \in Notifier :
    LET s == notifiers[n] IN
    /\ ~ Computed(n) => s.changes = {} /\ s.rows <= s.version
    /\ Computed(n) =>
         /\ s.rows <= RunTarget
         /\ \/ s.changes = {}
            \/ /\ s.hasRun
               /\ (s.version + 1)..RunTarget \subseteq s.changes
               /\ s.changes \subseteq 1..RunTarget
         /\ "unread" \notin excuses => s.changes \subseteq (s.version + 1)..RunTarget

\* What waits for a callback is not newer than its notifier, what is delivered
\* not newer than what the Realm reads, and each is news.
CallbackFits(n, c) ==
  LET s == notifiers[n] IN
  /\ c.accumulated \subseteq 1..s.version
  /\ ~ s.hasRun => c.accumulated = {} /\ ~ c.initialDelivered
  /\ told[c.token] # {} /\ told[c.token] \subseteq 1..s.version
  /\ ~ c.initialDelivered => told[c.token] = {1}
  /\ InDelivery(n) => c.deliver \subseteq 1..realm.target
  /\ "unread" \notin excuses =>
       /\ InDelivery(n) => c.accumulated \subseteq (realm.target + 1)..s.version
       /\ c.initialDelivered =>
            /\ c.accumulated \cap told[c.token] = {}
            /\ InDelivery(n) => c.deliver \cap told[c.token] = {}

CallbacksFit ==
  \A n \in Notifier : \A j \in DOMAIN notifiers[n].callbacks :
    CallbackFits(n, notifiers[n].callbacks[j])

\* A token is in use once.
Distinct(s) ==
  \A i, j \in DOMAIN s.callbacks : s.callbacks[i].token = s.callbacks[j].token => i = j

TokensFit ==
  /\ \A n \in Notifier : Distinct(notifiers[n])
  /\ \A m, n \in Notifier : m # n => Tokens(notifiers[m]) \cap Tokens(notifiers[n]) = {}

DeliveryInv == ChangesFit /\ CallbacksFit /\ TokensFit /\ ToldOfWhatIsRead

LEMMA InitDelivery == Init => DeliveryInv
<1> SUFFICES ASSUME Init PROVE DeliveryInv
  OBVIOUS
<1>1. \A n \in Notifier : notifiers[n] = Unregistered
  BY DEF Init
<1>2. \A n \in Notifier : DOMAIN notifiers[n].callbacks = {}
  BY <1>1 DEF Unregistered
<1>3. ChangesFit
  BY <1>1 DEF Init, ChangesFit, Computed, Unregistered
<1>4. CallbacksFit /\ TokensFit
  BY <1>2 DEF CallbacksFit, TokensFit, Distinct, Tokens
<1>5. ToldOfWhatIsRead
  BY DEF Init, ToldOfWhatIsRead
<1> QED BY <1>3, <1>4, <1>5 DEF DeliveryInv

LEMMA ExcusesGrow ==
  ASSUME [Next]_vars
  PROVE  excuses \subseteq excuses'
<1>1. CASE Collections
  BY <1>1 DEF Collections, Register, Release, Add, Remove
<1>2. CASE Main
  BY <1>2 DEF Main, Notify, NotifyInWrite, ProcessAvailable, AdvanceToReady,
              Refresh, FallAsleep, SendPackage, CallNext
<1>3. CASE Writes
  BY <1>3 DEF Writes, Begin, BeginInCallback, SuppressTokens, Commit, Cancel
<1>4. CASE OtherCommit \/ OtherNotify \/ UNCHANGED vars
  BY <1>4 DEF OtherCommit, OtherNotify, vars
<1>5. CASE Worker
  BY <1>5 DEF Worker, RunBegins, RunNotifiers, HandOver, NotifyRealms
<1> QED BY <1>1, <1>2, <1>3, <1>4, <1>5 DEF Next

\* Two callbacks that differ in skipNext at most.
Alike(c, d) ==
  /\ d.token = c.token /\ d.accumulated = c.accumulated
  /\ d.deliver = c.deliver /\ d.initialDelivered = c.initialDelivered

\* The callbacks of r are some of those of s.
From(s, r) ==
  /\ \A j \in DOMAIN r.callbacks :
       \E i \in DOMAIN s.callbacks : Alike(s.callbacks[i], r.callbacks[j])
  /\ Distinct(s) => Distinct(r)

\* A step that delivers and tells nothing.
Gentle ==
  /\ \A n \in Notifier :
       /\ From(notifiers[n], notifiers'[n])
       /\ \/ notifiers'[n].callbacks = <<>>
          \/ /\ notifiers'[n].version = notifiers[n].version
             /\ notifiers'[n].hasRun = notifiers[n].hasRun
       /\ InDelivery(n)' => InDelivery(n) /\ realm'.target = realm.target
  /\ realm.version <= realm'.version
  /\ UNCHANGED told /\ excuses \subseteq excuses'

LEMMA FromTokens ==
  ASSUME NEW s, NEW r, From(s, r)
  PROVE  Tokens(r) \subseteq Tokens(s)
BY DEF From, Tokens, Alike

LEMMA GentleKeeps ==
  ASSUME CoreInv, CoreInv', DeliveryInv, Gentle
  PROVE  CallbacksFit' /\ TokensFit' /\ ToldOfWhatIsRead'
<1>1. CallbacksFit'
  <2> SUFFICES ASSUME NEW n \in Notifier, NEW j \in DOMAIN notifiers'[n].callbacks
               PROVE  CallbackFits(n, notifiers[n].callbacks[j])'
    BY DEF CallbacksFit
  <2> DEFINE s == notifiers[n]
             d == notifiers'[n].callbacks[j]
  <2>1. PICK i \in DOMAIN s.callbacks : Alike(s.callbacks[i], d)
    BY DEF Gentle, From
  <2>2. CallbackFits(n, s.callbacks[i])
    BY DEF DeliveryInv, CallbacksFit
  <2>3. notifiers'[n].callbacks # <<>>
    OBVIOUS
  <2>4. /\ notifiers'[n].version = s.version /\ notifiers'[n].hasRun = s.hasRun
        /\ UNCHANGED told /\ excuses \subseteq excuses'
        /\ InDelivery(n)' => InDelivery(n) /\ realm'.target = realm.target
    BY <2>3 DEF Gentle
  <2> QED BY <2>1, <2>2, <2>4 DEF CallbackFits, Alike
<1>2. TokensFit'
  <2>1. \A n \in Notifier : Tokens(notifiers'[n]) \subseteq Tokens(notifiers[n])
    BY FromTokens DEF Gentle
  <2>2. \A n \in Notifier : Distinct(notifiers'[n])
    BY DEF Gentle, From, DeliveryInv, TokensFit
  <2> QED BY <2>1, <2>2 DEF DeliveryInv, TokensFit
<1>3. ToldOfWhatIsRead'
  <2>1. realm.version \in Int /\ realm'.version \in Int
    BY MaxVersionAssumption DEF CoreInv, TypeOK, Version
  <2>2. 1..realm.version \subseteq 1..realm'.version
    BY <2>1 DEF Gentle
  <2> QED BY <2>2 DEF Gentle, DeliveryInv, ToldOfWhatIsRead
<1> QED BY <1>1, <1>2, <1>3

LEMMA FromItself == ASSUME NEW s, NEW r, r.callbacks = s.callbacks PROVE From(s, r)
BY DEF From, Alike, Distinct

LEMMA FromEmpty == ASSUME NEW s, NEW r, r.callbacks = <<>> PROVE From(s, r)
<1>1. DOMAIN r.callbacks = {}
  OBVIOUS
<1> QED BY <1>1 DEF From, Distinct

LEMMA FromRemoved ==
  ASSUME NEW s \in NotifierState(Version), NEW t \in Tokens(s)
  PROVE  From(s, RemoveCallback(s, t))
<1> DEFINE r == RemoveCallback(s, t)
           i == PositionOf(s, t)
<1>1. /\ r \in NotifierState(Version)
      /\ \A j \in DOMAIN r.callbacks :
           /\ (j < i => j \in DOMAIN s.callbacks /\ r.callbacks[j] = s.callbacks[j])
           /\ (j >= i => j + 1 \in DOMAIN s.callbacks
                         /\ r.callbacks[j] = s.callbacks[j + 1])
      /\ i \in DOMAIN s.callbacks
  BY RemoveCallbackFacts
<1>2. DOMAIN r.callbacks \subseteq Nat /\ DOMAIN s.callbacks \subseteq Nat
  BY <1>1, NotifierFields, LenProperties
<1> HIDE DEF r, i
<1>3. ASSUME NEW j \in DOMAIN r.callbacks
      PROVE  \E k \in DOMAIN s.callbacks : k = (IF j < i THEN j ELSE j + 1)
                                           /\ r.callbacks[j] = s.callbacks[k]
  BY <1>1, <1>2
<1>4. \A j \in DOMAIN r.callbacks :
        \E k \in DOMAIN s.callbacks : Alike(s.callbacks[k], r.callbacks[j])
  BY <1>3 DEF Alike
<1>5. ASSUME Distinct(s), NEW j \in DOMAIN r.callbacks, NEW k \in DOMAIN r.callbacks,
             r.callbacks[j].token = r.callbacks[k].token
      PROVE  j = k
  <2>1. PICK a \in DOMAIN s.callbacks : a = (IF j < i THEN j ELSE j + 1)
                                        /\ r.callbacks[j] = s.callbacks[a]
    BY <1>3
  <2>2. PICK b \in DOMAIN s.callbacks : b = (IF k < i THEN k ELSE k + 1)
                                        /\ r.callbacks[k] = s.callbacks[b]
    BY <1>3
  <2>3. a = b
    BY <1>5, <2>1, <2>2 DEF Distinct
  <2>4. j \in Int /\ k \in Int /\ i \in Int
    BY <1>1, <1>2
  <2> QED BY <2>1, <2>2, <2>3, <2>4
<1> QED BY <1>4, <1>5 DEF From, Distinct, r

LEMMA FromSuppressed ==
  ASSUME NEW s \in NotifierState(Version), NEW tokens \in SUBSET Token
  PROVE  From(s, Suppress(s, tokens))
<1> DEFINE r == Suppress(s, tokens)
<1>1. /\ DOMAIN r.callbacks = DOMAIN s.callbacks
      /\ \A j \in DOMAIN s.callbacks :
           /\ r.callbacks[j].token = s.callbacks[j].token
           /\ r.callbacks[j].accumulated = s.callbacks[j].accumulated
           /\ r.callbacks[j].deliver = s.callbacks[j].deliver
           /\ r.callbacks[j].initialDelivered = s.callbacks[j].initialDelivered
  BY SuppressFacts
<1> HIDE DEF r
<1> QED BY <1>1 DEF From, Alike, Distinct, r

\* The notifier's own loop, the main thread's waits and writes, the removal
\* of callbacks and most of what the worker does are gentle.
GentleStep ==
  \/ \E n \in Notifier : \/ Register(n) \/ Release(n)
                         \/ \E t \in Token : Remove(n, t)
                         \/ (CallNext(n) /\ Ends(n))
                         \/ (CallNext(n) /\ RunsPast(n))
  \/ (Refresh /\ ForRealm # {}) \/ Begin \/ FallAsleep \/ BeginInCallback
  \/ \E tokens \in SUBSET Token : SuppressTokens(tokens)
  \/ Commit \/ Cancel \/ OtherCommit \/ OtherNotify
  \/ RunBegins \/ RunNotifiers \/ NotifyRealms \/ UNCHANGED vars

\* What a notifier has computed, and where it stands, is the worker's.
Untouched(s, r) ==
  /\ r.version = s.version /\ r.hasRun = s.hasRun
  /\ r.changes = s.changes /\ r.rows = s.rows

LEMMA GentleNotifiers ==
  ASSUME CoreInv, GentleStep, NEW n \in Notifier
  PROVE  /\ From(notifiers[n], notifiers'[n])
         /\ \/ Untouched(notifiers[n], notifiers'[n])
            \/ /\ Register(n)
               /\ notifiers'[n].callbacks = <<>> /\ ~ notifiers'[n].hasRun
               /\ notifiers'[n].changes = {} /\ notifiers'[n].rows = 0
               /\ notifiers'[n].version >= 1
            \/ /\ RunNotifiers
               /\ notifiers'[n].version = notifiers[n].version
               /\ notifiers'[n].hasRun = notifiers[n].hasRun
<1> DEFINE s == notifiers[n]
           r == notifiers'[n]
<1>1. s \in NotifierState(Version) /\ notifiers \in [Notifier -> NotifierState(Version)]
  BY CoreFacts DEF Parts
<1>2. ASSUME UNCHANGED s
      PROVE  From(s, r) /\ Untouched(s, r)
  BY <1>2, FromItself DEF Untouched
<1>3. ASSUME NEW m \in Notifier, Register(m)
      PROVE  \/ UNCHANGED s
             \/ /\ m = n /\ From(s, r)
                /\ r.callbacks = <<>> /\ ~ r.hasRun /\ r.changes = {} /\ r.rows = 0
                /\ r.version >= 1
  <2>1. CASE m # n
    BY <1>1, <1>3, <2>1 DEF Register
  <2>2. CASE m = n
    <3>1. r = Registered(realm.version) /\ realm.version \in Version
      BY <1>1, <1>3, <2>2, CoreFacts DEF Register, Version
    <3> DEFINE q == Registered(realm.version)
    <3>2. q.callbacks = <<>> /\ ~ q.hasRun /\ q.changes = {} /\ q.rows = 0
          /\ q.version = realm.version
      <4>1. realm.version \in Version
        BY <3>1
      <4> QED BY <4>1, RegisteredFacts
    <3> HIDE DEF s, r, q
    <3>3. r = q
      BY <3>1 DEF q
    <3> QED BY <2>2, <3>2, <3>3, FromEmpty, CoreFacts
  <2> QED BY <2>1, <2>2
<1>4. ASSUME NEW m \in Notifier, Release(m)
      PROVE  From(s, r) /\ Untouched(s, r)
  <2>1. CASE m # n
    BY <1>1, <1>2, <1>4, <2>1 DEF Release
  <2>2. CASE m = n
    <3>1. r = Unregister(s)
      BY <1>1, <1>4, <2>2 DEF Release
    <3> HIDE DEF s, r
    <3> QED BY <1>1, <3>1, UnregisterFacts, FromItself DEF Untouched
  <2> QED BY <2>1, <2>2
<1>5. ASSUME NEW m \in Notifier, NEW t \in Token, Remove(m, t)
      PROVE  From(s, r) /\ Untouched(s, r)
  <2>1. CASE m # n
    BY <1>1, <1>2, <1>5, <2>1 DEF Remove
  <2>2. CASE m = n
    <3>1. r = RemoveCallback(s, t) /\ t \in Tokens(s)
      BY <1>1, <1>5, <2>2 DEF Remove
    <3> HIDE DEF s, r
    <3>2. Apart(s, r) /\ r.changes = s.changes
      BY <1>1, <3>1, RemoveCallbackFacts
    <3> QED BY <1>1, <3>1, <3>2, FromRemoved DEF Untouched, Apart
  <2> QED BY <2>1, <2>2
<1>6. ASSUME NEW m \in Notifier, Ends(m)
      PROVE  From(s, r) /\ Untouched(s, r)
  <2>1. CASE m # n
    BY <1>1, <1>2, <1>6, <2>1 DEF Ends
  <2>2. CASE m = n
    <3>1. r = LoopEnds(s)
      BY <1>1, <1>6, <2>2 DEF Ends
    <3> HIDE DEF s, r
    <3> QED BY <1>1, <3>1, LoopEndsFacts, FromItself DEF Untouched, Apart
  <2> QED BY <2>1, <2>2
<1>7. ASSUME NEW tokens \in SUBSET Token, SuppressTokens(tokens)
      PROVE  From(s, r) /\ Untouched(s, r)
  <2>1. r = Suppress(s, tokens)
    BY <1>7 DEF SuppressTokens
  <2> HIDE DEF s, r
  <2>2. Apart(s, r) /\ r.changes = s.changes
    BY <1>1, <2>1, SuppressFacts
  <2> QED BY <1>1, <2>1, <2>2, FromSuppressed DEF Untouched, Apart
<1>8. ASSUME RunBegins
      PROVE  From(s, r) /\ Untouched(s, r)
  <2>1. r = s \/ r = [s EXCEPT !.place = "main"] \/ r = [s EXCEPT !.place = "gone"]
    BY <1>8 DEF RunBegins, CleanedUp
  <2> HIDE DEF s, r
  <2>2. r.callbacks = s.callbacks /\ Untouched(s, r)
    BY <1>1, <2>1 DEF NotifierState, Untouched
  <2> QED BY <2>2, FromItself
<1>9. ASSUME RunNotifiers
      PROVE  From(s, r) /\ r.version = s.version /\ r.hasRun = s.hasRun
  <2>1. r = IF n \in RunSet THEN Run(s, RunTarget) ELSE s
    BY <1>9 DEF RunNotifiers
  <2>2. RunTarget \in 1..MaxVersion /\ MaxVersion \in Nat
    BY <1>9, RunTargetFacts, CoreFacts DEF RunNotifiers, Underway
  <2>3. s \in NotifierState(1..MaxVersion)
    BY <1>1 DEF Version
  <2> HIDE DEF s, r
  <2>4. r.callbacks = s.callbacks /\ r.version = s.version /\ r.hasRun = s.hasRun
    BY <2>1, <2>2, <2>3, RunFacts
  <2> QED BY <2>4, FromItself
<1>10. ASSUME UNCHANGED notifiers
       PROVE  From(s, r) /\ Untouched(s, r)
  BY <1>2, <1>10
<1>11. ASSUME \/ (Refresh /\ ForRealm # {}) \/ Begin \/ FallAsleep \/ BeginInCallback
              \/ Commit \/ Cancel \/ OtherCommit \/ OtherNotify
              \/ NotifyRealms \/ UNCHANGED vars
       PROVE  UNCHANGED notifiers
  BY <1>11 DEF Refresh, Begin, FallAsleep, BeginInCallback, Commit, Cancel,
               OtherCommit, OtherNotify, NotifyRealms, vars
<1>13. ASSUME NEW m \in Notifier, RunsPast(m)
       PROVE  UNCHANGED notifiers
  BY <1>13 DEF RunsPast
<1> HIDE DEF s, r
<1>12. CASE \E m \in Notifier : Register(m)
  BY <1>2, <1>3, <1>12 DEF s, r
<1> QED BY <1>4, <1>5, <1>6, <1>7, <1>8, <1>9, <1>10, <1>11, <1>12, <1>13
        DEF GentleStep, s, r

LEMMA GentleMain ==
  ASSUME CoreInv, GentleStep, [Next]_vars
  PROVE  /\ \A n \in Notifier : InDelivery(n)' => InDelivery(n) /\ realm'.target = realm.target
         /\ realm.version <= realm'.version /\ UNCHANGED told
<1>1. /\ realm \in RealmState /\ realm.version \in Int /\ latest \in Int
      /\ realm.version <= latest /\ realm.cur \notin realm.package
      /\ realm.pc # "calling" => realm.cur = NoOne
  BY CoreFacts DEF Parts, RealmFits
<1>2. CASE UNCHANGED realm
  <2>1. UNCHANGED told
    BY <1>2 DEF GentleStep, Register, Release, Remove, Ends, RunsPast, Refresh, Begin, FallAsleep,
                BeginInCallback, SuppressTokens, Commit, Cancel, OtherCommit, OtherNotify,
                RunBegins, RunNotifiers, NotifyRealms, vars
  <2> QED BY <1>1, <1>2, <2>1 DEF InDelivery
<1>3. CASE \E n \in Notifier : Ends(n) /\ CallNext(n)
  <2>1. PICK n \in Notifier : Ends(n) /\ CallNext(n)
    BY <1>3
  <2>2. /\ realm' = IF realm.package \ {n} = {}
                    THEN [realm EXCEPT !.cur = NoOne, !.package = {},
                                       !.target = 0, !.pc = "idle"]
                    ELSE [realm EXCEPT !.cur = NoOne, !.package = realm.package \ {n}]
        /\ UNCHANGED told /\ realm.pc = "calling"
    BY <2>1 DEF Ends, CallNext
  <2>3. CASE realm.package \ {n} = {}
    <3>1. realm' = [realm EXCEPT !.cur = NoOne, !.package = {}, !.target = 0, !.pc = "idle"]
      BY <2>2, <2>3
    <3>2. realm'.version = realm.version /\ realm'.pc = "idle"
      BY <1>1, <3>1 DEF RealmState
    <3> QED BY <1>1, <2>2, <3>2 DEF InDelivery
  <2>4. CASE realm.package \ {n} # {}
    <3> DEFINE rest == realm.package \ {n}
    <3>1. realm' = [realm EXCEPT !.cur = NoOne, !.package = rest]
      BY <2>2, <2>4
    <3>2. rest \subseteq realm.package
      OBVIOUS
    <3> HIDE DEF rest
    <3>3. /\ realm'.version = realm.version /\ realm'.pc = realm.pc
          /\ realm'.target = realm.target /\ realm'.cur = NoOne /\ realm'.package = rest
      BY <1>1, <3>1 DEF RealmState
    <3>4. NoOne \notin Notifier
      BY CoreFacts
    <3> QED BY <1>1, <2>2, <3>2, <3>3, <3>4 DEF InDelivery
  <2> QED BY <2>3, <2>4
<1>4. CASE (Refresh /\ ForRealm # {}) \/ Begin \/ FallAsleep
  <2>1. realm'.version \in {realm.version, latest} /\ realm'.pc # "calling" /\ UNCHANGED told
    BY <1>1, <1>4, ZenonT(30) DEF RealmState, Refresh, Begin, FallAsleep, Waiting, StartWaiting
  <2> QED BY <1>1, <2>1 DEF InDelivery
<1>5. CASE BeginInCallback \/ Cancel \/ \E tokens \in SUBSET Token : SuppressTokens(tokens)
  <2>1. /\ realm'.version \in {realm.version, latest} /\ UNCHANGED told
        /\ realm'.pc = realm.pc \/ (realm.pc = "idle" /\ realm'.pc = "committing")
        /\ realm'.target = realm.target /\ realm'.cur = realm.cur
        /\ realm'.package = realm.package
    BY <1>1, <1>5 DEF RealmState, BeginInCallback, Cancel, SuppressTokens
  <2> QED BY <1>1, <2>1 DEF InDelivery
<1>6. CASE Commit
  <2> DEFINE pc == IF realm.pc = "committing" THEN "idle" ELSE realm.pc
  <2>1. /\ realm' = [realm EXCEPT !.version = latest', !.writing = FALSE, !.pc = pc]
        /\ latest' = latest + 1 /\ UNCHANGED told
        /\ pc = "calling" => realm.pc = "calling"
    BY <1>6 DEF Commit
  <2> HIDE DEF pc
  <2>2. /\ realm'.version = latest' /\ realm'.pc = pc
        /\ realm'.target = realm.target /\ realm'.cur = realm.cur
        /\ realm'.package = realm.package
    BY <1>1, <2>1 DEF RealmState
  <2> QED BY <1>1, <2>1, <2>2 DEF InDelivery
<1>7. CASE \E n \in Notifier : RunsPast(n)
  <2>1. /\ realm' = [realm EXCEPT !.pc = "beyond", !.cur = NoOne, !.package = {}, !.target = 0]
        /\ UNCHANGED told
    BY <1>7 DEF RunsPast
  <2>2. realm'.version = realm.version /\ realm'.pc = "beyond"
    BY <1>1, <2>1 DEF RealmState
  <2> QED BY <1>1, <2>1, <2>2 DEF InDelivery
<1> QED BY <1>2, <1>3, <1>4, <1>5, <1>6, <1>7
        DEF GentleStep, Register, Release, Remove, OtherCommit, OtherNotify,
            RunBegins, RunNotifiers, NotifyRealms, vars

LEMMA GentleStepIsGentle ==
  ASSUME CoreInv, GentleStep, [Next]_vars
  PROVE  Gentle
<1>1. \A n \in Notifier :
        /\ From(notifiers[n], notifiers'[n])
        /\ \/ notifiers'[n].callbacks = <<>>
           \/ /\ notifiers'[n].version = notifiers[n].version
              /\ notifiers'[n].hasRun = notifiers[n].hasRun
  BY GentleNotifiers DEF Untouched
<1> QED BY <1>1, GentleMain, ExcusesGrow DEF Gentle

\* A notifier that is not run keeps what it has computed, however it changes
\* otherwise.
LEMMA ChangesKept ==
  ASSUME DeliveryInv, UNCHANGED worker, excuses \subseteq excuses',
         \A n \in Notifier :
           \/ Untouched(notifiers[n], notifiers'[n])
           \/ /\ ~ Computed(n) /\ notifiers'[n].changes = {}
              /\ notifiers'[n].rows <= notifiers'[n].version
  PROVE  ChangesFit'
<1>1. RunTarget' = RunTarget /\ RunSet' = RunSet
  BY DEF RunTarget, RunSet
<1>2. \A n \in Notifier : Computed(n)' <=> Computed(n)
  BY <1>1 DEF Computed
<1> QED BY <1>1, <1>2 DEF DeliveryInv, ChangesFit, Untouched

LEMMA ChangesGentle ==
  ASSUME CoreInv, DeliveryInv, GentleStep, [Next]_vars
  PROVE  ChangesFit'
<1>1. CASE RunNotifiers
  <2>1. /\ worker.pc \in {"skipping", "running"}
        /\ notifiers' = [n \in Notifier |-> IF n \in RunSet THEN Run(notifiers[n], RunTarget)
                                            ELSE notifiers[n]]
        /\ worker' = [worker EXCEPT !.pc = IF worker.pc = "skipping" THEN "skipped" ELSE "ran"]
        /\ excuses' = IF \E n \in RunSet : /\ notifiers'[n].changes # {}
                                           /\ notifiers[n].rows < notifiers[n].version
                      THEN excuses \cup {"unread"} ELSE excuses
    BY <1>1 DEF RunNotifiers
  <2>2. /\ worker'.target = worker.target /\ worker'.skip = worker.skip
        /\ worker'.old = worker.old /\ worker'.new = worker.new
        /\ worker.pc = "skipping" => worker'.pc = "skipped"
        /\ worker.pc = "running" => worker'.pc = "ran"
    BY <2>1, CoreFacts DEF Parts, WorkerState
  <2>3. RunTarget' = RunTarget /\ RunSet' = RunSet /\ worker'.pc \in {"skipped", "ran"}
    BY <2>1, <2>2 DEF RunTarget, RunSet
  <2>4. RunTarget \in 1..MaxVersion /\ MaxVersion \in Nat
        /\ \A n \in RunSet : notifiers[n].version <= RunTarget
    BY <2>1, RunTargetFacts, CoreFacts DEF Underway
  <2> SUFFICES ASSUME NEW n \in Notifier
               PROVE  LET r == notifiers'[n] IN
                      /\ n \notin RunSet => r.changes = {} /\ r.rows <= r.version
                      /\ n \in RunSet =>
                           /\ r.rows <= RunTarget
                           /\ \/ r.changes = {}
                              \/ /\ r.hasRun
                                 /\ (r.version + 1)..RunTarget \subseteq r.changes
                                 /\ r.changes \subseteq 1..RunTarget
                           /\ "unread" \notin excuses' =>
                                r.changes \subseteq (r.version + 1)..RunTarget
    BY <2>3 DEF ChangesFit, Computed
  <2> DEFINE s == notifiers[n]
             r == notifiers'[n]
  <2>5. s.changes = {} /\ s.rows <= s.version
    BY <2>1 DEF DeliveryInv, ChangesFit, Computed
  <2>6. s.version \in 0..MaxVersion /\ s.rows \in 0..MaxVersion
        /\ s \in NotifierState(1..MaxVersion)
    BY Fields DEF CoreInv, Version
  <2>7. CASE n \notin RunSet
    <3>1. r = s
      BY <2>1, <2>7
    <3> QED BY <2>5, <2>7, <3>1
  <2>8. CASE n \in RunSet
    <3>1. r = Run(s, RunTarget)
      BY <2>1, <2>8
    <3>2. r.changes # {} /\ s.rows < s.version => "unread" \in excuses'
      BY <2>1, <2>8
    <3>3. s.version <= RunTarget
      BY <2>4, <2>8
    <3> HIDE DEF s, r
    <3>4. /\ r.version = s.version /\ r.hasRun = s.hasRun
          /\ \/ r.changes = s.changes /\ r.rows = s.rows
             \/ r.changes = {} /\ r.rows = RunTarget
             \/ s.hasRun /\ r.changes = (s.rows + 1)..RunTarget /\ r.rows = RunTarget
      BY <2>4, <2>6, <3>1, RunFacts
    <3>5. CASE r.changes = {}
      BY <2>4, <2>5, <2>6, <2>8, <3>3, <3>4, <3>5 DEF r
    <3>6. CASE r.changes # {}
      <4>1. s.hasRun /\ r.changes = (s.rows + 1)..RunTarget /\ r.rows = RunTarget
        BY <2>5, <3>4, <3>6
      <4>2. (s.version + 1)..RunTarget \subseteq r.changes /\ r.changes \subseteq 1..RunTarget
        BY <2>4, <2>5, <2>6, <4>1
      <4>3. "unread" \notin excuses' => s.rows = s.version
        BY <2>5, <2>6, <3>2, <3>6
      <4> QED BY <2>4, <2>8, <3>4, <4>1, <4>2, <4>3 DEF r
    <3> QED BY <3>5, <3>6
  <2> QED BY <2>7, <2>8
<1>2. ASSUME ~ RunNotifiers
      PROVE  \A n \in Notifier :
               \/ Untouched(notifiers[n], notifiers'[n])
               \/ /\ ~ Computed(n) /\ notifiers'[n].changes = {}
                  /\ notifiers'[n].rows <= notifiers'[n].version
  <2> SUFFICES ASSUME NEW n \in Notifier, Register(n), notifiers'[n].rows = 0,
                      notifiers'[n].version >= 1
               PROVE  ~ Computed(n) /\ notifiers'[n].rows <= notifiers'[n].version
    BY <1>2, GentleNotifiers
  <2>1. n \notin Listed
    BY DEF Register, Listed
  <2>2. worker.pc \in {"skipped", "ran"} => n \notin RunSet
    BY <2>1, RunTargetFacts DEF Underway
  <2>3. notifiers'[n].version = realm.version
    <3>1. notifiers'[n] = Registered(realm.version) /\ realm.version \in Version
      BY CoreFacts DEF Register, Parts, Version
    <3> QED BY <3>1, RegisteredFacts
  <2> QED BY <2>2, <2>3, CoreFacts DEF Computed
<1>3. CASE RunBegins \/ NotifyRealms
  <2>1. worker.pc \in {"idle", "notifying"} /\ ~ RunNotifiers
    BY <1>3 DEF RunBegins, NotifyRealms, RunNotifiers
  <2>2. worker'.pc \in {"notifying", "skipping", "running", "idle"}
    BY <1>3, CoreFacts DEF RunBegins, NotifyRealms, Parts, WorkerState
  <2>3. \A n \in Notifier : ~ Computed(n) /\ ~ Computed(n)'
    BY <2>1, <2>2 DEF Computed
  <2> QED BY <1>2, <2>1, <2>3 DEF DeliveryInv, ChangesFit, Untouched
<1>4. CASE UNCHANGED worker
  <2>1. ~ RunNotifiers
    BY <1>4, CoreFacts DEF RunNotifiers, Parts, WorkerState
  <2> QED BY <1>2, <1>4, <2>1, ChangesKept, ExcusesGrow
<1> QED BY <1>1, <1>3, <1>4
        DEF GentleStep, Register, Release, Remove, CallNext, Refresh, Begin, FallAsleep,
            BeginInCallback, SuppressTokens, Commit, Cancel, OtherCommit, OtherNotify, vars

LEMMA TokensKept ==
  ASSUME DeliveryInv,
         \A n \in Notifier :
           /\ DOMAIN notifiers'[n].callbacks = DOMAIN notifiers[n].callbacks
           /\ \A j \in DOMAIN notifiers[n].callbacks :
                notifiers'[n].callbacks[j].token = notifiers[n].callbacks[j].token
  PROVE  TokensFit'
<1>1. \A n \in Notifier : Distinct(notifiers'[n])
  BY DEF DeliveryInv, TokensFit, Distinct
<1>2. \A n \in Notifier : Tokens(notifiers'[n]) = Tokens(notifiers[n])
  BY DEF Tokens
<1> QED BY <1>1, <1>2 DEF DeliveryInv, TokensFit

\* The numbers that the ranges of a callback are made of.
LEMMA RangeFacts ==
  ASSUME CoreInv, NEW n \in Notifier
  PROVE  /\ notifiers[n].version \in Nat /\ realm.target \in Nat /\ realm.version \in Nat
         /\ InDelivery(n) => /\ notifiers[n].hasRun /\ realm.target <= notifiers[n].version
                             /\ 1 <= realm.target /\ realm.target <= realm.version
<1>1. InDelivery(n) => realm.pc = "calling"
  BY DEF InDelivery
<1> QED BY <1>1, Fields, CoreFacts DEF CoreInv, CallingFits, RealmFits

LEMMA AddDelivery ==
  ASSUME CoreInv, DeliveryInv, NEW n \in Notifier, NEW t \in Token, Add(n, t)
  PROVE  DeliveryInv'
<1> DEFINE s == notifiers[n]
           r == AddCallback(s, t)
           last == Len(s.callbacks) + 1
<1>1. /\ s \in NotifierState(Version) /\ SoundState(s) /\ s.version \in Nat
      /\ Len(s.callbacks) \in Nat /\ DOMAIN s.callbacks = 1..Len(s.callbacks)
  BY Fields, RangeFacts, CoreFacts DEF CoreInv, Sound
<1>2. /\ notifiers' = [notifiers EXCEPT ![n] = r] /\ s.place \in {"new", "main"}
      /\ UNCHANGED <<latest, realm, worker, skipVersion>>
      /\ told[t] = {} /\ told' = [told EXCEPT ![t] = {1}]
      /\ excuses \subseteq excuses'
  BY DEF Add, ForRealm
<1>3. told \in [Token -> SUBSET Version]
  BY DEF CoreInv, TypeOK
<1> HIDE DEF s
<1>4. /\ r \in NotifierState(Version)
      /\ Apart(s, r) /\ r.changes = s.changes
      /\ Len(r.callbacks) = last
      /\ \A j \in DOMAIN s.callbacks : r.callbacks[j] = s.callbacks[j]
      /\ r.callbacks[last].token = t
      /\ r.callbacks[last].accumulated = {} /\ r.callbacks[last].deliver = {}
      /\ ~ r.callbacks[last].initialDelivered
  BY <1>1, AddCallbackFacts
<1> HIDE DEF r
<1>5. /\ DOMAIN r.callbacks = 1..last /\ DOMAIN r.callbacks = DOMAIN s.callbacks \cup {last}
      /\ last \notin DOMAIN s.callbacks
  <2>1. r.callbacks \in Seq(CallbackState(Version))
    BY <1>4, NotifierFields
  <2>2. DOMAIN r.callbacks = 1..Len(r.callbacks)
    BY <2>1, LenProperties
  <2> QED BY <1>1, <1>4, <2>2
<1> HIDE DEF last
<1>6. /\ notifiers'[n] = r
      /\ \A m \in Notifier \ {n} : notifiers'[m] = notifiers[m]
  BY <1>2, CoreFacts DEF Parts
<1>7. \A m \in Notifier : t \notin Tokens(notifiers[m])
  BY <1>2 DEF DeliveryInv, CallbacksFit, CallbackFits, Tokens
<1>8. \A u \in Token \ {t} : told'[u] = told[u]
  BY <1>2, <1>3
<1>9. \A m \in Notifier : InDelivery(m)' <=> InDelivery(m)
  BY <1>2 DEF InDelivery
<1>10. ChangesFit'
  <2>1. \A m \in Notifier : Untouched(notifiers[m], notifiers'[m])
    BY <1>4, <1>6 DEF Untouched, Apart, s
  <2> QED BY <1>2, <2>1, ChangesKept
\* A callback that was there before.
<1>11. ASSUME NEW m \in Notifier, NEW j \in DOMAIN notifiers[m].callbacks,
              notifiers'[m].version = notifiers[m].version,
              notifiers'[m].hasRun = notifiers[m].hasRun,
              notifiers'[m].callbacks[j] = notifiers[m].callbacks[j]
       PROVE  CallbackFits(m, notifiers[m].callbacks[j])'
  <2> DEFINE c == notifiers[m].callbacks[j]
  <2>1. CallbackFits(m, c)
    BY DEF DeliveryInv, CallbacksFit
  <2>2. c.token \in Token /\ c.token # t
    <3>1. c.token \in Tokens(notifiers[m])
      BY DEF Tokens
    <3>2. c.token \in Token
      BY CallbackFields, Fields DEF CoreInv
    <3> QED BY <1>7, <3>1, <3>2
  <2>3. told'[c.token] = told[c.token]
    BY <1>8, <2>2
  <2> QED BY <1>2, <1>9, <1>11, <2>1, <2>3 DEF CallbackFits
<1>12. ASSUME NEW j, j = last PROVE CallbackFits(n, notifiers[n].callbacks[j])'
  <2> DEFINE e == r.callbacks[last]
  <2>1. told'[t] = {1}
    BY <1>2, <1>3
  <2>2. r.version = s.version /\ s.version >= 1
    BY <1>1, <1>2, <1>4 DEF Apart, SoundState
  <2>3. 1 \in 1..r.version
    BY <1>1, <2>2
  <2>4. /\ e.token = t /\ e.accumulated = {} /\ e.deliver = {}
        /\ ~ e.initialDelivered
    BY <1>4
  <2>5. notifiers'[n] = r /\ notifiers'[n].callbacks[j] = e
    BY <1>6, <1>12
  <2> HIDE DEF e
  <2>6. told'[e.token] # {} /\ told'[e.token] \subseteq 1..r.version
    BY <2>1, <2>3, <2>4
  <2> QED BY <2>1, <2>4, <2>5, <2>6 DEF CallbackFits
<1>13. CallbacksFit'
  <2> SUFFICES ASSUME NEW m \in Notifier, NEW j \in DOMAIN notifiers'[m].callbacks
               PROVE  CallbackFits(m, notifiers[m].callbacks[j])'
    BY DEF CallbacksFit
  <2>1. CASE m # n
    BY <1>6, <1>11, <2>1
  <2>2. CASE m = n /\ j # last
    <3>1. j \in DOMAIN s.callbacks
      BY <1>5, <1>6, <2>2
    <3>2. r.version = s.version /\ r.hasRun = s.hasRun /\ r.callbacks[j] = s.callbacks[j]
      BY <1>4, <3>1 DEF Apart
    <3> QED BY <1>6, <1>11, <2>2, <3>1, <3>2 DEF s
  <2>3. CASE m = n /\ j = last
    BY <1>12, <2>3
  <2> QED BY <2>1, <2>2, <2>3
<1>14. TokensFit'
  <2>1. Tokens(r) = Tokens(s) \cup {t}
    BY <1>4, <1>5 DEF Tokens
  <2>2. Distinct(r)
    <3>1. Distinct(s) /\ t \notin Tokens(s)
      BY <1>7 DEF DeliveryInv, TokensFit, s
    <3> QED BY <1>4, <1>5, <3>1 DEF Distinct, Tokens
  <2>3. \A m \in Notifier \ {n} : Tokens(notifiers[m]) \cap Tokens(s) = {}
    BY DEF DeliveryInv, TokensFit, s
  <2> QED BY <1>6, <1>7, <2>1, <2>2, <2>3 DEF DeliveryInv, TokensFit
<1>15. ToldOfWhatIsRead'
  <2>1. \A u \in Token : told[u] \subseteq 1..realm.version
    BY DEF DeliveryInv, ToldOfWhatIsRead
  <2>2. 1 \in 1..realm.version
    BY CoreFacts
  <2>3. \A u \in Token : told'[u] = told[u] \/ told'[u] = {1}
    BY <1>2, <1>3
  <2> QED BY <1>2, <2>1, <2>2, <2>3 DEF ToldOfWhatIsRead
<1> QED BY <1>10, <1>13, <1>14, <1>15 DEF DeliveryInv

LEMMA CallsDelivery ==
  ASSUME CoreInv, DeliveryInv, NEW n \in Notifier, CallNext(n), NEW k \in Int, Calls(n, k)
  PROVE  DeliveryInv'
<1> DEFINE s == notifiers[n]
           r == CallAt(s, k)
           c == s.callbacks[k + 1]
           now == IF c.initialDelivered THEN told[c.token] \cup c.deliver
                  ELSE told[c.token] \cup ((1..realm.target) \ hushed[c.token])
<1>1. /\ s \in NotifierState(Version) /\ k + 1 \in DOMAIN s.callbacks
      /\ InDelivery(n)
  BY CoreFacts, CallNextCases DEF Parts, Calls
<1>2. /\ notifiers' = [notifiers EXCEPT ![n] = r]
      /\ realm' = [realm EXCEPT !.cur = n, !.package = realm.package \ {n}]
      /\ told' = [told EXCEPT ![c.token] = now]
      /\ UNCHANGED <<worker, excuses>> /\ realm.pc = "calling"
  BY DEF Calls, CallNext
<1>3. /\ c.token \in Token /\ CallbackFits(n, c)
      /\ told \in [Token -> SUBSET Version]
  <2>1. c.token \in Token
    BY <1>1, CallbackFields
  <2> QED BY <1>1, <2>1 DEF DeliveryInv, CallbacksFit, CoreInv, TypeOK
<1>4. /\ s.version \in Nat /\ realm.target \in Nat /\ realm.version \in Nat
      /\ s.hasRun /\ realm.target <= s.version
      /\ 1 <= realm.target /\ realm.target <= realm.version
  BY <1>1, RangeFacts
<1>5. /\ told[c.token] \subseteq now /\ now \subseteq told[c.token] \cup 1..realm.target
      /\ c.initialDelivered => now = told[c.token] \cup c.deliver
  BY <1>1, <1>3 DEF CallbackFits
<1> HIDE DEF s, now
<1>6. /\ Apart(s, r) /\ r.changes = s.changes
      /\ DOMAIN r.callbacks = DOMAIN s.callbacks
      /\ \A j \in DOMAIN s.callbacks :
           /\ r.callbacks[j].token = s.callbacks[j].token
           /\ r.callbacks[j].accumulated = s.callbacks[j].accumulated
           /\ r.callbacks[j].deliver = IF j = k + 1 THEN {} ELSE s.callbacks[j].deliver
           /\ r.callbacks[j].initialDelivered <=>
                (j = k + 1 \/ s.callbacks[j].initialDelivered)
  BY <1>1, CallAtFacts
<1> HIDE DEF r
<1>7. /\ notifiers'[n] = r
      /\ \A m \in Notifier \ {n} : notifiers'[m] = notifiers[m]
  BY <1>2, CoreFacts DEF Parts
<1>8. /\ told'[c.token] = now
      /\ \A u \in Token : u # c.token => told'[u] = told[u]
  BY <1>2, <1>3
<1>9. /\ realm'.version = realm.version /\ realm'.target = realm.target
      /\ \A m \in Notifier : InDelivery(m)' => InDelivery(m)
  <2> DEFINE rest == realm.package \ {n}
  <2>1. realm \in RealmState /\ realm' = [realm EXCEPT !.cur = n, !.package = rest]
    BY <1>2, CoreFacts DEF Parts
  <2>2. rest \subseteq realm.package
    OBVIOUS
  <2> HIDE DEF rest
  <2>3. /\ realm'.version = realm.version /\ realm'.target = realm.target
        /\ realm'.cur = n /\ realm'.package = rest /\ realm'.pc = realm.pc
    BY <2>1 DEF RealmState
  <2> QED BY <1>1, <2>2, <2>3 DEF InDelivery
<1>10. ChangesFit'
  <2>1. \A m \in Notifier : Untouched(notifiers[m], notifiers'[m])
    BY <1>6, <1>7 DEF Untouched, Apart, s
  <2> QED BY <1>2, <2>1, ChangesKept
<1>11. TokensFit'
  BY <1>6, <1>7, TokensKept DEF s
<1>12. ToldOfWhatIsRead'
  <2>1. \A u \in Token : told[u] \subseteq 1..realm.version
    BY DEF DeliveryInv, ToldOfWhatIsRead
  <2>2. 1..realm.target \subseteq 1..realm.version
    BY <1>4
  <2> QED BY <1>3, <1>5, <1>8, <1>9, <2>1, <2>2 DEF ToldOfWhatIsRead
\* The other callbacks know nothing of it.
<1>13. ASSUME NEW m \in Notifier, NEW j \in DOMAIN notifiers'[m].callbacks, m # n \/ j # k + 1
       PROVE  CallbackFits(m, notifiers[m].callbacks[j])'
  <2> DEFINE d == notifiers[m].callbacks[j]
             e == notifiers'[m].callbacks[j]
  <2>1. /\ j \in DOMAIN notifiers[m].callbacks
        /\ Alike(d, e) /\ notifiers'[m].version = notifiers[m].version
        /\ notifiers'[m].hasRun = notifiers[m].hasRun
    <3>1. CASE m # n
      BY <1>7, <3>1 DEF Alike
    <3>2. CASE m = n
      <4>1. j \in DOMAIN s.callbacks /\ j # k + 1
        BY <1>6, <1>7, <1>13, <3>2
      <4>2. s.callbacks[j].initialDelivered \in BOOLEAN /\ r.callbacks[j].initialDelivered \in BOOLEAN
        <5>1. r \in NotifierState(Version)
          BY <1>1, CallAtFacts DEF r
        <5> QED BY <1>1, <1>6, <4>1, <5>1, CallbackFields
      <4>3. r.callbacks[j].initialDelivered = s.callbacks[j].initialDelivered
        BY <1>6, <4>1, <4>2
      <4> QED BY <1>6, <1>7, <3>2, <4>1, <4>3 DEF Alike, Apart, s
    <3> QED BY <3>1, <3>2
  <2>2. CallbackFits(m, d) /\ d.token \in Token
    <3>1. d.token \in Token
      BY <2>1, CallbackFields, Fields DEF CoreInv
    <3> QED BY <2>1, <3>1 DEF DeliveryInv, CallbacksFit
  <2>3. d.token # c.token
    <3>1. CASE m = n
      BY <1>1, <1>13, <2>1, <3>1 DEF DeliveryInv, TokensFit, Distinct, s
    <3>2. CASE m # n
      <4>1. d.token \in Tokens(notifiers[m]) /\ c.token \in Tokens(notifiers[n])
        BY <1>1, <2>1 DEF Tokens, s
      <4> QED BY <3>2, <4>1 DEF DeliveryInv, TokensFit
    <3> QED BY <3>1, <3>2
  <2>4. told'[d.token] = told[d.token]
    BY <1>8, <2>2, <2>3
  <2> HIDE DEF d
  <2> QED BY <1>2, <1>9, <2>1, <2>2, <2>4 DEF CallbackFits, Alike
\* What it is told is not what has accumulated since.
<1>14. CallbackFits(n, notifiers[n].callbacks[k + 1])'
  <2> DEFINE e == r.callbacks[k + 1]
  <2>1. /\ e.token = c.token /\ e.accumulated = c.accumulated /\ e.deliver = {}
        /\ e.initialDelivered /\ r.version = s.version /\ r.hasRun = s.hasRun
    BY <1>1, <1>6 DEF Apart
  <2>2. now \subseteq 1..s.version /\ now # {}
    <3>1. 1..realm.target \subseteq 1..s.version
      BY <1>4
    <3> QED BY <1>3, <1>5, <3>1 DEF CallbackFits, s
  <2>3. c.accumulated \subseteq 1..s.version
    BY <1>3 DEF CallbackFits, s
  <2>4. ASSUME "unread" \notin excuses
        PROVE  /\ c.accumulated \subseteq (realm.target + 1)..s.version
               /\ c.accumulated \cap now = {}
    <3>1. c.accumulated \subseteq (realm.target + 1)..s.version
      BY <1>1, <1>3, <2>4 DEF CallbackFits, s
    <3>2. c.accumulated \cap 1..realm.target = {}
      BY <1>4, <3>1
    <3>3. told[c.token] \cap c.accumulated = {}
      <4>1. CASE c.initialDelivered
        BY <1>3, <2>4, <4>1 DEF CallbackFits
      <4>2. CASE ~ c.initialDelivered
        <5>1. told[c.token] = {1}
          BY <1>3, <4>2 DEF CallbackFits
        <5> QED BY <1>4, <3>2, <5>1
      <4> QED BY <4>1, <4>2
    <3> QED BY <1>5, <3>1, <3>2, <3>3
  <2>5. notifiers'[n].callbacks[k + 1] = e /\ notifiers'[n] = r
    BY <1>7
  <2> HIDE DEF e, c
  <2> QED BY <1>2, <1>4, <1>8, <1>9, <2>1, <2>2, <2>3, <2>4, <2>5 DEF CallbackFits
<1>15. CallbacksFit'
  BY <1>13, <1>14 DEF CallbacksFit
<1> QED BY <1>10, <1>11, <1>12, <1>15 DEF DeliveryInv

\* A delivery leaves a notifier alone or packages it, and then what has
\* accumulated up to its version is what the Realm has come to read.
Sent(n) ==
  \/ notifiers'[n] = notifiers[n] /\ ~ InDelivery(n)'
  \/ /\ PackagedFrom(notifiers[n], notifiers'[n])
     /\ InDelivery(n)' => realm'.target = notifiers[n].version

LEMMA SentFacts ==
  ASSUME CoreInv, CoreInv', Notify \/ SendPackage \/ (Refresh /\ ForRealm = {})
  PROVE  /\ \A n \in Notifier : ~ InDelivery(n) /\ Sent(n)
         /\ realm.version <= realm'.version
         /\ UNCHANGED <<latest, worker, skipVersion, told, hushed, excuses>>
<1>1. /\ realm.pc \in {"idle", "refreshing", "beginning"}
      /\ \/ Silent \/ Drops \/ ReadsLatest
         \/ \E v \in Version, ns \in SUBSET Notifier : Delivers(v, ns)
  BY DeliveryKinds
<1>2. UNCHANGED <<latest, worker, skipVersion, told, hushed, excuses>>
  BY DEF Notify, SendPackage, Refresh, NotifyInWrite, ProcessAvailable, AdvanceToReady
<1>3. /\ TypeOK /\ realm.version \in Version /\ latest \in Version /\ realm.version <= latest
      /\ realm.cur = NoOne /\ NoOne \notin Notifier /\ realm.version \in Int
  BY <1>1, CoreFacts DEF CoreInv, RealmFits, Version
<1>4. \A n \in Notifier : ~ InDelivery(n)
  BY <1>1 DEF InDelivery
<1>5. CASE Silent
  <2>1. realm'.version = realm.version /\ realm'.pc = "idle"
    BY <1>3, <1>5, ReadAndCallFacts DEF Silent
  <2> QED BY <1>2, <1>3, <1>4, <1>5, <2>1 DEF Silent, Sent, InDelivery
<1>6. CASE Drops
  <2>1. PICK ns \in SUBSET Notifier : Packs(ns)
    BY <1>6 DEF Drops
  <2>2. \A n \in Notifier : ~ InDelivery(n)'
    BY <1>6 DEF Drops, InDelivery
  <2> QED BY <1>2, <1>3, <1>4, <1>6, <2>1, <2>2 DEF Drops, Packs, Sent
<1>7. CASE ReadsLatest
  <2>1. PICK ns \in SUBSET Notifier : Packs(ns)
    BY <1>7 DEF ReadsLatest
  <2>2. realm'.version = latest /\ realm'.pc = "idle"
    BY <1>3, <1>7, ReadAndCallFacts DEF ReadsLatest
  <2>3. \A n \in Notifier : ~ InDelivery(n)'
    BY <2>2 DEF InDelivery
  <2> QED BY <1>2, <1>3, <1>4, <2>1, <2>2, <2>3 DEF Packs, Sent
<1>8. ASSUME NEW v \in Version, NEW ns \in SUBSET Notifier, Delivers(v, ns)
      PROVE  (\A n \in Notifier : Sent(n)) /\ realm.version <= realm'.version
  <2>1. /\ realm'.version = v /\ realm'.package = ns /\ realm'.cur = NoOne
        /\ realm'.target = v /\ ns # {} /\ Packs(ns) /\ realm.version <= v
        /\ \A n \in ns : notifiers[n].version = v
    BY <1>3, <1>8, ReadAndCallFacts DEF Delivers
  <2>2. \A n \in Notifier : InDelivery(n)' => n \in ns
    BY <1>3, <2>1 DEF InDelivery
  <2> QED BY <2>1, <2>2 DEF Packs, Sent
<1> QED BY <1>1, <1>2, <1>4, <1>5, <1>6, <1>7, <1>8

LEMMA SendingDelivery ==
  ASSUME CoreInv, CoreInv', DeliveryInv,
         Notify \/ SendPackage \/ (Refresh /\ ForRealm = {})
  PROVE  DeliveryInv'
<1>1. /\ \A n \in Notifier : ~ InDelivery(n) /\ Sent(n)
      /\ realm.version <= realm'.version
      /\ UNCHANGED <<latest, worker, skipVersion, told, hushed, excuses>>
  BY SentFacts
<1>2. \A n \in Notifier :
        /\ Untouched(notifiers[n], notifiers'[n])
        /\ DOMAIN notifiers'[n].callbacks = DOMAIN notifiers[n].callbacks
        /\ \A j \in DOMAIN notifiers[n].callbacks :
             notifiers'[n].callbacks[j].token = notifiers[n].callbacks[j].token
  BY <1>1 DEF Sent, PackagedFrom, Untouched, Apart
<1>3. ChangesFit'
  BY <1>1, <1>2, ChangesKept
<1>4. TokensFit'
  BY <1>2, TokensKept
<1>5. ToldOfWhatIsRead'
  <2>1. 1..realm.version \subseteq 1..realm'.version
    BY <1>1, CoreFacts, RealmFields DEF CoreInv, TypeOK, Version
  <2> QED BY <1>1, <2>1 DEF DeliveryInv, ToldOfWhatIsRead
<1>6. CallbacksFit'
  <2> SUFFICES ASSUME NEW n \in Notifier, NEW j \in DOMAIN notifiers'[n].callbacks
               PROVE  CallbackFits(n, notifiers[n].callbacks[j])'
    BY DEF CallbacksFit
  <2> DEFINE s == notifiers[n]
             r == notifiers'[n]
             c == s.callbacks[j]
             d == r.callbacks[j]
  <2>1. /\ j \in DOMAIN s.callbacks /\ CallbackFits(n, c) /\ d.token = c.token
        /\ r.version = s.version /\ r.hasRun = s.hasRun
    BY <1>2 DEF DeliveryInv, CallbacksFit, Untouched
  <2>2. CASE r = s /\ ~ InDelivery(n)'
    BY <1>1, <2>1, <2>2 DEF CallbackFits
  <2>3. CASE /\ PackagedFrom(s, r)
             /\ InDelivery(n)' => realm'.target = s.version
    <3>1. /\ d.accumulated = {} /\ d.deliver = c.accumulated
          /\ d.initialDelivered = c.initialDelivered
      BY <2>1, <2>3 DEF PackagedFrom
    <3>2. notifiers'[n].callbacks[j] = d
      OBVIOUS
    <3> HIDE DEF c, d
    <3> QED BY <1>1, <2>1, <2>3, <3>1, <3>2 DEF CallbackFits
  <2> QED BY <1>1, <2>2, <2>3 DEF Sent
<1> QED BY <1>3, <1>4, <1>5, <1>6 DEF DeliveryInv

LEMMA HandOverDelivery ==
  ASSUME CoreInv, CoreInv', DeliveryInv, HandOver
  PROVE  DeliveryInv'
<1>1. /\ UNCHANGED <<latest, told, hushed>> /\ worker.pc \in {"skipped", "ran"} /\ Underway
      /\ excuses \subseteq excuses'
  BY DEF HandOver, Underway
<1>2. /\ RunTarget \in 1..MaxVersion
      /\ \A n \in RunSet : notifiers[n].version <= RunTarget
  BY <1>1, RunTargetFacts
<1>3. \A n \in Notifier : HandedOver(notifiers[n], notifiers'[n], n \in RunSet)
  BY HandOverFacts
<1>4. /\ realm'.version = realm.version /\ realm'.target = realm.target
      /\ \A n \in Notifier : InDelivery(n)' <=> InDelivery(n)
  <2>1. realm' = realm \/ realm' = [realm EXCEPT !.wait = "woken"]
    BY DEF HandOver
  <2>2. /\ realm'.version = realm.version /\ realm'.target = realm.target
        /\ realm'.pc = realm.pc /\ realm'.package = realm.package /\ realm'.cur = realm.cur
    BY <2>1, CoreFacts DEF Parts, RealmState
  <2> QED BY <2>2 DEF InDelivery
<1>5. ChangesFit'
  <2>1. worker'.pc \in {"running", "notifying"}
    BY <1>1, CoreFacts DEF HandOver, Parts, WorkerState
  <2> SUFFICES ASSUME NEW n \in Notifier
               PROVE  notifiers'[n].changes = {} /\ notifiers'[n].rows <= notifiers'[n].version
    BY <2>1 DEF ChangesFit, Computed
  <2>2. CASE n \in RunSet
    BY <1>1, <1>3, <2>2 DEF DeliveryInv, ChangesFit, Computed, HandedOver
  <2>3. CASE n \notin RunSet
    BY <1>1, <1>3, <2>3 DEF DeliveryInv, ChangesFit, Computed, HandedOver
  <2> QED BY <2>2, <2>3
<1>6. TokensFit'
  <2>1. \A n \in Notifier :
          /\ DOMAIN notifiers'[n].callbacks = DOMAIN notifiers[n].callbacks
          /\ \A j \in DOMAIN notifiers[n].callbacks :
               notifiers'[n].callbacks[j].token = notifiers[n].callbacks[j].token
    BY <1>3 DEF HandedOver, Caught
  <2> QED BY <2>1, TokensKept
<1>7. ToldOfWhatIsRead'
  BY <1>1, <1>4 DEF DeliveryInv, ToldOfWhatIsRead
<1>8. CallbacksFit'
  <2> SUFFICES ASSUME NEW n \in Notifier, NEW j \in DOMAIN notifiers'[n].callbacks
               PROVE  CallbackFits(n, notifiers[n].callbacks[j])'
    BY DEF CallbacksFit
  <2> DEFINE s == notifiers[n]
             r == notifiers'[n]
             c == s.callbacks[j]
             d == r.callbacks[j]
  <2>1. CASE n \notin RunSet
    <3>1. r.version = s.version /\ r.hasRun = s.hasRun /\ r.callbacks = s.callbacks
      BY <1>3, <2>1 DEF HandedOver
    <3>2. CallbackFits(n, c)
      BY <3>1 DEF DeliveryInv, CallbacksFit
    <3> QED BY <1>1, <1>4, <3>1, <3>2 DEF CallbackFits
  <2>2. CASE n \in RunSet
    <3>1. r.version = RunTarget /\ r.hasRun /\ Caught(s, r)
      BY <1>3, <2>2 DEF HandedOver
    <3>2. j \in DOMAIN s.callbacks /\ CallbackFits(n, c)
      BY <3>1 DEF Caught, DeliveryInv, CallbacksFit
    <3>3. /\ d.token = c.token /\ d.deliver = c.deliver
          /\ d.initialDelivered = c.initialDelivered
          /\ d.accumulated = c.accumulated \/ d.accumulated = c.accumulated \cup s.changes
      BY <3>1, <3>2 DEF Caught
    <3>4. s.version \in Nat /\ RunTarget \in Nat /\ s.version <= RunTarget
          /\ realm.target \in Nat /\ (InDelivery(n) => realm.target <= s.version)
      BY <1>2, <2>2, RangeFacts
    <3>5. /\ s.changes \subseteq 1..RunTarget
          /\ "unread" \notin excuses => s.changes \subseteq (s.version + 1)..RunTarget
      BY <1>1, <2>2 DEF DeliveryInv, ChangesFit, Computed
    <3>6. notifiers'[n].callbacks[j] = d
      OBVIOUS
    <3>7. 1..s.version \subseteq 1..RunTarget
      BY <3>4
    <3>8. ASSUME "unread" \notin excuses
          PROVE  /\ InDelivery(n) => d.accumulated \subseteq (realm.target + 1)..RunTarget
                 /\ c.initialDelivered => d.accumulated \cap told[c.token] = {}
      <4>1. s.changes \cap told[c.token] = {}
        <5>1. told[c.token] \subseteq 1..s.version
          BY <3>2 DEF CallbackFits
        <5>2. s.changes \subseteq (s.version + 1)..RunTarget
          BY <3>5, <3>8
        <5> QED BY <3>4, <5>1, <5>2
      <4>2. c.initialDelivered => c.accumulated \cap told[c.token] = {}
        BY <3>2, <3>8 DEF CallbackFits
      <4>3. ASSUME InDelivery(n)
            PROVE  d.accumulated \subseteq (realm.target + 1)..RunTarget
        <5>1. c.accumulated \subseteq (realm.target + 1)..s.version
          BY <3>2, <3>8, <4>3 DEF CallbackFits
        <5>2. /\ (realm.target + 1)..s.version \subseteq (realm.target + 1)..RunTarget
              /\ (s.version + 1)..RunTarget \subseteq (realm.target + 1)..RunTarget
          BY <3>4, <4>3
        <5> HIDE DEF c, d
        <5> QED BY <3>3, <3>5, <3>8, <5>1, <5>2
      <4> HIDE DEF c, d
      <4> QED BY <3>3, <4>1, <4>2, <4>3
    <3>9. d.accumulated \subseteq 1..RunTarget /\ told[c.token] \subseteq 1..RunTarget
      BY <3>2, <3>3, <3>5, <3>7 DEF CallbackFits
    <3> HIDE DEF c, d
    <3> QED BY <1>1, <1>4, <3>1, <3>2, <3>3, <3>6, <3>8, <3>9 DEF CallbackFits
  <2> QED BY <2>1, <2>2
<1> QED BY <1>5, <1>6, <1>7, <1>8 DEF DeliveryInv

LEMMA StepsKeepDelivery ==
  ASSUME CoreInv, DeliveryInv, [Next]_vars
  PROVE  DeliveryInv'
<1>1. CoreInv'
  BY StepsKeepCore
<1>2. CASE GentleStep
  BY <1>1, <1>2, GentleStepIsGentle, GentleKeeps, ChangesGentle DEF DeliveryInv
<1>3. CASE Notify \/ SendPackage \/ (Refresh /\ ForRealm = {})
  BY <1>1, <1>3, SendingDelivery
<1>4. CASE HandOver
  BY <1>1, <1>4, HandOverDelivery
<1>5. CASE \E n \in Notifier, t \in Token : Add(n, t)
  BY <1>5, AddDelivery
<1>6. CASE \E n \in Notifier : CallNext(n)
  <2>1. PICK n \in Notifier : CallNext(n)
    BY <1>6
  <2>2. (\E k \in Int : Calls(n, k)) \/ Ends(n) \/ RunsPast(n)
    BY <2>1, CallNextCases
  <2>3. CASE Ends(n) \/ RunsPast(n)
    BY <1>2, <2>1, <2>3 DEF GentleStep
  <2> QED BY <2>1, <2>2, <2>3, CallsDelivery
<1> QED BY <1>2, <1>3, <1>4, <1>5, <1>6
        DEF Next, Collections, Main, Writes, Worker, GentleStep

LEMMA DeliveryAlways == Spec => [](CoreInv /\ DeliveryInv)
<1>1. CoreInv /\ DeliveryInv /\ [Next]_vars => CoreInv' /\ DeliveryInv'
  BY StepsKeepCore, StepsKeepDelivery
<1> QED BY InitCore, InitDelivery, <1>1, PTL DEF Spec

\* No callback is told of a commit that the Realm does not read yet: what
\* do_add_changes accumulates for a later version never reaches it early.
THEOREM ToldOfWhatIsReadAlways == Spec => []ToldOfWhatIsRead
<1>1. DeliveryInv => ToldOfWhatIsRead
  BY DEF DeliveryInv
<1> QED BY DeliveryAlways, <1>1, PTL

\* No callback is told of a commit twice: neither what has accumulated for it
\* nor what is on its way was told before, unless the worker compared with
\* other rows than those of the version its notifier was at.
THEOREM OnlyNewsAlways == Spec => []OnlyNews
<1>1. CoreInv /\ DeliveryInv => OnlyNews
  <2> SUFFICES ASSUME DeliveryInv, "unread" \notin excuses,
                      NEW n \in Notifier, NEW i \in DOMAIN notifiers[n].callbacks,
                      notifiers[n].callbacks[i].initialDelivered
               PROVE  LET c == notifiers[n].callbacks[i]
                      IN (c.accumulated \cup Coming(n, c)) \cap told[c.token] = {}
    BY DEF OnlyNews
  <2> DEFINE c == notifiers[n].callbacks[i]
  <2>1. CallbackFits(n, c)
    BY DEF DeliveryInv, CallbacksFit
  <2>2. c.accumulated \cap told[c.token] = {}
        /\ (InDelivery(n) => c.deliver \cap told[c.token] = {})
    BY <2>1 DEF CallbackFits
  <2> HIDE DEF c
  <2>3. Coming(n, c) = IF InDelivery(n) THEN c.deliver ELSE {}
    BY DEF Coming, InDelivery
  <2> QED BY <2>2, <2>3 DEF c
<1> QED BY DeliveryAlways, <1>1, PTL
=============================================================================
