--------------------------- MODULE RealmCoverProofs ---------------------------
(***************************************************************************)
(* That no change is lost, unless in one of the three ways in which the    *)
(* code is known to lose one.  CoverInv, on top of the core and of what is *)
(* known of deliveries, says of every callback that has had its first call *)
(* or is about to have it what covers each version up to its notifier's.   *)
(***************************************************************************)
EXTENDS RealmDeliveryProofs

\* A write transaction in which user code may run.
Written == realm.writing /\ realm.pc # "beginning"

\* What is on its way lies ahead of the loop and within the count.
OrderFits ==
  "uncounted" \notin excuses =>
    \A n \in Notifier : \A j \in DOMAIN notifiers[n].callbacks :
      LET s == notifiers[n] IN
      InDelivery(n) /\ s.callbacks[j].deliver # {} => s.index + 1 < j /\ j <= s.count

\* A write begins only when everybody who has callbacks is up to date.
WriteFits ==
  Written /\ "jumped" \notin excuses =>
    \A n \in Notifier :
      notifiers[n].callbacks # <<>> => notifiers[n].hasRun /\ notifiers[n].version = latest

\* The commit that a suppression is meant for is the next hand-over's: it is
\* about to be made, is the version to skip, or is being skipped to.
Claimed(n) ==
  LET v == notifiers[n].version + 1 IN
  \/ realm.pc = "committing"
  \/ skipVersion = v
  \/ Skipping /\ n \in worker.old /\ worker.skip = v

SuppressionFits(n, j) ==
  LET s == notifiers[n] IN
  s.callbacks[j].skipNext =>
    s.hasRun /\ s.version + 1 \in hushed[s.callbacks[j].token] /\ Claimed(n)

SuppressFits ==
  "jumped" \notin excuses =>
    \A n \in Notifier : \A j \in DOMAIN notifiers[n].callbacks : SuppressionFits(n, j)

\* It has had its first call, or is about to have it.
Due(n, j) ==
  \/ notifiers[n].callbacks[j].initialDelivered
  \/ InDelivery(n) /\ j <= notifiers[n].count

\* What it was told, or will be without the worker's doing anything.
Will(n, j) ==
  LET c == notifiers[n].callbacks[j]
  IN IF c.initialDelivered
     THEN told[c.token] \cup hushed[c.token] \cup (IF InDelivery(n) THEN c.deliver ELSE {})
     ELSE 1..realm.target \cup hushed[c.token]

\* While the Realm is ahead of a notifier, by its own write, nothing waits.
CoverFits(n, j) ==
  LET s == notifiers[n] IN
  Due(n, j) =>
    /\ realm.version <= s.version + 1
    /\ 1..s.version \subseteq Will(n, j) \cup s.callbacks[j].accumulated
    /\ s.version < realm.version \/ Written => 1..s.version \subseteq Will(n, j)

Excused == excuses \cap {"uncounted", "unheard", "jumped"} # {}

Covered ==
  ~ Excused =>
    \A n \in Notifier : \A j \in DOMAIN notifiers[n].callbacks : CoverFits(n, j)

CoverInv == OrderFits /\ WriteFits /\ SuppressFits /\ Covered

LEMMA InitCover == Init => CoverInv
<1> SUFFICES ASSUME Init PROVE CoverInv
  OBVIOUS
<1>1. \A n \in Notifier : notifiers[n].callbacks = <<>>
  BY DEF Init, Unregistered
<1>2. \A n \in Notifier : DOMAIN notifiers[n].callbacks = {}
  BY <1>1
<1> QED BY <1>1, <1>2 DEF CoverInv, OrderFits, WriteFits, SuppressFits, Covered

-----------------------------------------------------------------------------
(* Steps that leave the callbacks as they are.                             *)

\* One that has no callbacks may change otherwise.
Still(s, r) ==
  /\ r.callbacks = s.callbacks
  /\ s.callbacks # <<>> => /\ r.version = s.version /\ r.hasRun = s.hasRun
                           /\ r.index = s.index /\ r.count = s.count

QuietStep ==
  \/ \E n \in Notifier : Register(n) \/ Release(n)
  \/ (Refresh /\ ForRealm # {}) \/ Begin \/ FallAsleep \/ BeginInCallback
  \/ Commit \/ Cancel \/ OtherCommit \/ OtherNotify
  \/ RunBegins \/ RunNotifiers \/ NotifyRealms \/ UNCHANGED vars

LEMMA QuietNotifiers ==
  ASSUME CoreInv, QuietStep, NEW n \in Notifier
  PROVE  Still(notifiers[n], notifiers'[n])
<1> DEFINE s == notifiers[n]
           r == notifiers'[n]
<1>1. s \in NotifierState(Version) /\ notifiers \in [Notifier -> NotifierState(Version)]
  BY CoreFacts DEF Parts
<1>2. ASSUME r = s PROVE Still(s, r)
  BY <1>2 DEF Still
<1>3. ASSUME NEW m \in Notifier, Register(m)
      PROVE  Still(s, r)
  <2>1. CASE m # n
    BY <1>1, <1>2, <1>3, <2>1 DEF Register
  <2>2. CASE m = n
    <3>1. r = Registered(realm.version) /\ realm.version \in Version
      BY <1>1, <1>3, <2>2, CoreFacts DEF Register, Version
    <3>2. r.callbacks = <<>>
      BY <3>1, RegisteredFacts
    <3>3. s.place = "none"
      BY <1>3, <2>2 DEF Register
    <3>4. s.callbacks = <<>>
      <4>1. SoundState(s)
        BY CoreFacts DEF Sound
      <4> QED BY <3>3, <4>1 DEF SoundState
    <3> QED BY <3>2, <3>4 DEF Still
  <2> QED BY <2>1, <2>2
<1>4. ASSUME NEW m \in Notifier, Release(m)
      PROVE  Still(s, r)
  <2>1. CASE m # n
    BY <1>1, <1>2, <1>4, <2>1 DEF Release
  <2>2. CASE m = n
    <3>1. r = Unregister(s)
      BY <1>1, <1>4, <2>2 DEF Release
    <3> HIDE DEF s, r
    <3> QED BY <1>1, <3>1, UnregisterFacts DEF Still
  <2> QED BY <2>1, <2>2
<1>5. ASSUME RunBegins
      PROVE  Still(s, r)
  <2>1. r = s \/ r = [s EXCEPT !.place = "main"] \/ r = [s EXCEPT !.place = "gone"]
    BY <1>5 DEF RunBegins, CleanedUp
  <2> HIDE DEF s, r
  <2> QED BY <1>1, <2>1 DEF NotifierState, Still
<1>6. ASSUME RunNotifiers
      PROVE  Still(s, r)
  <2>1. r = IF n \in RunSet THEN Run(s, RunTarget) ELSE s
    BY <1>6 DEF RunNotifiers
  <2>2. RunTarget \in 1..MaxVersion /\ MaxVersion \in Nat
    BY <1>6, RunTargetFacts, CoreFacts DEF RunNotifiers, Underway
  <2>3. s \in NotifierState(1..MaxVersion)
    BY <1>1 DEF Version
  <2> HIDE DEF s, r
  <2> QED BY <2>1, <2>2, <2>3, RunFacts DEF Still
<1>7. ASSUME \/ Refresh \/ Begin \/ FallAsleep \/ BeginInCallback
             \/ Commit \/ Cancel \/ OtherCommit \/ OtherNotify
             \/ NotifyRealms \/ UNCHANGED vars
      PROVE  Still(s, r)
  <2>1. UNCHANGED notifiers
    BY <1>7 DEF Refresh, Begin, FallAsleep, BeginInCallback, Commit, Cancel,
                OtherCommit, OtherNotify, NotifyRealms, vars
  <2> QED BY <1>2, <2>1
<1> QED BY <1>3, <1>4, <1>5, <1>6, <1>7 DEF QuietStep

\* What a quiet step does to the rest.
Quiet ==
  /\ \A n \in Notifier :
       /\ Still(notifiers[n], notifiers'[n])
       /\ InDelivery(n)' <=> InDelivery(n)
       /\ InDelivery(n) => realm'.target = realm.target
  /\ UNCHANGED <<told, hushed>> /\ excuses \subseteq excuses'

LEMMA QuietStepIsQuiet ==
  ASSUME CoreInv, QuietStep, [Next]_vars
  PROVE  Quiet
<1>1. GentleStep
  BY DEF QuietStep, GentleStep
<1>2. /\ \A n \in Notifier : InDelivery(n)' => InDelivery(n) /\ realm'.target = realm.target
      /\ UNCHANGED told
  BY <1>1, GentleMain
<1>3. UNCHANGED hushed
  BY DEF QuietStep, Register, Release, Refresh, Begin, FallAsleep, BeginInCallback,
         Commit, Cancel, OtherCommit, OtherNotify, RunBegins, RunNotifiers, NotifyRealms, vars
<1>4. ASSUME realm.pc = "calling"
      PROVE  realm'.pc = "calling" /\ UNCHANGED <<realm.cur, realm.package>>
  <2>1. realm \in RealmState
    BY CoreFacts DEF Parts
  <2>2. CASE UNCHANGED realm
    BY <1>4, <2>2
  <2>3. CASE BeginInCallback \/ Cancel
    BY <1>4, <2>1, <2>3 DEF RealmState, BeginInCallback, Cancel
  <2>4. CASE Commit
    <3>1. realm' = [realm EXCEPT !.version = latest', !.writing = FALSE, !.pc = "calling"]
      BY <1>4, <2>4 DEF Commit
    <3> QED BY <2>1, <3>1 DEF RealmState
  <2> QED BY <1>4, <2>2, <2>3, <2>4
          DEF QuietStep, Register, Release, Refresh, Begin, FallAsleep, Waiting,
              OtherCommit, OtherNotify, RunBegins, RunNotifiers, NotifyRealms, vars
<1>5. \A n \in Notifier : InDelivery(n) => InDelivery(n)'
  BY <1>4 DEF InDelivery
<1> QED BY <1>2, <1>3, <1>5, QuietNotifiers, ExcusesGrow DEF Quiet

LEMMA QuietWritten ==
  ASSUME CoreInv, QuietStep
  PROVE  \/ /\ realm'.version = realm.version
            /\ Written' => Written /\ latest' = latest
         \/ Begin /\ ForRealm = {}
         \/ BeginInCallback
         \/ Commit
<1>1. realm \in RealmState
  BY CoreFacts DEF Parts
<1>2. CASE UNCHANGED <<realm, latest>>
  BY <1>2 DEF Written
<1>3. CASE OtherCommit
  BY <1>3 DEF OtherCommit, Written
<1>4. CASE Begin /\ ForRealm # {}
  BY <1>1, <1>4 DEF Begin, StartWaiting, RealmState, Written
<1>5. CASE Refresh /\ ForRealm # {}
  BY <1>1, <1>5 DEF Refresh, StartWaiting, RealmState, Written
<1>6. CASE FallAsleep
  BY <1>1, <1>6 DEF FallAsleep, RealmState, Written
<1>7. CASE Cancel
  BY <1>1, <1>7 DEF Cancel, RealmState, Written
<1> QED BY <1>2, <1>3, <1>4, <1>5, <1>6, <1>7
        DEF QuietStep, Register, Release, OtherNotify, RunBegins, RunNotifiers,
            NotifyRealms, vars

\* Who has callbacks is in a list that the main thread waits for.
LEMMA WithCallbacks ==
  ASSUME CoreInv, NEW n \in Notifier, NEW j \in DOMAIN notifiers[n].callbacks
  PROVE  /\ notifiers[n].callbacks # <<>> /\ n \in ForRealm
         /\ notifiers[n].alive /\ notifiers[n].haveCallbacks
         /\ notifiers[n].hasRun => n \in Listed /\ n \in HaveRun(ForRealm)
<1>1. notifiers[n].callbacks # <<>>
  BY Fields DEF CoreInv
<1>2. SoundState(notifiers[n])
  BY CoreFacts DEF Sound
<1> QED BY <1>1, <1>2, HaveRunFacts DEF SoundState, HaveRun, ForRealm, Listed

LEMMA QuietOrder ==
  ASSUME CoverInv, Quiet
  PROVE  OrderFits'
<1> SUFFICES ASSUME "uncounted" \notin excuses', NEW n \in Notifier,
                    NEW j \in DOMAIN notifiers'[n].callbacks,
                    InDelivery(n)', notifiers'[n].callbacks[j].deliver # {}
             PROVE  notifiers'[n].index + 1 < j /\ j <= notifiers'[n].count
  BY DEF OrderFits
<1>1. notifiers[n].callbacks # <<>>
  BY DEF Quiet, Still
<1> QED BY <1>1 DEF CoverInv, OrderFits, Quiet, Still

\* What BeginInCallback has found unless it is excused.
LEMMA BeginInCallbackFacts ==
  ASSUME CoreInv, BeginInCallback, "jumped" \notin excuses'
  PROVE  /\ latest = realm.version /\ realm'.version = realm.version
         /\ \A n \in Notifier : \A j \in DOMAIN notifiers[n].callbacks :
              /\ notifiers[n].hasRun /\ notifiers[n].version = latest
              /\ notifiers[n].callbacks[j].accumulated = {}
<1>1. /\ latest = realm.version /\ ReadyFor(ForRealm, latest)
      /\ \A n \in ForRealm : \A i \in DOMAIN notifiers[n].callbacks :
           notifiers[n].callbacks[i].accumulated = {}
  BY DEF BeginInCallback
<1>2. realm'.version = latest
  BY CoreFacts DEF BeginInCallback, Parts, RealmState
<1> SUFFICES ASSUME NEW n \in Notifier, NEW j \in DOMAIN notifiers[n].callbacks
             PROVE  /\ notifiers[n].hasRun /\ notifiers[n].version = latest
                    /\ notifiers[n].callbacks[j].accumulated = {}
  BY <1>1, <1>2
<1>3. n \in ForRealm /\ notifiers[n].haveCallbacks
  BY WithCallbacks
<1>4. notifiers[n].version <= latest /\ notifiers[n].version \in Int /\ latest \in Int
  BY CoreFacts, Fields DEF CoreInv, Sound
<1> QED BY <1>1, <1>3, <1>4 DEF ReadyFor

LEMMA QuietWrite ==
  ASSUME CoreInv, CoverInv, QuietStep, Quiet
  PROVE  WriteFits'
<1> SUFFICES ASSUME Written', "jumped" \notin excuses', NEW n \in Notifier,
                    notifiers'[n].callbacks # <<>>
             PROVE  notifiers'[n].hasRun /\ notifiers'[n].version = latest'
  BY DEF WriteFits
<1>1. /\ notifiers[n].callbacks # <<>> /\ "jumped" \notin excuses
      /\ notifiers'[n].version = notifiers[n].version
      /\ notifiers'[n].hasRun = notifiers[n].hasRun
  BY DEF Quiet, Still
<1>2. CASE Written /\ latest' = latest
  BY <1>1, <1>2 DEF CoverInv, WriteFits
<1>3. CASE Begin /\ ForRealm = {}
  BY <1>1, <1>3, HaveRunFacts
<1>4. CASE BeginInCallback
  <2>1. 1 \in DOMAIN notifiers[n].callbacks
    BY <1>1, Fields DEF CoreInv
  <2> QED BY <1>1, <1>4, <2>1, BeginInCallbackFacts DEF BeginInCallback
<1>5. CASE Commit
  BY <1>5, CoreFacts DEF Commit, Written, Parts, RealmState
<1> QED BY <1>2, <1>3, <1>4, <1>5, QuietWritten

LEMMA CommitClaims ==
  ASSUME CoreInv, CoverInv, Commit, "jumped" \notin excuses, NEW n \in Notifier,
         notifiers[n].callbacks # <<>>
  PROVE  /\ notifiers[n].hasRun /\ notifiers[n].version = latest /\ Written
         /\ skipVersion' = notifiers[n].version + 1
<1>1. Written
  BY DEF Commit, Written, UserCode, InCallback
<1>2. notifiers[n].hasRun /\ notifiers[n].version = latest
  BY <1>1 DEF CoverInv, WriteFits
<1>3. n \in ForRealm /\ notifiers[n].place = "main"
  <2>1. 1 \in DOMAIN notifiers[n].callbacks
    BY Fields DEF CoreInv
  <2> QED BY <1>2, <2>1, WithCallbacks DEF Listed
<1> QED BY <1>1, <1>2, <1>3 DEF Commit

LEMMA QuietClaims ==
  ASSUME CoreInv, CoverInv, QuietStep, Quiet, "jumped" \notin excuses',
         NEW n \in Notifier, NEW j \in DOMAIN notifiers[n].callbacks,
         notifiers[n].hasRun, Claimed(n)
  PROVE  Claimed(n)'
<1> DEFINE v == notifiers[n].version + 1
<1>1. /\ notifiers[n].callbacks # <<>> /\ notifiers[n].alive /\ notifiers[n].place = "main"
  BY WithCallbacks DEF Listed
<1>2. notifiers'[n].version = notifiers[n].version /\ "jumped" \notin excuses
  BY <1>1 DEF Quiet, Still
<1>3. realm.pc = "committing" \/ skipVersion = v \/ (Skipping /\ n \in worker.old /\ worker.skip = v)
  BY DEF Claimed
<1>4. v \in Int /\ v # 0
  <2>1. notifiers[n].version \in Nat
    BY Fields, CoreFacts DEF CoreInv
  <2> QED BY <2>1
<1>5. CASE /\ UNCHANGED <<skipVersion, worker>>
           /\ realm.pc = "committing" => realm'.pc = "committing"
  BY <1>2, <1>3, <1>5 DEF Claimed, Skipping
<1>6. CASE Commit
  BY <1>1, <1>2, <1>6, CommitClaims DEF Claimed
<1>7. CASE RunBegins
  <2>1. worker.pc = "idle" /\ UNCHANGED realm /\ ~ Skipping
    BY <1>7 DEF RunBegins, Skipping
  <2>2. CASE skipVersion = v
    <3>1. n \in Alive("main")
      BY <1>1 DEF Alive
    <3>2. SkipAfterCleanUp = v
      BY <2>2, <3>1 DEF SkipAfterCleanUp
    <3>3. worker' = [pc |-> "skipping", target |-> latest, skip |-> v,
                     old |-> Alive("main"), new |-> Alive("new")]
      BY <1>4, <1>7, <3>1, <3>2 DEF RunBegins
    <3> HIDE DEF v
    <3>4. worker'.pc = "skipping" /\ worker'.skip = v /\ worker'.old = Alive("main")
      BY <3>3
    <3> QED BY <1>2, <3>1, <3>4 DEF Claimed, Skipping, v
  <2>3. CASE realm.pc = "committing"
    BY <2>1, <2>3 DEF Claimed
  <2> QED BY <1>3, <2>1, <2>2, <2>3
<1>8. CASE RunNotifiers
  <2>1. /\ UNCHANGED <<skipVersion, realm>>
        /\ worker' = [worker EXCEPT !.pc = IF worker.pc = "skipping" THEN "skipped" ELSE "ran"]
        /\ worker.pc \in {"skipping", "running"}
    BY <1>8 DEF RunNotifiers
  <2>2. /\ worker'.skip = worker.skip /\ worker'.old = worker.old
        /\ worker.pc = "skipping" => worker'.pc = "skipped"
    BY <2>1, CoreFacts DEF Parts, WorkerState
  <2> QED BY <1>2, <1>3, <2>1, <2>2 DEF Claimed, Skipping
<1>9. CASE NotifyRealms
  BY <1>2, <1>3, <1>9 DEF NotifyRealms, Claimed, Skipping
<1>10. CASE \/ \E m \in Notifier : Register(m) \/ Release(m)
            \/ (Refresh /\ ForRealm # {}) \/ Begin \/ FallAsleep \/ BeginInCallback
            \/ Cancel \/ OtherCommit \/ OtherNotify \/ UNCHANGED vars
  <2>1. UNCHANGED <<skipVersion, worker>>
    BY <1>10 DEF Register, Release, Refresh, Begin, FallAsleep, BeginInCallback, Cancel,
                 OtherCommit, OtherNotify, vars
  <2>2. realm.pc = "committing" => UNCHANGED realm
    BY <1>10 DEF Register, Release, Refresh, Begin, FallAsleep, Waiting, BeginInCallback,
                 InCallback, Cancel, UserCode, OtherCommit, OtherNotify, vars
  <2> QED BY <1>5, <2>1, <2>2
<1> QED BY <1>6, <1>7, <1>8, <1>9, <1>10 DEF QuietStep

LEMMA QuietSuppress ==
  ASSUME CoreInv, CoverInv, QuietStep, Quiet
  PROVE  SuppressFits'
<1> SUFFICES ASSUME "jumped" \notin excuses', NEW n \in Notifier,
                    NEW j \in DOMAIN notifiers'[n].callbacks
             PROVE  SuppressionFits(n, j)'
  BY DEF SuppressFits
<1>1. notifiers'[n].callbacks = notifiers[n].callbacks /\ UNCHANGED hushed
      /\ "jumped" \notin excuses
  BY DEF Quiet, Still
<1>2. SuppressionFits(n, j)
  BY <1>1 DEF CoverInv, SuppressFits
<1>3. notifiers[n].callbacks # <<>>
  BY <1>1, WithCallbacks
<1>4. notifiers'[n].version = notifiers[n].version /\ notifiers'[n].hasRun = notifiers[n].hasRun
  BY <1>3 DEF Quiet, Still
<1>5. notifiers[n].hasRun /\ Claimed(n) => Claimed(n)'
  BY <1>1, QuietClaims
<1> QED BY <1>1, <1>2, <1>4, <1>5 DEF SuppressionFits

\* A callback at i before the step that is at j after it stays covered if
\* the Realm does not get further ahead, or if nothing waits for it.
Calm(n, i, j) ==
  /\ Alike(notifiers[n].callbacks[i], notifiers'[n].callbacks[j])
  /\ notifiers'[n].version = notifiers[n].version
  /\ InDelivery(n)' <=> InDelivery(n)
  /\ InDelivery(n) => realm'.target = realm.target
  /\ Due(n, j)' => Due(n, i)
  /\ told'[notifiers[n].callbacks[i].token] = told[notifiers[n].callbacks[i].token]
  /\ hushed[notifiers[n].callbacks[i].token] \subseteq hushed'[notifiers[n].callbacks[i].token]
  /\ Due(n, i) /\ realm.version <= notifiers[n].version + 1 =>
       /\ realm'.version <= notifiers[n].version + 1
       /\ notifiers[n].version < realm'.version \/ Written' =>
            \/ notifiers[n].version < realm.version \/ Written
            \/ notifiers[n].callbacks[i].accumulated = {}

LEMMA CalmKeeps ==
  ASSUME NEW n \in Notifier, NEW i, NEW j, CoverFits(n, i), Calm(n, i, j)
  PROVE  CoverFits(n, j)'
<1> SUFFICES ASSUME Due(n, j)'
             PROVE  LET r == notifiers'[n] IN
                    /\ realm'.version <= r.version + 1
                    /\ 1..r.version \subseteq Will(n, j)' \cup r.callbacks[j].accumulated
                    /\ r.version < realm'.version \/ Written' =>
                         1..r.version \subseteq Will(n, j)'
  BY DEF CoverFits
<1> DEFINE s == notifiers[n]
           c == s.callbacks[i]
           d == notifiers'[n].callbacks[j]
<1>1. /\ Due(n, i) /\ notifiers'[n].version = s.version /\ d.accumulated = c.accumulated
      /\ realm.version <= s.version + 1
      /\ 1..s.version \subseteq Will(n, i) \cup c.accumulated
      /\ s.version < realm.version \/ Written => 1..s.version \subseteq Will(n, i)
  BY DEF Calm, CoverFits, Alike
<1>2. Will(n, i) \subseteq Will(n, j)'
  <2>1. /\ d.token = c.token /\ d.deliver = c.deliver
        /\ d.initialDelivered = c.initialDelivered
        /\ told'[c.token] = told[c.token] /\ hushed[c.token] \subseteq hushed'[c.token]
        /\ InDelivery(n)' <=> InDelivery(n)
        /\ InDelivery(n) => realm'.target = realm.target
    BY DEF Calm, Alike
  <2>2. CASE c.initialDelivered
    <3>1. Will(n, i) = told[c.token] \cup hushed[c.token]
                         \cup (IF InDelivery(n) THEN c.deliver ELSE {})
      BY <2>2 DEF Will
    <3>2. Will(n, j)' = told'[c.token] \cup hushed'[c.token]
                         \cup (IF InDelivery(n) THEN c.deliver ELSE {})
      BY <2>1, <2>2 DEF Will
    <3> QED BY <2>1, <3>1, <3>2
  <2>3. CASE ~ c.initialDelivered
    <3>1. InDelivery(n)
      BY <1>1, <2>3 DEF Due
    <3>2. Will(n, i) = 1..realm.target \cup hushed[c.token]
      BY <2>3 DEF Will
    <3>3. Will(n, j)' = 1..realm'.target \cup hushed'[c.token]
      BY <2>1, <2>3 DEF Will
    <3> QED BY <2>1, <3>1, <3>2, <3>3
  <2> QED BY <2>2, <2>3
<1>3. /\ realm'.version <= s.version + 1
      /\ s.version < realm'.version \/ Written' =>
           s.version < realm.version \/ Written \/ c.accumulated = {}
  BY <1>1 DEF Calm
<1> HIDE DEF c, d, s
<1>4. 1..s.version \subseteq Will(n, j)' \cup d.accumulated
  BY <1>1, <1>2
<1>5. s.version < realm'.version \/ Written' => 1..s.version \subseteq Will(n, j)'
  BY <1>1, <1>2, <1>3
<1> QED BY <1>1, <1>3, <1>4, <1>5 DEF d

LEMMA QuietCover ==
  ASSUME CoreInv, CoverInv, QuietStep, Quiet
  PROVE  Covered'
<1> SUFFICES ASSUME ~ Excused', NEW n \in Notifier, NEW j \in DOMAIN notifiers'[n].callbacks
             PROVE  CoverFits(n, j)'
  BY DEF Covered
<1>1. notifiers'[n].callbacks = notifiers[n].callbacks
  BY DEF Quiet, Still
<1>2. ~ Excused /\ "jumped" \notin excuses' /\ "jumped" \notin excuses
  BY DEF Quiet, Excused
<1>3. CoverFits(n, j)
  BY <1>1, <1>2 DEF CoverInv, Covered
<1>4. notifiers[n].callbacks # <<>>
  BY <1>1, WithCallbacks
<1>5. /\ notifiers'[n].version = notifiers[n].version
      /\ notifiers'[n].count = notifiers[n].count
      /\ InDelivery(n)' <=> InDelivery(n)
      /\ InDelivery(n) => realm'.target = realm.target
      /\ UNCHANGED <<told, hushed>>
  BY <1>4 DEF Quiet, Still
<1>6. realm.version <= notifiers[n].version + 1 =>
        /\ realm'.version <= notifiers[n].version + 1
        /\ notifiers[n].version < realm'.version \/ Written' =>
             \/ notifiers[n].version < realm.version \/ Written
             \/ notifiers[n].callbacks[j].accumulated = {}
  <2>1. CASE realm'.version = realm.version /\ (Written' => Written)
    BY <2>1
  <2>2. CASE Begin /\ ForRealm = {}
    BY <1>1, <2>2, WithCallbacks
  <2>3. CASE BeginInCallback
    BY <1>1, <1>2, <2>3, BeginInCallbackFacts
  <2>4. CASE Commit
    <3>1. notifiers[n].version = latest /\ Written
      BY <1>2, <1>4, <2>4, CommitClaims
    <3>2. realm'.version = latest + 1 /\ latest \in Int
      BY <2>4, CoreFacts DEF Commit, Parts, RealmState
    <3> QED BY <3>1, <3>2
  <2> QED BY <2>1, <2>2, <2>3, <2>4, QuietWritten
<1>7. Due(n, j)' => Due(n, j)
  BY <1>1, <1>5 DEF Due
<1>8. Calm(n, j, j)
  BY <1>1, <1>5, <1>6, <1>7 DEF Calm, Alike
<1> QED BY <1>3, <1>8, CalmKeeps

LEMMA QuietKeeps ==
  ASSUME CoreInv, CoverInv, QuietStep, [Next]_vars
  PROVE  CoverInv'
BY QuietStepIsQuiet, QuietOrder, QuietWrite, QuietSuppress, QuietCover DEF CoverInv

-----------------------------------------------------------------------------
(* Steps that change callbacks.                                            *)

\* A step of the main thread with the callbacks, which skip what they skipped.
SkipsKept(n) ==
  /\ notifiers'[n].version = notifiers[n].version
  /\ notifiers'[n].hasRun = notifiers[n].hasRun
  /\ \A j \in DOMAIN notifiers'[n].callbacks :
       notifiers'[n].callbacks[j].skipNext =>
         \E i \in DOMAIN notifiers[n].callbacks :
           /\ notifiers[n].callbacks[i].skipNext
           /\ notifiers[n].callbacks[i].token = notifiers'[n].callbacks[j].token

LEMMA LocalSuppress ==
  ASSUME CoverInv, UNCHANGED <<worker, skipVersion, hushed>>,
         excuses \subseteq excuses',
         realm.pc = "committing" => realm'.pc = "committing",
         \A n \in Notifier : SkipsKept(n)
  PROVE  SuppressFits'
<1> SUFFICES ASSUME "jumped" \notin excuses', NEW n \in Notifier,
                    NEW j \in DOMAIN notifiers'[n].callbacks,
                    notifiers'[n].callbacks[j].skipNext
             PROVE  LET r == notifiers'[n] IN
                    /\ r.hasRun /\ r.version + 1 \in hushed'[r.callbacks[j].token]
                    /\ Claimed(n)'
  BY DEF SuppressFits, SuppressionFits
<1>1. PICK i \in DOMAIN notifiers[n].callbacks :
        /\ notifiers[n].callbacks[i].skipNext
        /\ notifiers[n].callbacks[i].token = notifiers'[n].callbacks[j].token
  BY DEF SkipsKept
<1>2. SuppressionFits(n, i)
  BY DEF CoverInv, SuppressFits
<1>3. notifiers'[n].version = notifiers[n].version /\ notifiers'[n].hasRun = notifiers[n].hasRun
  BY DEF SkipsKept
<1> QED BY <1>1, <1>2, <1>3 DEF SuppressionFits, Claimed, Skipping

LEMMA LocalWrite ==
  ASSUME CoverInv, UNCHANGED latest, excuses \subseteq excuses', Written' => Written,
         \A n \in Notifier :
           /\ notifiers'[n].version = notifiers[n].version
           /\ notifiers'[n].hasRun = notifiers[n].hasRun
           /\ Written' /\ notifiers'[n].callbacks # <<>> => notifiers[n].callbacks # <<>>
  PROVE  WriteFits'
BY DEF CoverInv, WriteFits

\* Callbacks that are somewhere after the step were somewhere before.
LEMMA CalmCover ==
  ASSUME CoverInv, ~ Excused,
         NEW n \in Notifier, NEW i \in DOMAIN notifiers[n].callbacks, NEW j, Calm(n, i, j)
  PROVE  CoverFits(n, j)'
<1>1. CoverFits(n, i)
  BY DEF CoverInv, Covered
<1> QED BY <1>1, CalmKeeps

LEMMA AddCover ==
  ASSUME CoreInv, DeliveryInv, CoverInv, NEW n \in Notifier, NEW t \in Token, Add(n, t)
  PROVE  CoverInv'
<1> DEFINE s == notifiers[n]
           r == AddCallback(s, t)
<1>1. /\ s \in NotifierState(Version) /\ s.index \in Int /\ s.count \in Int
      /\ Len(s.callbacks) \in Nat /\ DOMAIN s.callbacks = 1..Len(s.callbacks)
  BY Fields DEF CoreInv
<1>2. /\ notifiers' = [notifiers EXCEPT ![n] = r]
      /\ UNCHANGED <<latest, realm, worker, skipVersion, hushed>>
      /\ told[t] = {} /\ told' = [told EXCEPT ![t] = {1}]
      /\ excuses \subseteq excuses' /\ ~ realm.writing
  BY DEF Add
<1>3. told \in [Token -> SUBSET Version]
  BY DEF CoreInv, TypeOK
<1> HIDE DEF s
<1> PICK last : last = Len(s.callbacks) + 1
  OBVIOUS
<1>4. /\ r \in NotifierState(Version)
      /\ Apart(s, r) /\ r.index = s.index /\ r.count = s.count
      /\ Len(r.callbacks) = last
      /\ \A j \in DOMAIN s.callbacks : r.callbacks[j] = s.callbacks[j]
      /\ r.callbacks[last].deliver = {}
      /\ ~ r.callbacks[last].initialDelivered /\ ~ r.callbacks[last].skipNext
  BY <1>1, AddCallbackFacts
<1> HIDE DEF r
<1>5. DOMAIN r.callbacks = DOMAIN s.callbacks \cup {last} /\ last \notin DOMAIN s.callbacks
  <2>1. r.callbacks \in Seq(CallbackState(Version))
    BY <1>4, NotifierFields
  <2>2. DOMAIN r.callbacks = 1..Len(r.callbacks)
    BY <2>1, LenProperties
  <2> QED BY <1>1, <1>4, <2>2
<1>6. /\ notifiers'[n] = r
      /\ \A m \in Notifier \ {n} : notifiers'[m] = notifiers[m]
  BY <1>2, CoreFacts DEF Parts
<1>7. /\ \A m \in Notifier : InDelivery(m)' <=> InDelivery(m)
      /\ ~ Written' /\ ~ Written
  BY <1>2 DEF InDelivery, Written
<1>8. "uncounted" \notin excuses /\ InDelivery(n) => s.count < last
  <2>1. "uncounted" \notin excuses /\ InDelivery(n) =>
          notifiers[n].count <= Len(notifiers[n].callbacks)
    <3>1. CountFitsIfCounted
      BY CoreFacts
    <3> QED BY <3>1 DEF CountFitsIfCounted, CountFits, InDelivery
  <2> QED BY <1>1, <2>1 DEF s
<1>9. \A m \in Notifier : \A j \in DOMAIN notifiers[m].callbacks :
        LET c == notifiers[m].callbacks[j] IN told'[c.token] = told[c.token]
  <2> SUFFICES ASSUME NEW m \in Notifier, NEW j \in DOMAIN notifiers[m].callbacks
               PROVE  LET c == notifiers[m].callbacks[j] IN told'[c.token] = told[c.token]
    OBVIOUS
  <2>1. notifiers[m].callbacks[j].token \in Token
    BY CallbackFields, Fields DEF CoreInv
  <2>2. told[notifiers[m].callbacks[j].token] # {}
    BY DEF DeliveryInv, CallbacksFit, CallbackFits
  <2> QED BY <1>2, <1>3, <2>1, <2>2
<1>10. \A m \in Notifier : \A j \in DOMAIN notifiers'[m].callbacks :
         \/ /\ j \in DOMAIN notifiers[m].callbacks
            /\ notifiers'[m].callbacks[j] = notifiers[m].callbacks[j]
         \/ m = n /\ j = last
  BY <1>4, <1>5, <1>6 DEF s
<1>11. \A m \in Notifier : /\ notifiers'[m].version = notifiers[m].version
                           /\ notifiers'[m].hasRun = notifiers[m].hasRun
                           /\ notifiers'[m].index = notifiers[m].index
                           /\ notifiers'[m].count = notifiers[m].count
  BY <1>4, <1>6 DEF Apart, s
<1>12. OrderFits'
  BY <1>2, <1>4, <1>6, <1>7, <1>10, <1>11 DEF CoverInv, OrderFits
<1>13. WriteFits'
  BY <1>7 DEF WriteFits
<1>14. SuppressFits'
  <2>1. \A m \in Notifier : SkipsKept(m)
    BY <1>4, <1>6, <1>10, <1>11 DEF SkipsKept
  <2> QED BY <1>2, <2>1, LocalSuppress
<1>15. Covered'
  <2> SUFFICES ASSUME ~ Excused', NEW m \in Notifier, NEW j \in DOMAIN notifiers'[m].callbacks
               PROVE  CoverFits(m, j)'
    BY DEF Covered
  <2>1. ~ Excused /\ "uncounted" \notin excuses
    BY <1>2 DEF Excused
  <2>2. CASE /\ j \in DOMAIN notifiers[m].callbacks
             /\ notifiers'[m].callbacks[j] = notifiers[m].callbacks[j]
    <3>1. Calm(m, j, j)
      BY <1>2, <1>7, <1>9, <1>11, <2>2 DEF Calm, Alike, Due
    <3> QED BY <2>1, <2>2, <3>1, CalmCover
  <2>3. CASE m = n /\ j = last
    <3>1. ~ Due(m, j)'
      BY <1>1, <1>4, <1>6, <1>7, <1>8, <2>1, <2>3 DEF Due
    <3> QED BY <3>1 DEF CoverFits
  <2> QED BY <1>10, <2>2, <2>3
<1> QED BY <1>12, <1>13, <1>14, <1>15 DEF CoverInv

LEMMA RemoveCover ==
  ASSUME CoreInv, CoverInv, NEW n \in Notifier, NEW t \in Token, Remove(n, t)
  PROVE  CoverInv'
<1> DEFINE s == notifiers[n]
           r == RemoveCallback(s, t)
<1> PICK gap : gap = PositionOf(s, t)
  OBVIOUS
<1>1. /\ s \in NotifierState(Version) /\ s.index \in Int /\ s.count \in Int
      /\ DOMAIN s.callbacks = 1..Len(s.callbacks) /\ Len(s.callbacks) \in Nat
      /\ s.index < Len(s.callbacks) /\ -1 <= s.index
  BY Fields, CoreFacts DEF CoreInv, Sound, SoundState
<1>2. /\ notifiers' = [notifiers EXCEPT ![n] = r] /\ t \in Tokens(s)
      /\ UNCHANGED <<latest, realm, worker, skipVersion, told, hushed>>
      /\ excuses \subseteq excuses'
      /\ "uncounted" \notin excuses' /\ InDelivery(n) => gap <= s.count
  <2>1. /\ notifiers' = [notifiers EXCEPT ![n] = r] /\ t \in Tokens(s)
        /\ UNCHANGED <<latest, realm, worker, skipVersion, told, hushed>>
        /\ excuses \subseteq excuses'
    BY DEF Remove
  <2>2. InDelivery(n) /\ gap > s.count => "uncounted" \in excuses'
    BY DEF Remove, InDelivery
  <2>3. gap \in Int
    BY <1>1, <2>1, PositionFacts
  <2> QED BY <1>1, <2>1, <2>2, <2>3
<1>3. /\ Apart(s, r) /\ r \in NotifierState(Version)
      /\ gap \in DOMAIN s.callbacks
      /\ r.index = IF s.index # -1 /\ s.index >= gap - 1 THEN s.index - 1 ELSE s.index
      /\ gap <= s.count => r.count = s.count - 1
      /\ \A j \in DOMAIN r.callbacks :
           /\ (j < gap => j \in DOMAIN s.callbacks /\ r.callbacks[j] = s.callbacks[j])
           /\ (j >= gap => j + 1 \in DOMAIN s.callbacks
                           /\ r.callbacks[j] = s.callbacks[j + 1])
  <2>1. s \in NotifierState(Version) /\ t \in Tokens(s)
    BY <1>1, <1>2
  <2>2. gap \in 1..Len(s.callbacks) /\ s.count \in Int
    BY <1>1, <2>1, PositionFacts
  <2> HIDE DEF s
  <2>3. gap <= s.count => s.count # 0
    BY <2>2
  <2> QED BY <2>1, <2>3, RemoveCallbackFacts
<1> HIDE DEF s, r
<1>4. DOMAIN r.callbacks \subseteq Int /\ gap \in Int
  BY <1>1, <1>3, NotifierFields, LenProperties
<1>5. /\ notifiers'[n] = r
      /\ \A m \in Notifier \ {n} : notifiers'[m] = notifiers[m]
  BY <1>2, CoreFacts DEF Parts
<1>6. /\ \A m \in Notifier : InDelivery(m)' <=> InDelivery(m)
      /\ Written' <=> Written
  BY <1>2 DEF InDelivery, Written
\* Where a callback came from; the index and the count follow it.
<1>7. ASSUME NEW j \in DOMAIN r.callbacks
      PROVE  \E i \in DOMAIN s.callbacks :
               /\ r.callbacks[j] = s.callbacks[i]
               /\ gap <= s.count => (j <= r.count => i <= s.count)
               /\ gap <= s.count /\ s.index + 1 < i /\ i <= s.count =>
                    r.index + 1 < j /\ j <= r.count
  <2>1. CASE j < gap
    <3>1. j \in DOMAIN s.callbacks /\ r.callbacks[j] = s.callbacks[j]
      BY <1>3, <2>1
    <3>2. s.index + 1 < j => r.index = s.index
      BY <1>1, <1>3, <1>4, <2>1
    <3>3. gap <= s.count => j <= s.count - 1
      BY <1>1, <1>4, <2>1
    <3> QED BY <1>1, <1>3, <1>4, <3>1, <3>2, <3>3
  <2>2. CASE j >= gap
    <3>1. j + 1 \in DOMAIN s.callbacks /\ r.callbacks[j] = s.callbacks[j + 1]
      BY <1>3, <2>2
    <3>2. s.index + 1 < j + 1 => r.index + 1 < j
      <4>1. CASE s.index # -1 /\ s.index >= gap - 1
        BY <1>1, <1>3, <1>4, <4>1
      <4>2. CASE ~ (s.index # -1 /\ s.index >= gap - 1)
        <5>1. gap >= 1 /\ r.index = s.index
          BY <1>1, <1>3, <4>2
        <5> QED BY <1>1, <1>4, <2>2, <4>2, <5>1
      <4> QED BY <4>1, <4>2
    <3>3. gap <= s.count => (j <= r.count <=> j + 1 <= s.count)
      BY <1>1, <1>3, <1>4
    <3> QED BY <3>1, <3>2, <3>3
  <2> QED BY <1>4, <2>1, <2>2
<1>8. \A m \in Notifier : /\ notifiers'[m].version = notifiers[m].version
                          /\ notifiers'[m].hasRun = notifiers[m].hasRun
  BY <1>3, <1>5 DEF Apart, s
<1>9. OrderFits'
  <2> SUFFICES ASSUME "uncounted" \notin excuses', NEW m \in Notifier,
                      NEW j \in DOMAIN notifiers'[m].callbacks,
                      InDelivery(m)', notifiers'[m].callbacks[j].deliver # {}
               PROVE  notifiers'[m].index + 1 < j /\ j <= notifiers'[m].count
    BY DEF OrderFits
  <2>1. "uncounted" \notin excuses /\ InDelivery(m)
    BY <1>2, <1>6
  <2>2. CASE m # n
    BY <1>5, <2>1, <2>2 DEF CoverInv, OrderFits
  <2>3. CASE m = n
    <3>1. j \in DOMAIN r.callbacks /\ r.callbacks[j].deliver # {} /\ gap <= s.count
      BY <1>2, <1>5, <2>1, <2>3
    <3>2. PICK i \in DOMAIN s.callbacks :
            /\ r.callbacks[j] = s.callbacks[i]
            /\ gap <= s.count /\ s.index + 1 < i /\ i <= s.count =>
                 r.index + 1 < j /\ j <= r.count
      BY <1>7, <3>1
    <3>3. s.index + 1 < i /\ i <= s.count
      BY <2>1, <2>3, <3>1, <3>2 DEF CoverInv, OrderFits, s
    <3> QED BY <1>5, <2>3, <3>1, <3>2, <3>3
  <2> QED BY <2>2, <2>3
<1>10. WriteFits'
  <2>1. notifiers'[n].callbacks # <<>> => notifiers[n].callbacks # <<>>
    <3>1. s.callbacks = <<>> => DOMAIN s.callbacks = {}
      OBVIOUS
    <3> QED BY <1>3, <3>1 DEF s
  <2>2. \A m \in Notifier : notifiers'[m].callbacks # <<>> => notifiers[m].callbacks # <<>>
    BY <1>5, <2>1
  <2> QED BY <1>2, <1>6, <1>8, <2>2, LocalWrite
<1>11. SuppressFits'
  <2>1. SkipsKept(n)
    BY <1>5, <1>7, <1>8 DEF SkipsKept, s
  <2>2. \A m \in Notifier \ {n} : SkipsKept(m)
    BY <1>5 DEF SkipsKept
  <2> QED BY <1>2, <2>1, <2>2, LocalSuppress
<1>12. Covered'
  <2> SUFFICES ASSUME ~ Excused', NEW m \in Notifier, NEW j \in DOMAIN notifiers'[m].callbacks
               PROVE  CoverFits(m, j)'
    BY DEF Covered
  <2>1. ~ Excused /\ "uncounted" \notin excuses'
    BY <1>2 DEF Excused
  <2>2. CASE m # n
    <3>1. Calm(m, j, j)
      BY <1>2, <1>5, <1>6, <2>2 DEF Calm, Alike, Due
    <3> QED BY <1>5, <2>1, <2>2, <3>1, CalmCover
  <2>3. CASE m = n
    <3>1. j \in DOMAIN r.callbacks
      BY <1>5, <2>3
    <3>2. PICK i \in DOMAIN s.callbacks :
            /\ r.callbacks[j] = s.callbacks[i]
            /\ gap <= s.count => (j <= r.count => i <= s.count)
      BY <1>7, <3>1
    <3>3. Due(n, j)' => Due(n, i)
      BY <1>2, <1>5, <1>6, <2>1, <3>2 DEF Due, s
    <3>4. Calm(n, i, j)
      BY <1>2, <1>5, <1>6, <1>8, <3>2, <3>3 DEF Calm, Alike, s
    <3> QED BY <2>1, <2>3, <3>2, <3>4, CalmCover DEF s
  <2> QED BY <2>2, <2>3
<1> QED BY <1>9, <1>10, <1>11, <1>12 DEF CoverInv

\* The tokens that a commit is not to notify ask for the version it will
\* make, as nobody can have come further while the write is under way.
LEMMA SuppressTokensCover ==
  ASSUME CoreInv, CoverInv, NEW tokens \in SUBSET Token, SuppressTokens(tokens)
  PROVE  CoverInv'
<1>1. /\ UNCHANGED <<latest, worker, skipVersion, told, excuses>>
      /\ realm.pc = "idle" /\ Written /\ latest \in Int
      /\ notifiers' = [n \in Notifier |-> Suppress(notifiers[n], tokens)]
      /\ realm' = [realm EXCEPT !.pc = "committing"]
      /\ hushed' = [t \in Token |-> IF t \in tokens THEN hushed[t] \cup {latest + 1}
                                    ELSE hushed[t]]
  BY CoreFacts DEF SuppressTokens, Written
<1>2. /\ realm'.version = realm.version /\ realm'.pc = "committing"
      /\ Written' /\ \A n \in Notifier : ~ InDelivery(n) /\ ~ InDelivery(n)'
  <2>1. /\ realm'.version = realm.version /\ realm'.pc = "committing"
        /\ realm'.writing = realm.writing
    BY <1>1, CoreFacts DEF Parts, RealmState
  <2> QED BY <1>1, <2>1 DEF Written, InDelivery
<1>3. ASSUME NEW n \in Notifier
      PROVE  LET s == notifiers[n]
                 r == notifiers'[n]
             IN /\ Apart(s, r) /\ DOMAIN r.callbacks = DOMAIN s.callbacks
                /\ \A j \in DOMAIN s.callbacks :
                     /\ Alike(s.callbacks[j], r.callbacks[j])
                     /\ r.callbacks[j].skipNext =
                          (s.callbacks[j].skipNext \/ s.callbacks[j].token \in tokens)
  <2> DEFINE s == notifiers[n]
  <2>1. s \in NotifierState(Version) /\ notifiers'[n] = Suppress(s, tokens)
    BY <1>1, Fields DEF CoreInv
  <2> HIDE DEF s
  <2> QED BY <2>1, SuppressFacts DEF Alike, s
<1>4. ASSUME NEW n \in Notifier, NEW j \in DOMAIN notifiers'[n].callbacks
      PROVE  /\ j \in DOMAIN notifiers[n].callbacks
             /\ notifiers[n].callbacks # <<>>
             /\ notifiers[n].callbacks[j].token \in Token
  <2>1. j \in DOMAIN notifiers[n].callbacks
    BY <1>3
  <2> QED BY <2>1, WithCallbacks, CallbackFields, Fields DEF CoreInv
<1>5. OrderFits'
  BY <1>2 DEF OrderFits
<1>6. WriteFits'
  <2> SUFFICES ASSUME "jumped" \notin excuses, NEW n \in Notifier,
                      notifiers'[n].callbacks # <<>>
               PROVE  notifiers'[n].hasRun /\ notifiers'[n].version = latest
    BY <1>1 DEF WriteFits
  <2>1. notifiers[n].callbacks # <<>>
    <3>1. notifiers[n].callbacks = <<>> => notifiers'[n].callbacks = <<>>
      <4>1. notifiers'[n] = Suppress(notifiers[n], tokens) /\ notifiers[n] \in NotifierState(Version)
        BY <1>1, Fields DEF CoreInv
      <4>2. notifiers'[n] \in NotifierState(Version)
            /\ Len(notifiers'[n].callbacks) = Len(notifiers[n].callbacks)
        BY <4>1, SuppressFacts
      <4>3. notifiers'[n].callbacks \in Seq(CallbackState(Version))
        BY <4>2, NotifierFields
      <4> QED BY <4>2, <4>3, EmptySeq
    <3> QED BY <3>1
  <2> QED BY <1>1, <1>3, <2>1 DEF CoverInv, WriteFits, Apart
<1>7. SuppressFits'
  <2> SUFFICES ASSUME "jumped" \notin excuses, NEW n \in Notifier,
                      NEW j \in DOMAIN notifiers'[n].callbacks,
                      notifiers'[n].callbacks[j].skipNext
               PROVE  LET r == notifiers'[n] IN
                      /\ r.hasRun /\ r.version + 1 \in hushed'[r.callbacks[j].token]
    BY <1>1, <1>2 DEF SuppressFits, SuppressionFits, Claimed
  <2> DEFINE s == notifiers[n]
             r == notifiers'[n]
             c == s.callbacks[j]
  <2>1. /\ j \in DOMAIN s.callbacks /\ c.token \in Token
        /\ r.version = s.version /\ r.hasRun = s.hasRun /\ r.callbacks[j].token = c.token
        /\ c.skipNext \/ c.token \in tokens
    BY <1>3, <1>4 DEF Apart, Alike
  <2>2. s.hasRun /\ s.version = latest
    BY <1>1, <1>4 DEF CoverInv, WriteFits
  <2>3. hushed'[c.token] = IF c.token \in tokens THEN hushed[c.token] \cup {latest + 1}
                           ELSE hushed[c.token]
    BY <1>1, <2>1
  <2>4. c.skipNext => s.version + 1 \in hushed[c.token]
    BY <2>1 DEF CoverInv, SuppressFits, SuppressionFits
  <2> HIDE DEF s, c
  <2> QED BY <2>1, <2>2, <2>3, <2>4
<1>8. Covered'
  <2> SUFFICES ASSUME ~ Excused', NEW n \in Notifier, NEW j \in DOMAIN notifiers'[n].callbacks
               PROVE  CoverFits(n, j)'
    BY DEF Covered
  <2>1. ~ Excused /\ j \in DOMAIN notifiers[n].callbacks
    BY <1>1, <1>4 DEF Excused
  <2>2. hushed[notifiers[n].callbacks[j].token] \subseteq hushed'[notifiers[n].callbacks[j].token]
    BY <1>1, <1>4
  <2>3. /\ Alike(notifiers[n].callbacks[j], notifiers'[n].callbacks[j])
        /\ notifiers'[n].version = notifiers[n].version
    BY <1>3, <2>1 DEF Apart
  <2>4. Due(n, j)' => Due(n, j)
    BY <1>2, <2>3 DEF Due, Alike
  <2>5. Calm(n, j, j)
    BY <1>1, <1>2, <2>2, <2>3, <2>4 DEF Calm
  <2> QED BY <2>1, <2>5, CalmCover
<1> QED BY <1>5, <1>6, <1>7, <1>8 DEF CoverInv

\* When the loop ends, nothing is left to deliver.
LEMMA EndsCover ==
  ASSUME CoreInv, CoverInv, NEW n \in Notifier, CallNext(n), Ends(n)
  PROVE  CoverInv'
<1> DEFINE s == notifiers[n]
           r == LoopEnds(s)
           rest == realm.package \ {n}
<1>1. /\ s \in NotifierState(Version) /\ s.index \in Int /\ s.count \in Int
      /\ DOMAIN s.callbacks = 1..Len(s.callbacks) /\ Len(s.callbacks) \in Nat
      /\ InDelivery(n)
  BY Fields, CallNextCases DEF CoreInv
<1>2. /\ notifiers' = [notifiers EXCEPT ![n] = r] /\ Ready(s) = {}
      /\ realm' = IF rest = {}
                  THEN [realm EXCEPT !.cur = NoOne, !.package = {},
                                     !.target = 0, !.pc = "idle"]
                  ELSE [realm EXCEPT !.cur = NoOne, !.package = rest]
      /\ UNCHANGED <<latest, worker, skipVersion, told, hushed, excuses>>
      /\ realm.pc = "calling" /\ (n = realm.cur \/ realm.cur = NoOne)
  BY DEF Ends, CallNext
<1> HIDE DEF s
<1>3. Apart(s, r) /\ r.callbacks = s.callbacks
  BY <1>1, LoopEndsFacts
<1> HIDE DEF r
<1>4. /\ notifiers'[n] = r
      /\ \A m \in Notifier \ {n} : notifiers'[m] = notifiers[m]
  BY <1>2, CoreFacts DEF Parts
<1>5. /\ realm'.version = realm.version /\ realm'.writing = realm.writing
      /\ \/ realm'.pc = "idle" /\ rest = {}
         \/ /\ realm'.pc = "calling" /\ realm'.package = rest /\ realm'.cur = NoOne
            /\ realm'.target = realm.target
  <2>1. realm \in RealmState
    BY CoreFacts DEF Parts
  <2>2. CASE rest = {}
    <3>1. realm' = [realm EXCEPT !.cur = NoOne, !.package = {}, !.target = 0, !.pc = "idle"]
      BY <1>2, <2>2
    <3> HIDE DEF rest
    <3> QED BY <2>1, <2>2, <3>1 DEF RealmState
  <2>3. CASE rest # {}
    <3>1. realm' = [realm EXCEPT !.cur = NoOne, !.package = rest]
      BY <1>2, <2>3
    <3> HIDE DEF rest
    <3> QED BY <1>2, <2>1, <3>1 DEF RealmState
  <2> QED BY <2>2, <2>3
<1>6. /\ ~ InDelivery(n)'
      /\ \A m \in Notifier \ {n} :
           /\ InDelivery(m)' <=> InDelivery(m)
           /\ InDelivery(m) => realm'.target = realm.target
  BY <1>2, <1>5, NoOneAssumption DEF InDelivery
<1>7. Written' <=> Written
  BY <1>2, <1>5 DEF Written
<1>8. \A m \in Notifier : /\ notifiers'[m].version = notifiers[m].version
                          /\ notifiers'[m].hasRun = notifiers[m].hasRun
                          /\ notifiers'[m].callbacks = notifiers[m].callbacks
  BY <1>3, <1>4 DEF Apart, s
<1>9. OrderFits'
  BY <1>2, <1>4, <1>6 DEF CoverInv, OrderFits
<1>10. WriteFits'
  BY <1>2, <1>7, <1>8, LocalWrite
<1>11. SuppressFits'
  <2>1. \A m \in Notifier : SkipsKept(m)
    BY <1>8 DEF SkipsKept
  <2> QED BY <1>2, <2>1, LocalSuppress
<1>12. Covered'
  <2> SUFFICES ASSUME ~ Excused', NEW m \in Notifier, NEW j \in DOMAIN notifiers'[m].callbacks
               PROVE  CoverFits(m, j)'
    BY DEF Covered
  <2>1. ~ Excused /\ "uncounted" \notin excuses /\ j \in DOMAIN notifiers[m].callbacks
    BY <1>2, <1>8 DEF Excused
  <2>2. CoverFits(m, j)
    BY <2>1 DEF CoverInv, Covered
  <2>3. CASE m # n
    <3>1. Calm(m, j, j)
      BY <1>2, <1>4, <1>5, <1>6, <1>7, <2>3 DEF Calm, Alike, Due
    <3> QED BY <2>1, <3>1, CalmCover
  <2>4. CASE m = n
    <3> DEFINE c == s.callbacks[j]
    <3>1. notifiers'[n].callbacks[j] = c
      BY <1>8 DEF s
    <3>2. CASE c.initialDelivered
      <4>1. c.deliver = {}
        <5>1. ASSUME c.deliver # {} PROVE s.index + 1 < j /\ j <= s.count
          BY <1>1, <2>1, <2>4, <5>1 DEF CoverInv, OrderFits, s
        <5>2. j \in Int /\ (j - 1) + 1 = j
          BY <1>1, <2>1, <2>4 DEF s
        <5>3. ASSUME c.deliver # {} PROVE j - 1 \in (s.index + 1)..(s.count - 1)
          BY <1>1, <5>1, <5>2, <5>3
        <5>4. ASSUME c.deliver # {} PROVE j - 1 \in Ready(s)
          <6>1. j - 1 < Len(s.callbacks)
            BY <1>1, <2>1, <2>4 DEF s
          <6> QED BY <5>2, <5>3, <5>4, <6>1 DEF Ready
        <5> QED BY <1>2, <5>4
      <4>2. Due(n, j)
        BY <3>2 DEF Due, s
      <4>3. Will(n, j) = told[c.token] \cup hushed[c.token] \cup {}
        BY <3>2, <4>1 DEF Will, s
      <4>4. Will(n, j)' = told[c.token] \cup hushed[c.token] \cup {}
        BY <1>2, <1>6, <3>1, <3>2 DEF Will
      <4> QED BY <1>5, <1>7, <1>8, <2>2, <2>4, <4>2, <4>3, <4>4 DEF CoverFits
    <3>3. CASE ~ c.initialDelivered
      <4>1. ~ Due(n, j)'
        BY <1>6, <3>1, <3>3 DEF Due
      <4> QED BY <2>4, <4>1 DEF CoverFits
    <3> QED BY <3>2, <3>3
  <2> QED BY <2>3, <2>4
<1> QED BY <1>9, <1>10, <1>11, <1>12 DEF CoverInv

\* A loop runs past the callbacks only after an excuse.
LEMMA RunsPastCover ==
  ASSUME CoreInv, CoverInv, NEW n \in Notifier, CallNext(n), RunsPast(n)
  PROVE  CoverInv'
<1>1. /\ UNCHANGED <<latest, notifiers, worker, skipVersion, hushed, excuses>>
      /\ realm.pc = "calling" /\ InDelivery(n)
  BY CallNextCases DEF CallNext, RunsPast
<1>2. "uncounted" \in excuses
  BY <1>1, CoreFacts, Fields
     DEF CountFitsIfCounted, CountFits, RunsPast, InDelivery, CoreInv
<1>3. OrderFits' /\ Covered'
  BY <1>1, <1>2 DEF OrderFits, Covered, Excused
<1>4. Written' => Written
  <2>1. realm'.writing = realm.writing
    BY CoreFacts DEF RunsPast, Parts, RealmState
  <2> QED BY <1>1, <2>1 DEF Written
<1>5. WriteFits'
  BY <1>1, <1>4, LocalWrite
<1>6. SuppressFits'
  <2>1. \A m \in Notifier : SkipsKept(m)
    BY <1>1 DEF SkipsKept
  <2> QED BY <1>1, <2>1, LocalSuppress
<1> QED BY <1>3, <1>5, <1>6 DEF CoverInv

\* A call moves what was on its way, or everything read, to what was told.
LEMMA CallsCover ==
  ASSUME CoreInv, DeliveryInv, CoverInv, NEW n \in Notifier, CallNext(n),
         NEW k \in Int, Calls(n, k)
  PROVE  CoverInv'
<1> DEFINE s == notifiers[n]
           r == CallAt(s, k)
           c == s.callbacks[k + 1]
           now == IF c.initialDelivered THEN told[c.token] \cup c.deliver
                  ELSE told[c.token] \cup ((1..realm.target) \ hushed[c.token])
<1>1. /\ s \in NotifierState(Version) /\ k + 1 \in DOMAIN s.callbacks
      /\ InDelivery(n) /\ s.index \in Int /\ s.count \in Int
      /\ DOMAIN s.callbacks = 1..Len(s.callbacks) /\ Len(s.callbacks) \in Nat
      /\ k < s.count /\ \A j \in Ready(s) : k <= j
  <2>1. InDelivery(n)
    BY CallNextCases
  <2> QED BY <2>1, Fields DEF CoreInv, Calls
<1>2. /\ notifiers' = [notifiers EXCEPT ![n] = r]
      /\ realm' = [realm EXCEPT !.cur = n, !.package = realm.package \ {n}]
      /\ told' = [told EXCEPT ![c.token] = now]
      /\ UNCHANGED <<latest, worker, skipVersion, hushed, excuses>>
      /\ realm.pc = "calling" /\ (n = realm.cur \/ realm.cur = NoOne)
  BY DEF Calls, CallNext
<1>3. /\ c.token \in Token /\ c.initialDelivered \in BOOLEAN
      /\ told \in [Token -> SUBSET Version]
  BY <1>1, CallbackFields DEF CoreInv, TypeOK
<1>4. /\ c.initialDelivered => now = told[c.token] \cup c.deliver
      /\ ~ c.initialDelivered => now \cup hushed[c.token] = told[c.token] \cup hushed[c.token]
                                                             \cup 1..realm.target
  BY <1>3
<1> HIDE DEF s, now
<1>5. /\ Apart(s, r) /\ r.index = k /\ r.count = s.count
      /\ DOMAIN r.callbacks = DOMAIN s.callbacks
      /\ \A j \in DOMAIN s.callbacks :
           /\ r.callbacks[j].token = s.callbacks[j].token
           /\ r.callbacks[j].accumulated = s.callbacks[j].accumulated
           /\ r.callbacks[j].deliver = IF j = k + 1 THEN {} ELSE s.callbacks[j].deliver
           /\ r.callbacks[j].initialDelivered <=>
                (j = k + 1 \/ s.callbacks[j].initialDelivered)
           /\ r.callbacks[j].skipNext = s.callbacks[j].skipNext
           /\ r.callbacks[j].initialDelivered \in BOOLEAN
           /\ s.callbacks[j].initialDelivered \in BOOLEAN
  <2>1. r \in NotifierState(Version) /\ DOMAIN r.callbacks = DOMAIN s.callbacks
    BY <1>1, CallAtFacts
  <2>2. \A j \in DOMAIN s.callbacks : /\ r.callbacks[j].initialDelivered \in BOOLEAN
                                      /\ s.callbacks[j].initialDelivered \in BOOLEAN
    BY <1>1, <2>1, CallbackFields
  <2> QED BY <1>1, <2>2, CallAtFacts
<1> HIDE DEF r
<1>6. /\ notifiers'[n] = r
      /\ \A m \in Notifier \ {n} : notifiers'[m] = notifiers[m]
  BY <1>2, CoreFacts DEF Parts
<1>7. /\ realm'.version = realm.version /\ realm'.target = realm.target
      /\ realm'.pc = "calling" /\ Written' = Written
      /\ \A m \in Notifier : InDelivery(m)' <=> InDelivery(m)
  <2> DEFINE rest == realm.package \ {n}
  <2>1. realm \in RealmState /\ realm' = [realm EXCEPT !.cur = n, !.package = rest]
    BY <1>2, CoreFacts DEF Parts
  <2> HIDE DEF rest
  <2>2. /\ realm'.version = realm.version /\ realm'.target = realm.target
        /\ realm'.cur = n /\ realm'.package = rest /\ realm'.pc = realm.pc
        /\ realm'.writing = realm.writing
    BY <2>1 DEF RealmState
  <2> QED BY <1>1, <1>2, <2>2, NoOneAssumption DEF InDelivery, Written, rest
<1>8. \A m \in Notifier : /\ notifiers'[m].version = notifiers[m].version
                          /\ notifiers'[m].hasRun = notifiers[m].hasRun
                          /\ notifiers'[m].count = notifiers[m].count
                          /\ DOMAIN notifiers'[m].callbacks = DOMAIN notifiers[m].callbacks
  BY <1>5, <1>6 DEF Apart, s
<1>9. /\ told'[c.token] = now
      /\ \A u \in Token : u # c.token => told'[u] = told[u]
  BY <1>2, <1>3
<1>10. OrderFits'
  <2> SUFFICES ASSUME "uncounted" \notin excuses, NEW m \in Notifier,
                      NEW j \in DOMAIN notifiers'[m].callbacks,
                      InDelivery(m), notifiers'[m].callbacks[j].deliver # {}
               PROVE  notifiers'[m].index + 1 < j /\ j <= notifiers'[m].count
    BY <1>2, <1>7 DEF OrderFits
  <2>1. CASE m # n
    BY <1>6, <2>1 DEF CoverInv, OrderFits
  <2>2. CASE m = n
    <3>1. j \in DOMAIN s.callbacks /\ j # k + 1 /\ s.callbacks[j].deliver # {}
      BY <1>5, <1>6, <2>2
    <3>2. s.index + 1 < j /\ j <= s.count /\ j \in Int /\ (j - 1) + 1 = j
      BY <1>1, <2>2, <3>1 DEF CoverInv, OrderFits, s
    <3>3. j - 1 \in (s.index + 1)..(s.count - 1)
      BY <1>1, <3>2
    <3>4. j - 1 \in Ready(s)
      <4>1. j - 1 < Len(s.callbacks)
        BY <1>1, <3>1
      <4> QED BY <3>1, <3>2, <3>3, <4>1 DEF Ready
    <3> QED BY <1>1, <1>5, <1>6, <2>2, <3>1, <3>2, <3>4
  <2> QED BY <2>1, <2>2
<1>11. WriteFits'
  <2>1. \A m \in Notifier : Written' /\ notifiers'[m].callbacks # <<>> =>
          notifiers[m].callbacks # <<>>
    BY <1>1, <1>6 DEF s
  <2> QED BY <1>2, <1>7, <1>8, <2>1, LocalWrite
<1>12. SuppressFits'
  <2>1. \A m \in Notifier : SkipsKept(m)
    BY <1>5, <1>6, <1>8 DEF SkipsKept, s
  <2> QED BY <1>2, <1>7, <2>1, LocalSuppress
<1>13. Covered'
  <2> SUFFICES ASSUME ~ Excused, NEW m \in Notifier, NEW j \in DOMAIN notifiers'[m].callbacks
               PROVE  CoverFits(m, j)'
    BY <1>2 DEF Covered, Excused
  <2>1. j \in DOMAIN notifiers[m].callbacks
    BY <1>8
  <2>2. CASE m # n \/ j # k + 1
    <3>1. notifiers[m].callbacks[j].token # c.token
      <4>1. CASE m = n
        BY <1>1, <2>1, <2>2, <4>1 DEF DeliveryInv, TokensFit, Distinct, s
      <4>2. CASE m # n
        <5>1. /\ notifiers[m].callbacks[j].token \in Tokens(notifiers[m])
              /\ c.token \in Tokens(notifiers[n])
          BY <1>1, <2>1 DEF Tokens, s
        <5> QED BY <4>2, <5>1 DEF DeliveryInv, TokensFit
      <4> QED BY <4>1, <4>2
    <3>2. notifiers[m].callbacks[j].token \in Token
      BY <2>1, CallbackFields, Fields DEF CoreInv
    <3>3. Alike(notifiers[m].callbacks[j], notifiers'[m].callbacks[j])
      <4>1. CASE m # n
        BY <1>6, <4>1 DEF Alike
      <4>2. CASE m = n
        <5>1. j \in DOMAIN s.callbacks /\ j # k + 1
          BY <2>1, <2>2, <4>2 DEF s
        <5>2. r.callbacks[j].initialDelivered = s.callbacks[j].initialDelivered
          BY <1>5, <5>1
        <5> QED BY <1>5, <1>6, <4>2, <5>1, <5>2 DEF Alike, s
      <4> QED BY <4>1, <4>2
    <3>4. Due(m, j)' => Due(m, j)
      BY <1>7, <1>8, <3>3 DEF Due, Alike
    <3>5. Calm(m, j, j)
      BY <1>2, <1>7, <1>8, <1>9, <3>1, <3>2, <3>3, <3>4 DEF Calm
    <3> QED BY <2>1, <3>5, CalmCover
  <2>3. CASE m = n /\ j = k + 1
    <3> DEFINE d == r.callbacks[j]
    <3>1. /\ d.token = c.token /\ d.accumulated = c.accumulated /\ d.deliver = {}
          /\ d.initialDelivered
      BY <1>1, <1>5, <2>3
    <3>2. notifiers'[n].callbacks[j] = d /\ s.callbacks[j] = c
      BY <1>6, <2>3
    <3>3. CoverFits(n, j) /\ Due(n, j)
      <4>1. j <= s.count
        BY <1>1, <2>3
      <4> QED BY <1>1, <2>1, <2>3, <4>1 DEF CoverInv, Covered, Due, s
    <3>4. Will(n, j) \subseteq Will(n, j)'
      <4>1. Will(n, j)' = now \cup hushed[c.token] \cup (IF InDelivery(n)' THEN {} ELSE {})
        BY <1>2, <1>9, <3>1, <3>2, Zenon DEF Will
      <4>2. CASE c.initialDelivered
        <5>1. Will(n, j) = told[c.token] \cup hushed[c.token] \cup c.deliver
          BY <1>1, <3>2, <4>2 DEF Will, s
        <5> QED BY <1>4, <4>1, <4>2, <5>1
      <4>3. CASE ~ c.initialDelivered
        <5>1. Will(n, j) = 1..realm.target \cup hushed[c.token]
          BY <3>2, <4>3 DEF Will, s
        <5> QED BY <1>4, <4>1, <4>3, <5>1
      <4> QED BY <4>2, <4>3
    <3>5. /\ realm.version <= s.version + 1
          /\ 1..s.version \subseteq Will(n, j) \cup c.accumulated
          /\ s.version < realm.version \/ Written => 1..s.version \subseteq Will(n, j)
      BY <3>2, <3>3 DEF CoverFits, s
    <3>6. notifiers'[n].version = s.version
      BY <1>8 DEF s
    <3> HIDE DEF c, d
    <3>7. 1..s.version \subseteq Will(n, j)' \cup d.accumulated
      BY <3>1, <3>4, <3>5
    <3>8. s.version < realm'.version \/ Written' => 1..s.version \subseteq Will(n, j)'
      BY <1>7, <3>4, <3>5
    <3> QED BY <1>7, <2>3, <3>2, <3>5, <3>6, <3>7, <3>8 DEF CoverFits
  <2> QED BY <2>2, <2>3
<1> QED BY <1>10, <1>11, <1>12, <1>13 DEF CoverInv

-----------------------------------------------------------------------------
(* Deliveries and hand-overs.                                              *)

\* What a delivery packages and reads, case by case.
LEMMA SendingKinds ==
  ASSUME CoreInv, CoreInv', Notify \/ SendPackage \/ (Refresh /\ ForRealm = {})
  PROVE  /\ realm'.writing = realm.writing /\ realm.pc \in {"idle", "refreshing", "beginning"}
         /\ realm.writing => realm.pc \in {"idle", "beginning"}
         /\ realm.pc = "beginning" => realm'.pc # "beginning" /\ realm.target = latest /\ Awaited
         /\ \/ Silent
            \/ Drops
            \/ /\ realm'.pc = "idle"
               /\ \A n \in Notifier : notifiers[n].hasRun => notifiers[n].callbacks = <<>>
            \/ \E v \in Version : /\ realm'.version = v /\ realm'.target = v
                                  /\ realm'.pc = "calling"
                                  /\ \A n \in HaveRun(Notifier) :
                                       /\ PackagedFrom(notifiers[n], notifiers'[n])
                                       /\ notifiers[n].version = v /\ InDelivery(n)'
<1>1. /\ realm.pc \in {"idle", "refreshing", "beginning"}
      /\ realm.writing => realm.pc \in {"idle", "beginning"}
      /\ \/ Silent \/ Drops \/ ReadsLatest
         \/ \E v \in Version, ns \in SUBSET Notifier : Delivers(v, ns)
  BY DeliveryKinds
<1>2. TypeOK /\ realm.version \in Version /\ latest \in Version
  BY CoreFacts DEF CoreInv, Version
<1>3. realm.pc = "beginning" => SendPackage /\ Awaited /\ realm.target = latest
  BY CoreFacts DEF Notify, SendPackage, Refresh, RealmFits
<1>4. CASE Silent
  BY <1>1, <1>2, <1>3, <1>4, ReadAndCallFacts DEF Silent
<1>5. CASE Drops
  BY <1>1, <1>3, <1>5 DEF Drops
<1>6. CASE ReadsLatest
  BY <1>1, <1>2, <1>3, <1>6, ReadAndCallFacts DEF ReadsLatest
<1>7. ASSUME NEW v \in Version, NEW ns \in SUBSET Notifier, Delivers(v, ns)
      PROVE  /\ realm'.writing = realm.writing /\ realm'.pc = "calling"
             /\ realm'.version = v /\ realm'.target = v
             /\ \A n \in HaveRun(Notifier) : /\ PackagedFrom(notifiers[n], notifiers'[n])
                                             /\ notifiers[n].version = v /\ InDelivery(n)'
  <2>1. /\ realm'.version = v /\ realm'.package = ns /\ realm'.writing = realm.writing
        /\ realm'.target = v /\ realm'.pc = "calling" /\ ns = HaveRun(Notifier)
        /\ Packs(ns) /\ \A n \in ns : notifiers[n].version = v
    BY <1>2, <1>7, ReadAndCallFacts DEF Delivers
  <2> QED BY <2>1 DEF Packs, InDelivery
<1> QED BY <1>1, <1>3, <1>4, <1>5, <1>6, <1>7

LEMMA SendingCover ==
  ASSUME CoreInv, CoreInv', DeliveryInv, CoverInv,
         Notify \/ SendPackage \/ (Refresh /\ ForRealm = {})
  PROVE  CoverInv'
<1>1. /\ \A n \in Notifier : ~ InDelivery(n) /\ Sent(n)
      /\ realm.version <= realm'.version
      /\ UNCHANGED <<latest, worker, skipVersion, told, hushed, excuses>>
  BY SentFacts
<1>2. /\ realm'.writing = realm.writing /\ realm.pc \in {"idle", "refreshing", "beginning"}
      /\ realm.writing => realm.pc \in {"idle", "beginning"}
      /\ realm.pc = "beginning" => realm.target = latest /\ Awaited
  BY SendingKinds
<1>3. \A n \in Notifier :
        /\ notifiers'[n].version = notifiers[n].version
        /\ notifiers'[n].hasRun = notifiers[n].hasRun
        /\ DOMAIN notifiers'[n].callbacks = DOMAIN notifiers[n].callbacks
        /\ \A j \in DOMAIN notifiers[n].callbacks :
             /\ notifiers'[n].callbacks[j].token = notifiers[n].callbacks[j].token
             /\ notifiers'[n].callbacks[j].initialDelivered
                  = notifiers[n].callbacks[j].initialDelivered
             /\ notifiers'[n].callbacks[j].skipNext = notifiers[n].callbacks[j].skipNext
  BY <1>1 DEF Sent, PackagedFrom, Apart
\* Everybody who was called has run, and is in the package.
<1>4. ASSUME NEW n \in Notifier, NEW j \in DOMAIN notifiers[n].callbacks,
             notifiers[n].callbacks[j].initialDelivered \/ notifiers[n].hasRun
      PROVE  n \in HaveRun(Notifier) /\ notifiers[n].hasRun
  <2>1. notifiers[n].hasRun
    BY <1>4 DEF DeliveryInv, CallbacksFit, CallbackFits
  <2> QED BY <2>1, WithCallbacks DEF HaveRun
<1>5. ASSUME NEW n \in Notifier, NEW j \in DOMAIN notifiers[n].callbacks, Due(n, j)'
      PROVE  n \in HaveRun(Notifier) /\ notifiers[n].hasRun
  <2>1. InDelivery(n)' => notifiers'[n].hasRun
    BY DEF CoreInv, CallingFits
  <2> QED BY <1>3, <1>4, <1>5, <2>1 DEF Due
<1>6. OrderFits'
  <2> SUFFICES ASSUME NEW n \in Notifier, NEW j \in DOMAIN notifiers'[n].callbacks, InDelivery(n)'
               PROVE  notifiers'[n].index + 1 < j /\ j <= notifiers'[n].count
    BY DEF OrderFits
  <2> DEFINE s == notifiers[n]
             r == notifiers'[n]
  <2>1. PackagedFrom(s, r)
    BY <1>1 DEF Sent
  <2>2. s.index = -1
    BY <1>1, <1>2, CoreFacts DEF CallingFits, InDelivery
  <2>3. /\ DOMAIN s.callbacks = 1..Len(s.callbacks) /\ Len(s.callbacks) \in Nat
        /\ r.index = s.index /\ r.count = Len(s.callbacks) /\ j \in DOMAIN s.callbacks
    BY <1>3, <2>1, Fields DEF CoreInv, PackagedFrom
  <2> HIDE DEF s, r
  <2> QED BY <2>2, <2>3 DEF r
<1>7. WriteFits'
  <2> SUFFICES ASSUME Written', "jumped" \notin excuses, NEW n \in Notifier,
                      notifiers'[n].callbacks # <<>>
               PROVE  notifiers[n].hasRun /\ notifiers[n].version = latest
    BY <1>1, <1>3 DEF WriteFits
  <2>1. 1 \in DOMAIN notifiers[n].callbacks /\ notifiers[n].callbacks # <<>>
    <3>1. 1 \in DOMAIN notifiers'[n].callbacks
      <4>1. notifiers'[n].callbacks \in Seq(CallbackState(Version))
        BY NotifierFields DEF CoreInv, TypeOK
      <4> QED BY <4>1
    <3>2. 1 \in DOMAIN notifiers[n].callbacks
      BY <1>3, <3>1
    <3> QED BY <3>2, WithCallbacks
  <2>2. realm.writing
    BY <1>2 DEF Written
  <2>3. CASE realm.pc = "idle"
    BY <2>1, <2>2, <2>3 DEF CoverInv, WriteFits, Written
  <2>4. CASE realm.pc = "beginning"
    <3>1. n \in realm.package /\ notifiers[n].haveCallbacks
      <4>1. n \in ForRealm /\ notifiers[n].haveCallbacks
        BY <2>1, WithCallbacks
      <4> QED BY <2>4, <4>1, CoreFacts DEF RealmFits
    <3>2. notifiers[n].hasRun /\ notifiers[n].version >= latest
      BY <1>2, <2>4, <3>1 DEF Awaited, ReadyFor
    <3>3. notifiers[n].version <= latest /\ notifiers[n].version \in Int /\ latest \in Int
      BY CoreFacts, Fields DEF CoreInv, Sound
    <3> QED BY <3>2, <3>3
  <2> QED BY <1>2, <2>2, <2>3, <2>4
<1>8. SuppressFits'
  <2>1. \A n \in Notifier : SkipsKept(n)
    BY <1>3 DEF SkipsKept
  <2> QED BY <1>1, <1>2, <2>1, LocalSuppress
<1>9. Covered'
  <2> SUFFICES ASSUME ~ Excused, NEW n \in Notifier, NEW j \in DOMAIN notifiers'[n].callbacks,
                      Due(n, j)'
               PROVE  CoverFits(n, j)'
    BY <1>1 DEF Covered, Excused, CoverFits
  <2> DEFINE s == notifiers[n]
             r == notifiers'[n]
             c == s.callbacks[j]
             d == r.callbacks[j]
  <2>1. /\ j \in DOMAIN s.callbacks /\ s.hasRun /\ n \in HaveRun(Notifier)
        /\ CoverFits(n, j) /\ ~ InDelivery(n)
    BY <1>1, <1>3, <1>5 DEF CoverInv, Covered
  <2>2. /\ r.version = s.version /\ d.token = c.token
        /\ d.initialDelivered = c.initialDelivered
    BY <1>3, <2>1
  <2>3. s.callbacks # <<>>
    BY <2>1, WithCallbacks
  <2>4. c.initialDelivered =>
          /\ realm.version <= s.version + 1
          /\ 1..s.version \subseteq told[c.token] \cup hushed[c.token] \cup c.accumulated
          /\ s.version < realm.version \/ Written =>
               1..s.version \subseteq told[c.token] \cup hushed[c.token]
    <3>1. c.initialDelivered => Due(n, j)
      BY DEF Due
    <3>2. c.initialDelivered => Will(n, j) = told[c.token] \cup hushed[c.token] \cup {}
      BY <2>1 DEF Will
    <3> QED BY <2>1, <3>1, <3>2 DEF CoverFits
  <2>5. CASE ~ InDelivery(n)' /\ realm'.version = realm.version
             /\ (Written' => Written)
             /\ (d.accumulated = c.accumulated \/ s.version < realm.version)
    <3>1. c.initialDelivered
      BY <2>2, <2>5 DEF Due
    <3>2. Will(n, j)' = told[c.token] \cup hushed[c.token] \cup {}
      BY <1>1, <2>2, <2>5, <3>1 DEF Will
    <3> HIDE DEF c
    <3>3. 1..s.version \subseteq Will(n, j)' \cup d.accumulated
      BY <2>4, <2>5, <3>1, <3>2
    <3> QED BY <2>2, <2>4, <2>5, <3>1, <3>2, <3>3 DEF CoverFits
  <2>6. CASE Silent
    <3>1. ~ InDelivery(n)' /\ realm'.version = realm.version /\ realm'.pc = "idle"
      BY <2>6, ReadAndCallFacts, CoreFacts DEF Silent, CoreInv, InDelivery, Version
    <3>2. Written' => Written
      BY <1>2, <2>6 DEF Written, Silent
    <3> QED BY <2>5, <2>6, <3>1, <3>2 DEF Silent
  <2>7. CASE Drops
    <3>1. ~ InDelivery(n)' /\ UNCHANGED realm /\ (Written' <=> Written)
      BY <2>7 DEF Drops, InDelivery, Written
    <3>2. r = s \/ s.version < realm.version
      BY <2>7 DEF Drops, Packs
    <3> QED BY <2>5, <3>1, <3>2
  <2>8. ASSUME NEW v \in Version, realm'.version = v, realm'.target = v,
               PackagedFrom(s, r), s.version = v, InDelivery(n)'
        PROVE  CoverFits(n, j)'
    <3>1. d.deliver = c.accumulated
      BY <2>1, <2>8 DEF PackagedFrom
    <3>2. 1..s.version \subseteq Will(n, j)'
      <4>1. CASE c.initialDelivered
        <5>1. Will(n, j)' = told[c.token] \cup hushed[c.token] \cup c.accumulated
          BY <1>1, <2>2, <2>8, <3>1, <4>1 DEF Will
        <5> QED BY <2>4, <4>1, <5>1
      <4>2. CASE ~ c.initialDelivered
        <5>1. Will(n, j)' = 1..v \cup hushed[c.token]
          BY <1>1, <2>2, <2>8, <4>2 DEF Will
        <5> QED BY <2>8, <5>1
      <4> QED BY <4>1, <4>2
    <3>3. v \in Int
      BY VersionIsNat
    <3> QED BY <2>2, <2>8, <3>2, <3>3 DEF CoverFits
  <2> QED BY <2>1, <2>3, <2>6, <2>7, <2>8, SendingKinds
<1> QED BY <1>6, <1>7, <1>8, <1>9 DEF CoverInv

\* A suppression is for the change of the hand-over that takes it.
LEMMA SkippedChange ==
  ASSUME CoreInv, CoverInv, HandOver, "jumped" \notin excuses, NEW n \in RunSet,
         NEW j \in DOMAIN notifiers[n].callbacks, notifiers[n].callbacks[j].skipNext,
         notifiers[n].version < RunTarget
  PROVE  /\ RunTarget = notifiers[n].version + 1
         /\ RunTarget \in hushed[notifiers[n].callbacks[j].token]
<1> DEFINE s == notifiers[n]
<1>1. worker.pc \in {"skipped", "ran"} /\ Underway
  BY DEF HandOver, Underway
<1>2. /\ RunTarget \in 1..MaxVersion /\ RunTarget <= worker.target /\ RunTarget <= latest
      /\ n \in Notifier
  BY <1>1, RunTargetFacts DEF Listed
<1>3. s.version + 1 \in hushed[s.callbacks[j].token] /\ Claimed(n)
  BY <1>2 DEF CoverInv, SuppressFits, SuppressionFits
<1>4. s.version \in Int /\ latest \in Int /\ worker.target \in Int /\ skipVersion \in Int
      /\ MaxVersion \in Int
  BY <1>2, Fields, CoreFacts DEF CoreInv
<1>5. CASE realm.pc = "committing"
  <2>1. Written
    BY <1>5, CoreFacts DEF RealmFits, Written
  <2>2. s.callbacks # <<>>
    BY <1>2, WithCallbacks
  <2>3. s.version = latest
    BY <1>2, <2>1, <2>2 DEF CoverInv, WriteFits
  <2> QED BY <1>2, <1>4, <2>3
<1>6. CASE skipVersion = s.version + 1
  <2>1. skipVersion # 0
    <3>1. s.version >= 0
      BY <1>2, Fields DEF CoreInv
    <3> QED BY <1>4, <1>6, <3>1
  <2>2. worker.target < skipVersion
    BY <1>1, <2>1, CoreFacts DEF SkipFits
  <2> QED BY <1>2, <1>4, <1>6, <2>2
<1>7. CASE Skipping /\ worker.skip = s.version + 1
  <2>1. RunTarget = worker.skip
    BY <1>7 DEF Skipping, RunTarget
  <2> QED BY <1>3, <1>7, <2>1
<1> QED BY <1>3, <1>5, <1>6, <1>7 DEF Claimed

LEMMA HandOverCover ==
  ASSUME CoreInv, CoreInv', DeliveryInv, CoverInv, HandOver
  PROVE  CoverInv'
<1>1. /\ UNCHANGED <<latest, told, hushed>> /\ worker.pc \in {"skipped", "ran"} /\ Underway
      /\ excuses \subseteq excuses'
      /\ excuses' = IF \E n \in RunSet :
                         /\ notifiers[n].hasRun /\ notifiers[n].version < RunTarget
                         /\ notifiers[n].changes = {} /\ notifiers[n].callbacks # <<>>
                    THEN excuses \cup {"unheard"} ELSE excuses
  BY DEF HandOver, Underway
<1>2. /\ RunTarget \in 1..MaxVersion /\ RunTarget <= latest /\ RunSet \subseteq Listed
      /\ \A n \in RunSet : notifiers[n].version <= RunTarget
  BY <1>1, RunTargetFacts
<1>3. \A n \in Notifier : HandedOver(notifiers[n], notifiers'[n], n \in RunSet)
  BY HandOverFacts
<1>4. /\ realm'.version = realm.version /\ realm'.target = realm.target
      /\ Written' <=> Written
      /\ \A n \in Notifier : InDelivery(n)' <=> InDelivery(n)
  <2>1. realm' = realm \/ realm' = [realm EXCEPT !.wait = "woken"]
    BY DEF HandOver
  <2>2. /\ realm'.version = realm.version /\ realm'.target = realm.target
        /\ realm'.pc = realm.pc /\ realm'.package = realm.package /\ realm'.cur = realm.cur
        /\ realm'.writing = realm.writing
    BY <2>1, CoreFacts DEF Parts, RealmState
  <2> QED BY <2>2 DEF InDelivery, Written
<1>5. \A n \in Notifier :
        LET s == notifiers[n]
            r == notifiers'[n]
        IN /\ r.index = s.index /\ r.count = s.count
           /\ DOMAIN r.callbacks = DOMAIN s.callbacks
           /\ \A j \in DOMAIN s.callbacks :
                /\ r.callbacks[j].token = s.callbacks[j].token
                /\ r.callbacks[j].deliver = s.callbacks[j].deliver
                /\ r.callbacks[j].initialDelivered = s.callbacks[j].initialDelivered
  BY <1>3 DEF HandedOver, Caught
\* Whoever skips is in the list and has run, so this part of the run is his.
<1>6. ASSUME "jumped" \notin excuses, NEW n \in Notifier \ RunSet,
             NEW j \in DOMAIN notifiers[n].callbacks
      PROVE  ~ notifiers[n].callbacks[j].skipNext
  <2> SUFFICES ASSUME notifiers[n].callbacks[j].skipNext PROVE FALSE
    OBVIOUS
  <2>1. notifiers[n].hasRun
    BY <1>6 DEF CoverInv, SuppressFits, SuppressionFits
  <2>2. n \in Listed
    BY <2>1, WithCallbacks
  <2>3. n \in worker.old
    BY <1>1, <2>1, <2>2, CoreFacts DEF RunFits
  <2> QED BY <2>3 DEF RunSet
<1>7. OrderFits'
  BY <1>1, <1>4, <1>5 DEF CoverInv, OrderFits
<1>8. WriteFits'
  <2> SUFFICES ASSUME Written, "jumped" \notin excuses, NEW n \in Notifier,
                      notifiers'[n].callbacks # <<>>
               PROVE  notifiers'[n].hasRun /\ notifiers'[n].version = latest
    BY <1>1, <1>4 DEF WriteFits
  <2>1. notifiers[n].callbacks # <<>>
    <3>1. 1 \in DOMAIN notifiers'[n].callbacks
      <4>1. notifiers'[n].callbacks \in Seq(CallbackState(Version))
        BY NotifierFields DEF CoreInv, TypeOK
      <4> QED BY <4>1
    <3>2. 1 \in DOMAIN notifiers[n].callbacks
      BY <1>5, <3>1
    <3> QED BY <3>2, WithCallbacks
  <2>2. notifiers[n].hasRun /\ notifiers[n].version = latest
    BY <2>1 DEF CoverInv, WriteFits
  <2>3. CASE n \in RunSet
    <3>1. RunTarget = latest
      BY <1>2, <2>2, <2>3, CoreFacts
    <3> QED BY <1>3, <2>3, <3>1 DEF HandedOver
  <2>4. CASE n \notin RunSet
    BY <1>3, <2>2, <2>4 DEF HandedOver
  <2> QED BY <2>3, <2>4
<1>9. SuppressFits'
  <2> SUFFICES ASSUME "jumped" \notin excuses, NEW n \in Notifier,
                      NEW j \in DOMAIN notifiers'[n].callbacks
               PROVE  ~ notifiers'[n].callbacks[j].skipNext
    BY <1>1 DEF SuppressFits, SuppressionFits
  <2>1. j \in DOMAIN notifiers[n].callbacks
    BY <1>5
  <2>2. CASE n \in RunSet
    BY <1>3, <2>1, <2>2 DEF HandedOver, Caught
  <2>3. CASE n \notin RunSet
    BY <1>3, <1>6, <2>1, <2>3 DEF HandedOver
  <2> QED BY <2>2, <2>3
<1>10. Covered'
  <2> SUFFICES ASSUME ~ Excused', NEW n \in Notifier, NEW j \in DOMAIN notifiers'[n].callbacks
               PROVE  CoverFits(n, j)'
    BY DEF Covered
  <2> DEFINE s == notifiers[n]
             r == notifiers'[n]
             c == s.callbacks[j]
             d == r.callbacks[j]
  <2>1. ~ Excused /\ "jumped" \notin excuses /\ "unheard" \notin excuses'
        /\ j \in DOMAIN s.callbacks
    BY <1>1, <1>5 DEF Excused
  <2>2. CASE n \notin RunSet
    <3>1. r.version = s.version /\ r.callbacks = s.callbacks /\ r.count = s.count
      BY <1>3, <2>2 DEF HandedOver
    <3>2. Calm(n, j, j)
      BY <1>1, <1>4, <3>1 DEF Calm, Alike, Due
    <3> QED BY <2>1, <3>2, CalmCover
  <2>3. CASE n \in RunSet /\ Due(n, j)'
    <3>1. /\ r.version = RunTarget /\ Caught(s, r)
      BY <1>3, <2>3 DEF HandedOver
    <3>2. /\ d.token = c.token /\ d.deliver = c.deliver
          /\ d.initialDelivered = c.initialDelivered
          /\ c.skipNext => d.accumulated = c.accumulated
          /\ ~ c.skipNext => d.accumulated = c.accumulated \cup s.changes
      BY <2>1, <3>1 DEF Caught
    <3>3. Due(n, j) /\ CoverFits(n, j)
      <4>1. Due(n, j)
        BY <1>4, <1>5, <2>1, <2>3 DEF Due
      <4> QED BY <2>1, <4>1 DEF CoverInv, Covered
    <3>4. Will(n, j)' = Will(n, j)
      <4>1. CASE c.initialDelivered
        <5>1. Will(n, j) = told[c.token] \cup hushed[c.token]
                             \cup (IF InDelivery(n) THEN c.deliver ELSE {})
          BY <4>1 DEF Will
        <5>2. Will(n, j)' = told[c.token] \cup hushed[c.token]
                             \cup (IF InDelivery(n) THEN c.deliver ELSE {})
          BY <1>1, <1>4, <3>2, <4>1 DEF Will
        <5> QED BY <5>1, <5>2
      <4>2. CASE ~ c.initialDelivered
        <5>1. Will(n, j) = 1..realm.target \cup hushed[c.token]
          BY <4>2 DEF Will
        <5>2. Will(n, j)' = 1..realm.target \cup hushed[c.token]
          BY <1>1, <1>4, <3>2, <4>2 DEF Will
        <5> QED BY <5>1, <5>2
      <4> QED BY <4>1, <4>2
    <3>5. s.hasRun
      <4>1. c.initialDelivered => s.hasRun
        BY <2>1 DEF DeliveryInv, CallbacksFit, CallbackFits
      <4> QED BY <3>3, <4>1, CoreFacts DEF Due, CallingFits
    <3>6. /\ s.version \in Int /\ RunTarget \in Int /\ s.version <= RunTarget
          /\ RunTarget <= latest /\ latest \in Int /\ realm.version \in Int
          /\ realm.version <= s.version + 1
      BY <1>2, <2>3, <3>3, RangeFacts, CoreFacts DEF CoverFits
    <3>7. s.version < RunTarget => (s.version + 1)..RunTarget \subseteq s.changes
      <4> SUFFICES ASSUME s.version < RunTarget
                   PROVE  (s.version + 1)..RunTarget \subseteq s.changes
        OBVIOUS
      <4>1. s.callbacks # <<>>
        BY <2>1, WithCallbacks
      <4>2. s.changes # {}
        BY <1>1, <2>1, <2>3, <3>5, <4>1
      <4>3. Computed(n)
        BY <1>1, <2>3 DEF Computed
      <4> QED BY <4>2, <4>3 DEF DeliveryInv, ChangesFit
    <3>8. ASSUME s.version < RunTarget
          PROVE  (s.version + 1)..RunTarget \subseteq Will(n, j) \cup d.accumulated
      <4>1. CASE ~ c.skipNext
        <5>1. s.changes \subseteq d.accumulated
          BY <3>2, <4>1
        <5> QED BY <3>7, <3>8, <5>1
      <4>2. CASE c.skipNext
        <5>1. RunTarget = s.version + 1 /\ RunTarget \in hushed[c.token]
          BY <2>1, <2>3, <3>8, <4>2, SkippedChange
        <5>2. hushed[c.token] \subseteq Will(n, j)
          BY DEF Will
        <5> QED BY <3>6, <5>1, <5>2
      <4> QED BY <4>1, <4>2
    <3>9. c.accumulated \subseteq d.accumulated
      BY <3>2
    <3>10. /\ 1..s.version \subseteq Will(n, j) \cup c.accumulated
           /\ s.version < realm.version \/ Written => 1..s.version \subseteq Will(n, j)
      BY <3>3 DEF CoverFits
    <3>11. Written => s.version = latest
      <4>1. s.callbacks # <<>>
        BY <2>1, WithCallbacks
      <4> QED BY <2>1, <4>1 DEF CoverInv, WriteFits
    <3> HIDE DEF s, c, d
    <3>12. 1..RunTarget \subseteq Will(n, j) \cup d.accumulated
      <4>1. CASE s.version = RunTarget
        BY <3>9, <3>10, <4>1
      <4>2. CASE s.version < RunTarget
        <5>1. 1..RunTarget \subseteq 1..s.version \cup (s.version + 1)..RunTarget
          BY <3>6
        <5> QED BY <3>8, <3>9, <3>10, <4>2, <5>1
      <4> QED BY <3>6, <4>1, <4>2
    <3>13. RunTarget < realm.version \/ Written => 1..RunTarget \subseteq Will(n, j)
      <4>1. RunTarget < realm.version => RunTarget = s.version
        BY <3>6
      <4>2. Written => RunTarget = s.version
        BY <3>6, <3>11
      <4> QED BY <3>10, <4>1, <4>2
    <3>14. realm.version <= RunTarget + 1
      BY <3>6
    <3> QED BY <1>4, <3>1, <3>4, <3>12, <3>13, <3>14 DEF CoverFits, d
  <2> QED BY <2>2, <2>3 DEF CoverFits
<1> QED BY <1>7, <1>8, <1>9, <1>10 DEF CoverInv

-----------------------------------------------------------------------------
LEMMA StepsKeepCover ==
  ASSUME CoreInv, DeliveryInv, CoverInv, [Next]_vars
  PROVE  CoverInv'
<1>1. CoreInv'
  BY StepsKeepCore
<1>2. CASE QuietStep
  BY <1>2, QuietKeeps
<1>3. CASE Notify \/ SendPackage \/ (Refresh /\ ForRealm = {})
  BY <1>1, <1>3, SendingCover
<1>4. CASE HandOver
  BY <1>1, <1>4, HandOverCover
<1>5. CASE \E n \in Notifier, t \in Token : Add(n, t) \/ Remove(n, t)
  BY <1>5, AddCover, RemoveCover
<1>6. CASE \E n \in Notifier : CallNext(n)
  <2>1. PICK n \in Notifier : CallNext(n)
    BY <1>6
  <2>2. (\E k \in Int : Calls(n, k)) \/ Ends(n) \/ RunsPast(n)
    BY <2>1, CallNextCases
  <2> QED BY <2>1, <2>2, EndsCover, CallsCover, RunsPastCover
<1>7. CASE \E tokens \in SUBSET Token : SuppressTokens(tokens)
  BY <1>7, SuppressTokensCover
<1> QED BY <1>2, <1>3, <1>4, <1>5, <1>6, <1>7
        DEF Next, Collections, Main, Writes, Worker, QuietStep

LEMMA CoverAlways == Spec => [](CoreInv /\ DeliveryInv /\ CoverInv)
<1>1. CoreInv /\ DeliveryInv /\ CoverInv /\ [Next]_vars => CoreInv' /\ DeliveryInv' /\ CoverInv'
  BY StepsKeepCore, StepsKeepDelivery, StepsKeepCover
<1> QED BY InitCore, InitDelivery, InitCover, <1>1, PTL DEF Spec

\* No change is lost: up to the version of its notifier, a callback that has
\* had its first call was told of every commit, or will be, or asked not to
\* be.  It may miss one only after its notifier was told to count a callback
\* it had not counted, ran without it, or was overtaken by a write that began
\* inside a callback.
THEOREM NothingIsLostAlways == Spec => []NothingIsLost
<1>1. CoreInv /\ CoverInv => NothingIsLost
  <2> SUFFICES ASSUME CoverInv, ~ Excused,
                      NEW n \in Notifier, NEW i \in DOMAIN notifiers[n].callbacks,
                      notifiers[n].callbacks[i].initialDelivered
               PROVE  LET c == notifiers[n].callbacks[i]
                      IN 1..notifiers[n].version \subseteq
                           told[c.token] \cup hushed[c.token] \cup c.accumulated \cup Coming(n, c)
    BY DEF NothingIsLost, NoChangeLost, Excused
  <2> DEFINE c == notifiers[n].callbacks[i]
  <2>1. CoverFits(n, i) /\ Due(n, i)
    BY DEF CoverInv, Covered, Due
  <2>2. Coming(n, c) = IF InDelivery(n) THEN c.deliver ELSE {}
    BY DEF Coming, InDelivery
  <2>3. Will(n, i) = told[c.token] \cup hushed[c.token]
                       \cup (IF InDelivery(n) THEN c.deliver ELSE {})
    BY DEF Will
  <2>4. 1..notifiers[n].version \subseteq Will(n, i) \cup c.accumulated
    BY <2>1 DEF CoverFits
  <2> HIDE DEF c
  <2> QED BY <2>2, <2>3, <2>4 DEF c
<1> QED BY CoverAlways, <1>1, PTL
=============================================================================
