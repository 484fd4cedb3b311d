-------------------------- MODULE RealmCoordinator --------------------------
(***************************************************************************)
(* How Realm tells collections of changes.  Three actors share one file:   *)
(*   - the main thread's Realm, whose run loop calls Realm::notify and     *)
(*     whose user code writes, refreshes and adds callbacks, also from     *)
(*     within a callback;                                                  *)
(*   - the others: Realms of other threads or processes, which commit, and *)
(*     write to the pipe afterwards;                                       *)
(*   - the notifier worker (ExternalCommitHelper::listen), which on every  *)
(*     write to the pipe runs on_change.                                   *)
(* RealmCoordinator's m_notifier_mutex protects the lists of notifiers and *)
(* what is handed over.  The worker releases it while it runs, so a run is *)
(* several steps, and everybody else may act between any two of them.      *)
(*                                                                         *)
(* All collections are the main thread's Realm's.  That Realm stays open,  *)
(* keeps a read transaction and has no key-value observers.                *)
(***************************************************************************)
EXTENDS CollectionNotifier

CONSTANT MaxVersion  \* the number of commits is bounded

ASSUME MaxVersionAssumption == MaxVersion \in Nat \ {0}

Version == 1..MaxVersion

VARIABLES
  latest,      \* the newest version of the file
  realm,       \* the main thread's Realm and where its code is
  notifiers,   \* the state of each notifier
  worker,      \* where the notifier worker is, with the locals of its run
  skipVersion, \* m_notifier_skip_version; 0 is none
  pipe,        \* the pipe was written to since the worker last woke up
  signal,      \* the main run loop was signalled by on_change
  owed,        \* one of the others has committed but not yet notified
  told,        \* history: what each callback has been told of
  hushed,      \* history: the commits that were not to be told to a token
  excuses      \* history: the known ways to go wrong that were met

vars == <<latest, realm, notifiers, worker, skipVersion, pipe, signal, owed,
          told, hushed, excuses>>

\* The ways in which the code is known to miss a change, to repeat one or to
\* wait in vain; each action that can take one says when it does.
Excuse == {"uncounted", "unwoken", "unheard", "unread", "jumped", "abandoned"}

\* Type invariant: versions stay in the file, packages hold notifiers.
TypeOK ==
  /\ latest \in Version
  /\ realm \in [version : Version, writing : BOOLEAN,
                pc : {"idle", "committing", "refreshing", "beginning", "calling", "beyond"},
                target : 0..MaxVersion, wait : {"first", "asleep", "woken"},
                package : SUBSET Notifier, cur : Notifier \cup {NoOne}]
  /\ notifiers \in [Notifier -> NotifierState(Version)]
  /\ worker \in [pc : {"idle", "skipping", "skipped", "running", "ran", "notifying"},
                 target : 0..MaxVersion, skip : 0..MaxVersion,
                 old : SUBSET Notifier, new : SUBSET Notifier]
  /\ skipVersion \in 0..MaxVersion
  /\ pipe \in BOOLEAN /\ signal \in BOOLEAN /\ owed \in BOOLEAN
  /\ told \in [Token -> SUBSET Version]
  /\ hushed \in [Token -> SUBSET Version]
  /\ excuses \in SUBSET Excuse

Init ==
  /\ latest = 1
  /\ realm = [version |-> 1, writing |-> FALSE, pc |-> "idle", target |-> 0,
              wait |-> "first", package |-> {}, cur |-> NoOne]
  /\ notifiers = [n \in Notifier |-> Unregistered]
  /\ worker = [pc |-> "idle", target |-> 0, skip |-> 0, old |-> {}, new |-> {}]
  /\ skipVersion = 0
  /\ pipe = FALSE /\ signal = FALSE /\ owed = FALSE
  /\ told = [t \in Token |-> {}]
  /\ hushed = [t \in Token |-> {}]
  /\ excuses = {}

\* notifiers_for_realm: those in m_new_notifiers or m_notifiers, alive.
ForRealm == {n \in Notifier : /\ notifiers[n].place \in {"new", "main"}
                              /\ notifiers[n].alive}

\* The user's own code runs on the main thread: nothing of Realm is on the
\* stack, or after_advance is inside a callback.
InCallback == realm.pc = "calling" /\ realm.cur # NoOne

UserCode == realm.pc = "idle" \/ InCallback

-----------------------------------------------------------------------------
(* Collections and callbacks.                                              *)

\* Results::prepare_async and register_notifier.
Register(n) ==
  /\ UserCode /\ ~realm.writing
  /\ notifiers[n].place = "none"
  /\ notifiers' = [notifiers EXCEPT ![n] = Registered(realm.version)]
  /\ UNCHANGED <<latest, realm, worker, skipVersion, pipe, signal, owed,
                 told, hushed, excuses>>

\* Results::add_notification_callback; the binding refuses it in a write.  A
\* token is new: it was told of nothing, not even of version 1.
Add(n, t) ==
  /\ UserCode /\ ~realm.writing
  /\ n \in ForRealm
  /\ told[t] = {}
  /\ notifiers' = [notifiers EXCEPT ![n] = AddCallback(@, t)]
  /\ pipe' = (pipe \/ ~Sending(notifiers[n]))
  /\ told' = [told EXCEPT ![t] = {1}]
  /\ excuses' = IF Sending(notifiers[n]) THEN excuses \cup {"unwoken"} ELSE excuses
  /\ UNCHANGED <<latest, realm, worker, skipVersion, signal, owed, hushed>>

\* The destructor of a NotificationToken, on any thread.  "uncounted": the
\* callback was added after its notifier was packaged, so m_callback_count,
\* which is decremented all the same, never counted it.
Remove(n, t) ==
  /\ t \in Tokens(notifiers[n])
  /\ notifiers' = [notifiers EXCEPT ![n] = RemoveCallback(@, t)]
  /\ excuses' = IF /\ realm.pc = "calling"
                   /\ n \in realm.package \cup {realm.cur}
                   /\ PositionOf(notifiers[n], t) > notifiers[n].count
                THEN excuses \cup {"uncounted"} ELSE excuses
  /\ UNCHANGED <<latest, realm, worker, skipVersion, pipe, signal, owed,
                 told, hushed>>

\* The destructor of a collection, on any thread.  A callback of the binding
\* holds on to its collection, so the callbacks go first.  "abandoned": the
\* main thread sleeps until this notifier is ready.
Release(n) ==
  /\ n \in ForRealm
  /\ notifiers[n].callbacks = <<>>
  /\ notifiers' = [notifiers EXCEPT ![n] = Unregister(@)]
  /\ excuses' = IF /\ realm.pc \in {"refreshing", "beginning"}
                   /\ n \in realm.package
                   /\ realm.wait = "asleep"
                THEN excuses \cup {"abandoned"} ELSE excuses
  /\ UNCHANGED <<latest, realm, worker, skipVersion, pipe, signal, owed,
                 told, hushed>>

-----------------------------------------------------------------------------
(* Delivery.  A package holds the notifiers that have run, all at one      *)
(* version; handing their views over may tell the worker that the Results  *)
(* no longer wants background updates.                                     *)

HaveRun(ns) == {n \in ns : notifiers[n].hasRun /\ notifiers[n].alive}

\* The package's version, 0 if it is empty.
PackageVersion(ns) ==
  IF ns = {} THEN 0 ELSE notifiers[CHOOSE n \in ns : TRUE].version

Packaged(ns) ==
  notifiers' = [n \in Notifier |->
                  IF n \in ns THEN Package(notifiers[n]) ELSE notifiers[n]]

PackagedAndDelivered(ns) ==
  \E wants \in [ns -> BOOLEAN] :
    notifiers' = [n \in Notifier |->
                    IF n \in ns THEN [Package(notifiers[n]) EXCEPT !.wants = wants[n]]
                    ELSE notifiers[n]]

\* Mutant of ReadAndCall: the callbacks are called before the Realm advances.
CallBeforeReading(version, ns) ==
  realm' = [realm EXCEPT !.package = ns,
                         !.target = IF ns = {} THEN 0 ELSE version,
                         !.wait = "first",
                         !.pc = IF ns = {} THEN "idle" ELSE "calling"]

\* The Realm reads "version" and goes on to call the callbacks of ns, which
\* were packaged at that version ("target" from then on).
ReadAndCall(version, ns) ==
  realm' = [realm EXCEPT !.version = version,
                         !.package = ns,
                         !.target = IF ns = {} THEN 0 ELSE version,
                         !.wait = "first",
                         !.pc = IF ns = {} THEN "idle" ELSE "calling"]

\* Realm::notify in a write: returns at once.
NotifyInWrite ==
  /\ realm.writing
  /\ UNCHANGED <<realm, notifiers, excuses>>

\* No newer version: process_available_async.
ProcessAvailable ==
  /\ ~realm.writing
  /\ latest = realm.version
  /\ LET ns == {n \in HaveRun(ForRealm) : notifiers[n].version = realm.version}
     IN PackagedAndDelivered(ns) /\ ReadAndCall(realm.version, ns)
  /\ UNCHANGED excuses

\* Mutant of AdvanceToReady: an empty package has a version, 0.
AdvanceToReadyByPackage ==
  /\ ~realm.writing
  /\ latest # realm.version
  /\ LET ns == HaveRun(ForRealm)
     IN PackagedAndDelivered(ns) /\ ReadAndCall(PackageVersion(ns), ns)
  /\ UNCHANGED excuses

\* A newer version: advance_to_ready, which waits for nobody.  Without
\* anything to deliver it goes to the newest version; a package that is
\* older than what is read is packaged and dropped.
AdvanceToReady ==
  /\ ~realm.writing
  /\ latest # realm.version
  /\ LET ns == HaveRun(ForRealm)
         v == PackageVersion(ns)
     IN \/ /\ ns = {}
           /\ ReadAndCall(latest, {})
           /\ UNCHANGED <<notifiers, excuses>>
        \/ /\ ns # {} /\ v < realm.version
           /\ Packaged(ns)
           /\ UNCHANGED <<realm, excuses>>
        \/ /\ ns # {} /\ v >= realm.version
           /\ PackagedAndDelivered(ns)
           /\ ReadAndCall(v, ns)
           /\ UNCHANGED excuses

\* The run loop handles the signal.
Notify ==
  /\ signal /\ realm.pc = "idle"
  /\ signal' = FALSE
  /\ NotifyInWrite \/ ProcessAvailable \/ AdvanceToReady
  /\ UNCHANGED <<latest, worker, skipVersion, pipe, owed, told, hushed>>

\* after_advance of one notifier of the package, up to its next call.  When the
\* count is beyond the callbacks, the loop goes on through whatever is in the
\* memory behind them: the main thread does nothing of its own any more, and
\* the process dies sooner or later.
CallNext(n) ==
  /\ realm.pc = "calling"
  /\ n = realm.cur \/ (realm.cur = NoOne /\ n \in realm.package)
  /\ LET ready == Ready(notifiers[n])
         i == CHOOSE j \in ready : \A k \in ready : j <= k
         c == notifiers[n].callbacks[i + 1]
         rest == realm.package \ {n}
     IN \/ /\ ready # {}
           /\ notifiers' = [notifiers EXCEPT ![n] = CallAt(@, i)]
           /\ realm' = [realm EXCEPT !.cur = n, !.package = rest]
           /\ told' = [told EXCEPT ![c.token] =
                         IF c.initialDelivered THEN @ \cup c.deliver
                         ELSE @ \cup ((1..realm.target) \ hushed[c.token])]
        \/ /\ BeyondCallbacks(notifiers[n])
           /\ realm' = [realm EXCEPT !.pc = "beyond", !.cur = NoOne, !.package = {},
                                     !.target = 0]
           /\ UNCHANGED <<notifiers, told>>
        \/ /\ ready = {} /\ ~BeyondCallbacks(notifiers[n])
           /\ notifiers' = [notifiers EXCEPT ![n] = LoopEnds(@)]
           /\ realm' = IF rest = {}
                       THEN [realm EXCEPT !.cur = NoOne, !.package = {},
                                          !.target = 0, !.pc = "idle"]
                       ELSE [realm EXCEPT !.cur = NoOne, !.package = rest]
           /\ UNCHANGED told
  /\ UNCHANGED <<latest, worker, skipVersion, pipe, signal, owed, hushed, excuses>>

-----------------------------------------------------------------------------
(* Refreshing and writing.                                                 *)

\* What package_and_wait waits for.
ReadyFor(ns, version) ==
  \A n \in ns : \/ ~notifiers[n].haveCallbacks
               \/ (notifiers[n].hasRun /\ notifiers[n].version >= version)

\* package_and_wait with a target: the package is chosen now and sent when
\* every notifier that has callbacks is at the target.
StartWaiting(pc) ==
  realm' = [realm EXCEPT !.pc = pc, !.package = ForRealm, !.target = latest,
                         !.wait = "first", !.writing = (pc = "beginning")]

\* Realm::refresh; within a callback it returns false.
Refresh ==
  /\ realm.pc = "idle" /\ ~realm.writing
  /\ IF ForRealm = {} THEN ReadAndCall(latest, {}) ELSE StartWaiting("refreshing")
  /\ UNCHANGED <<latest, notifiers, worker, skipVersion, pipe, signal, owed,
                 told, hushed, excuses>>

\* Realm::begin_transaction outside a callback: the write lock is taken
\* first, and kept while waiting.
Begin ==
  /\ realm.pc = "idle" /\ ~realm.writing
  /\ IF ForRealm = {}
     THEN realm' = [realm EXCEPT !.version = latest, !.writing = TRUE]
     ELSE StartWaiting("beginning")
  /\ UNCHANGED <<latest, notifiers, worker, skipVersion, pipe, signal, owed,
                 told, hushed, excuses>>

\* begin_transaction while notifications are being sent: straight to the
\* newest version, waiting for nobody and telling nobody.  "jumped": there was
\* somebody to wait for or something to tell.
BeginInCallback ==
  /\ InCallback /\ ~realm.writing
  /\ realm' = [realm EXCEPT !.version = latest, !.writing = TRUE]
  /\ excuses' = IF /\ latest = realm.version /\ ReadyFor(ForRealm, latest)
                   /\ \A n \in ForRealm : \A i \in DOMAIN notifiers[n].callbacks :
                        notifiers[n].callbacks[i].accumulated = {}
                THEN excuses ELSE excuses \cup {"jumped"}
  /\ UNCHANGED <<latest, notifiers, worker, skipVersion, pipe, signal, owed,
                 told, hushed>>

Waiting == realm.pc \in {"refreshing", "beginning"} /\ realm.wait # "asleep"

Awaited == ReadyFor(realm.package, realm.target)

\* wait_for_notifiers: the first time in vain wakes the worker up.
FallAsleep ==
  /\ Waiting /\ ~Awaited
  /\ realm' = [realm EXCEPT !.wait = "asleep"]
  /\ pipe' = (pipe \/ realm.wait = "first")
  /\ UNCHANGED <<latest, notifiers, worker, skipVersion, signal, owed,
                 told, hushed, excuses>>

\* The rest of package_and_wait, and advance_with_notifications.  A package
\* that falls short of the target is dropped, and then the newest version
\* is read.  In a write the views are not handed over, but the callbacks
\* are called all the same.
SendPackage ==
  /\ Waiting /\ Awaited
  /\ LET ns == HaveRun(realm.package)
         short == PackageVersion(ns) < realm.target
     IN \/ /\ ns = {} \/ short
           /\ Packaged(ns)
           /\ ReadAndCall(latest, {})
        \/ /\ ns # {} /\ ~short
           /\ IF realm.writing THEN Packaged(ns) ELSE PackagedAndDelivered(ns)
           /\ ReadAndCall(PackageVersion(ns), ns)
  /\ UNCHANGED <<latest, worker, skipVersion, pipe, signal, owed,
                 told, hushed, excuses>>

\* commitWriteTransactionWithoutNotifying: the callbacks are suppressed one
\* after the other, and then the write is committed.
SuppressTokens(tokens) ==
  /\ realm.pc = "idle" /\ realm.writing /\ latest < MaxVersion
  /\ tokens # {} /\ tokens \subseteq UNION {Tokens(notifiers[n]) : n \in Notifier}
  /\ notifiers' = [n \in Notifier |-> Suppress(notifiers[n], tokens)]
  /\ realm' = [realm EXCEPT !.pc = "committing"]
  /\ hushed' = [t \in Token |-> IF t \in tokens THEN hushed[t] \cup {latest + 1}
                                ELSE hushed[t]]
  /\ UNCHANGED <<latest, worker, skipVersion, pipe, signal, owed, told, excuses>>

\* Mutant of Commit: new notifiers count as well.
CommitSkippingForNew ==
  /\ UserCode \/ realm.pc = "committing"
  /\ realm.writing /\ latest < MaxVersion
  /\ latest' = latest + 1
  /\ realm' = [realm EXCEPT !.version = latest', !.writing = FALSE,
                            !.pc = IF @ = "committing" THEN "idle" ELSE @]
  /\ skipVersion' = IF ForRealm # {} THEN latest' ELSE skipVersion
  /\ pipe' = TRUE
  /\ UNCHANGED <<notifiers, worker, signal, owed, told, hushed, excuses>>

\* Mutant of Commit: the others are not notified.
CommitInSilence ==
  /\ UserCode \/ realm.pc = "committing"
  /\ realm.writing /\ latest < MaxVersion
  /\ latest' = latest + 1
  /\ realm' = [realm EXCEPT !.version = latest', !.writing = FALSE,
                            !.pc = IF @ = "committing" THEN "idle" ELSE @]
  /\ skipVersion' = IF \E n \in ForRealm : notifiers[n].place = "main"
                    THEN latest' ELSE skipVersion
  /\ UNCHANGED pipe
  /\ UNCHANGED <<notifiers, worker, signal, owed, told, hushed, excuses>>

\* RealmCoordinator::commit_write, under the notifiers' mutex.
Commit ==
  /\ UserCode \/ realm.pc = "committing"
  /\ realm.writing /\ latest < MaxVersion
  /\ latest' = latest + 1
  /\ realm' = [realm EXCEPT !.version = latest', !.writing = FALSE,
                            !.pc = IF @ = "committing" THEN "idle" ELSE @]
  /\ skipVersion' = IF \E n \in ForRealm : notifiers[n].place = "main"
                    THEN latest' ELSE skipVersion
  /\ pipe' = TRUE
  /\ UNCHANGED <<notifiers, worker, signal, owed, told, hushed, excuses>>

\* Realm::cancel_transaction.
Cancel ==
  /\ UserCode /\ realm.writing
  /\ realm' = [realm EXCEPT !.writing = FALSE]
  /\ UNCHANGED <<latest, notifiers, worker, skipVersion, pipe, signal, owed,
                 told, hushed, excuses>>

-----------------------------------------------------------------------------
(* The others.                                                             *)

\* Another Realm commits; it needs the write lock.
OtherCommit ==
  /\ ~realm.writing /\ ~owed /\ latest < MaxVersion
  /\ latest' = latest + 1
  /\ owed' = TRUE
  /\ UNCHANGED <<realm, notifiers, worker, skipVersion, pipe, signal,
                 told, hushed, excuses>>

\* ... and tells the others' notifier workers afterwards: notify_others.
OtherNotify ==
  /\ owed
  /\ owed' = FALSE /\ pipe' = TRUE
  /\ UNCHANGED <<latest, realm, notifiers, worker, skipVersion, signal,
                 told, hushed, excuses>>

-----------------------------------------------------------------------------
(* The worker's run_async_notifiers.                                       *)

Alive(place) == {n \in Notifier : notifiers[n].place = place /\ notifiers[n].alive}

\* clean_up_dead_notifiers: the dead leave the lists, and without notifiers
\* there is no version to skip to.
CleanedUp(n) == IF n.place \in {"new", "main"} /\ ~n.alive
                THEN [n EXCEPT !.place = "gone"] ELSE n

SkipAfterCleanUp ==
  IF /\ \E n \in Notifier : notifiers[n].place = "main"
     /\ Alive("main") = {}
  THEN 0 ELSE skipVersion

\* Under the lock: the version to run to is chosen, the version to skip is
\* taken, and the new notifiers join the others.
RunBegins ==
  /\ worker.pc = "idle" /\ pipe
  /\ pipe' = FALSE
  /\ notifiers' = [n \in Notifier |->
                     IF n \in Alive("new") THEN [notifiers[n] EXCEPT !.place = "main"]
                     ELSE CleanedUp(notifiers[n])]
  /\ \/ /\ Alive("new") \cup Alive("main") = {}
        /\ worker' = [worker EXCEPT !.pc = "notifying"]
        /\ skipVersion' = SkipAfterCleanUp
     \/ /\ Alive("new") \cup Alive("main") # {}
        /\ worker' = [pc |-> IF SkipAfterCleanUp # 0 THEN "skipping" ELSE "running",
                      target |-> latest, skip |-> SkipAfterCleanUp,
                      old |-> Alive("main"), new |-> Alive("new")]
        /\ skipVersion' = 0
  /\ UNCHANGED <<latest, realm, signal, owed, told, hushed, excuses>>

\* The version this part of the run goes to, and the notifiers it runs.
RunTarget == IF worker.pc \in {"skipping", "skipped"} THEN worker.skip ELSE worker.target
RunSet == IF worker.pc \in {"skipping", "skipped"} THEN worker.old
          ELSE worker.old \cup worker.new

\* Without the lock: advance and run, first up to the version to skip, if
\* there is one.  "unread": the rows compared with are not those of the
\* version the notifier was last at, which it did not run for.
RunNotifiers ==
  /\ worker.pc \in {"skipping", "running"}
  /\ notifiers' = [n \in Notifier |-> IF n \in RunSet THEN Run(notifiers[n], RunTarget)
                                      ELSE notifiers[n]]
  /\ worker' = [worker EXCEPT !.pc = IF @ = "skipping" THEN "skipped" ELSE "ran"]
  /\ excuses' = IF \E n \in RunSet : /\ notifiers'[n].changes # {}
                                     /\ notifiers[n].rows < notifiers[n].version
                THEN excuses \cup {"unread"} ELSE excuses
  /\ UNCHANGED <<latest, realm, skipVersion, pipe, signal, owed, told, hushed>>

\* Mutant of HandOver: nobody is woken up.
HandOverInSilence ==
  /\ worker.pc \in {"skipped", "ran"}
  /\ LET done(n) == IF n \in RunSet THEN PrepareHandover(notifiers[n], RunTarget)
                    ELSE notifiers[n]
     IN \/ /\ worker.pc = "skipped"
           /\ notifiers' = [n \in Notifier |-> done(n)]
           /\ worker' = [worker EXCEPT !.pc = "running"]
           /\ UNCHANGED <<realm, skipVersion>>
        \/ /\ worker.pc = "ran"
           /\ notifiers' = [n \in Notifier |-> CleanedUp(done(n))]
           /\ skipVersion' = SkipAfterCleanUp
           /\ worker' = [worker EXCEPT !.pc = "notifying"]
           /\ UNCHANGED realm
  /\ excuses' = IF \E n \in RunSet :
                     /\ notifiers[n].hasRun /\ notifiers[n].version < RunTarget
                     /\ notifiers[n].changes = {} /\ notifiers[n].callbacks # <<>>
                THEN excuses \cup {"unheard"} ELSE excuses
  /\ UNCHANGED <<latest, pipe, signal, owed, told, hushed>>

\* Under the lock again: hand over.  "unheard": a callback came after the
\* worker had looked whether there were any.
HandOver ==
  /\ worker.pc \in {"skipped", "ran"}
  /\ LET done(n) == IF n \in RunSet THEN PrepareHandover(notifiers[n], RunTarget)
                    ELSE notifiers[n]
     IN \/ /\ worker.pc = "skipped"
           /\ notifiers' = [n \in Notifier |-> done(n)]
           /\ worker' = [worker EXCEPT !.pc = "running"]
           /\ UNCHANGED <<realm, skipVersion>>
        \/ /\ worker.pc = "ran"
           /\ notifiers' = [n \in Notifier |-> CleanedUp(done(n))]
           /\ skipVersion' = SkipAfterCleanUp
           /\ worker' = [worker EXCEPT !.pc = "notifying"]
           /\ realm' = IF realm.wait = "asleep" THEN [realm EXCEPT !.wait = "woken"]
                       ELSE realm
  /\ excuses' = IF \E n \in RunSet :
                     /\ notifiers[n].hasRun /\ notifiers[n].version < RunTarget
                     /\ notifiers[n].changes = {} /\ notifiers[n].callbacks # <<>>
                THEN excuses \cup {"unheard"} ELSE excuses
  /\ UNCHANGED <<latest, pipe, signal, owed, told, hushed>>

\* The rest of on_change: every Realm's run loop is signalled.
NotifyRealms ==
  /\ worker.pc = "notifying"
  /\ worker' = [pc |-> "idle", target |-> 0, skip |-> 0, old |-> {}, new |-> {}]
  /\ signal' = TRUE
  /\ UNCHANGED <<latest, realm, notifiers, skipVersion, pipe, owed,
                 told, hushed, excuses>>

-----------------------------------------------------------------------------
Collections ==
  \E n \in Notifier :
    \/ Register(n)
    \/ Release(n)
    \/ \E t \in Token : Add(n, t) \/ Remove(n, t)

Writes ==
  \/ Begin \/ BeginInCallback
  \/ \E tokens \in SUBSET Token : SuppressTokens(tokens)
  \/ Commit \/ Cancel

Main == Notify \/ Refresh \/ FallAsleep \/ SendPackage \/ \E n \in Notifier : CallNext(n)

Worker == RunBegins \/ RunNotifiers \/ HandOver \/ NotifyRealms

Next == Collections \/ Main \/ Writes \/ OtherCommit \/ OtherNotify \/ Worker

Spec == Init /\ [][Next]_vars

\* The worker keeps running, the main thread keeps handling its run loop and
\* finishes what it began, a write included, and the others announce what
\* they have committed.  Nothing forces anybody to write or to add callbacks.
Fairness ==
  /\ WF_vars(Worker)
  /\ WF_vars(Notify) /\ WF_vars(FallAsleep \/ SendPackage)
  /\ WF_vars(\E n \in Notifier : CallNext(n))
  /\ WF_vars(Commit \/ Cancel)
  /\ WF_vars(OtherNotify)

FairSpec == Spec /\ Fairness

-----------------------------------------------------------------------------
\* What a callback will still be told by a delivery that is under way.
Coming(n, c) == IF realm.pc = "calling" /\ n \in realm.package \cup {realm.cur}
                THEN c.deliver ELSE {}

NoChangeLost ==
  \A n \in Notifier : \A i \in DOMAIN notifiers[n].callbacks :
    LET c == notifiers[n].callbacks[i]
    IN c.initialDelivered =>
         1..notifiers[n].version \subseteq
           told[c.token] \cup hushed[c.token] \cup c.accumulated \cup Coming(n, c)

\* No change is lost: up to the version of its notifier, a callback that has
\* had its first call was told of every commit, or will be, or asked not to
\* be.  The three ways in which the code does lose a change are excused.
NothingIsLost ==
  excuses \cap {"uncounted", "unheard", "jumped"} = {} => NoChangeLost

\* No change is told twice: what waits for a callback is news to it.
OnlyNews ==
  "unread" \notin excuses =>
    \A n \in Notifier : \A i \in DOMAIN notifiers[n].callbacks :
      LET c == notifiers[n].callbacks[i]
      IN c.initialDelivered =>
           (c.accumulated \cup Coming(n, c)) \cap told[c.token] = {}

\* Nobody is told of a commit that the Realm does not yet read.
ToldOfWhatIsRead == \A t \in Token : told[t] \subseteq 1..realm.version

\* Between two steps of the worker all notifiers that have run are at the same
\* version, which is what lets a package have one.
OneVersion ==
  \A m, n \in Notifier : (HaveRun({m, n}) = {m, n}) =>
    notifiers[m].version = notifiers[n].version

\* The two assertions of a run that skips a version, and that it only ever
\* goes forward.
SkipsForward ==
  worker.pc \in {"skipping", "skipped"} =>
    /\ worker.old # {}
    /\ worker.skip <= worker.target
    /\ \A n \in worker.old : notifiers[n].version <= worker.skip
    /\ skipVersion # 0 => skipVersion > worker.target

\* REALM_ASSERT_DEBUG of for_each_callback: a delivery does not count more
\* callbacks than there are.  The code fails this: a callback that was added
\* during the delivery was never counted, and its removal takes one from a count
\* that may be 0.
CountFits ==
  \A n \in Notifier : realm.pc = "calling" /\ n \in realm.package \cup {realm.cur} =>
    notifiers[n].count <= Len(notifiers[n].callbacks)

\* The loop over the callbacks never goes beyond them: whatever callbacks do to
\* themselves and to one another, a delivery counts no more than there are, and
\* its index is one of these, unless one was removed that was never counted.
CountFitsIfCounted ==
  "uncounted" \notin excuses => CountFits /\ realm.pc # "beyond"

\* A callback is not told of a write that was committed without notifying it.
\* The code fails this: between the suppression and the commit a run of the
\* worker that has nothing to hand over takes the suppression for its own.
SuppressedIsNotTold == \A t \in Token : hushed[t] \cap told[t] = {}

\* That m_have_callbacks may be stale costs nothing but work: no change is
\* lost in the ways that have nothing to do with it excluded.  The code fails
\* this: the worker sees no callback and computes no change, a callback is
\* added and has its first call at the old version, and the hand-over then
\* brings the new version without its change.
StaleFlagLosesNothing ==
  excuses \cap {"uncounted", "jumped"} = {} => NoChangeLost

Busy == realm.pc \in {"refreshing", "beginning"}

\* A refresh or a write that waits for the notifiers goes on eventually.  The
\* code fails this when the collection it waits for is destroyed on another
\* thread: without notifiers the worker returns before it notifies anybody.
WaitEnds == Busy ~> ~Busy

\* A refresh or a write that waits for the notifiers goes on eventually, if no
\* collection it waits for is destroyed meanwhile.
WaitEndsUnlessAbandoned == Busy ~> (~Busy \/ "abandoned" \in excuses)

\* Every commit is eventually told to every callback, unless it asked not to
\* be told or was removed: no wake-up of the worker and no signal of the run
\* loop is lost.
EveryCommitIsTold ==
  \A t \in Token, v \in Version \ {1} :
    (told[t] # {} /\ v <= latest) ~>
      \/ v \in told[t] \cup hushed[t]
      \/ \A n \in Notifier : t \notin Tokens(notifiers[n])
      \/ excuses \ {"unread"} # {}
=============================================================================
