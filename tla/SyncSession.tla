---------------------------- MODULE SyncSession ----------------------------
(***************************************************************************)
(* The life of one synchronised Realm file's SyncSession: the object, the  *)
(* SyncManager entry that owns it, the SyncUser that logs in and out, the  *)
(* application's threads, and the thread of the sync client.               *)
(*                                                                         *)
(* Three mutexes guard this state.  What a thread does while it holds the  *)
(* session's m_state_mutex is one step.  The manager's m_session_mutex and *)
(* the user's m_mutex are held over several steps, and are variables.      *)
(*                                                                         *)
(* sync::Session, the client library's object, is external: here it is     *)
(* whether the session has one, the waits it was given and the commits it  *)
(* was told of.  Destroying it cancels its waits.                          *)
(***************************************************************************)
EXTENDS Integers, FiniteSets

CONSTANTS
  Thread,     \* the application's threads
  Client,     \* the thread that runs the sync client's event loop
  App,        \* the application's own reference to the session
  NoThread,   \* nobody holds the mutex
  Handler,    \* completion handlers; each is registered once
  Policies,   \* the values of SyncConfig::stop_policy that are used
  MaxVersion, \* the number of commits is bounded
  Budget      \* deaths and handlers, together, are bounded; the last is a death

ASSUME ThreadsAssumption ==
  /\ Client \notin Thread
  /\ App \notin Thread \cup {Client}
  /\ NoThread \notin Thread \cup {Client}
ASSUME PolicyAssumption ==
  Policies \subseteq {"Immediately", "LiveIndefinitely", "AfterChangesUploaded"}
ASSUME BoundsAssumption == MaxVersion \in Nat /\ Budget \in Nat

Anyone == Thread \cup {Client}

VARIABLES
  s,           \* the SyncSession's members and those of its sync::Session
  entry,       \* SyncManager::m_sessions has the session
  holders,     \* who shares the ExternalReference
  user,        \* the SyncUser's state, and which of its maps has the session
  asked,       \* what has become of the binding's request for a token
  managerLock, \* who holds SyncManager::m_session_mutex
  userLock,    \* who holds SyncUser::m_mutex
  thread,      \* where each thread is, with its locals
  version,     \* the newest commit of the application
  uploaded,    \* the newest commit the server has
  given,       \* history: the handlers that were registered
  called,      \* history: how often each handler was called
  failed       \* the function whose assertion has failed and ended the process

vars == <<s, entry, holders, user, asked, managerLock, userLock, thread,
          version, uploaded, given, called, failed>>

Label == {"idle", "registering", "reviving", "asking", "referring", "dropped",
          "releasing", "loggingOut", "loggedOut", "updating", "unregistering",
          "peeking", "leaving", "informing", "failing", "invalidating"}
ErrorKind == {"none", "token_expired", "bad_authentication",
              "permission_denied", "fatal"}
Death == [number : Nat, upTo : Nat]

\* Nobody asked, or it was answered; the first try, which keeps the session
\* alive; a later one, which does not; the binding has lost the request.
Request == {"no", "first", "again", "lost"}

SessionMembers ==
  [state : {"inactive", "waiting", "active", "dying"}, policy : Policies,
   session : BOOLEAN, deferredClose : BOOLEAN, deferredCommit : Nat,
   deaths : Nat, packages : SUBSET Handler, waits : SUBSET Handler,
   deathWaits : SUBSET Death, announced : Nat]
ThreadState ==
  [pc : Label, then : Label, aborting : SUBSET Handler, error : ErrorKind]

\* Type invariant.
TypeOK ==
  /\ s \in SessionMembers
  /\ entry \in BOOLEAN /\ asked \in Request
  /\ failed \in {"none", "advance_state", "unregister_session"}
  /\ holders \in SUBSET (Anyone \cup {App})
  /\ user \in [state : {"active", "loggedOut", "error"},
               listed : {"none", "sessions", "waiting"}]
  /\ managerLock \in Anyone \cup {NoThread}
  /\ userLock \in Anyone \cup {NoThread}
  /\ thread \in [Anyone -> ThreadState]
  /\ version \in Nat /\ uploaded \in Nat
  /\ given \in SUBSET Handler /\ called \in [Handler -> Nat]

-----------------------------------------------------------------------------
\* What the states do to the session's members.

\* Mutant of Inactive: the sync::Session stays.
InactiveKeepingSession(r) ==
  [r EXCEPT !.state = "inactive", !.packages = {}]

\* Inactive::enter_state, up to the release of the mutex: destroying the
\* sync::Session cancels its waits, which then complete at any time.
Inactive(r) ==
  [r EXCEPT !.state = "inactive", !.session = FALSE, !.packages = {},
            !.announced = 0, !.deathWaits = {[d EXCEPT !.upTo = 0] : d \in @}]

\* WaitingForAccessToken::enter_state.
WaitingForToken(r) == [r EXCEPT !.state = "waiting", !.deferredClose = FALSE]

\* Dying::enter_state, of a session that has a sync::Session.
Dying(r) ==
  [r EXCEPT !.state = "dying", !.deaths = @ + 1,
            !.deathWaits = @ \cup {[number |-> r.deaths + 1, upTo |-> r.announced]}]

\* Mutant of Activated: the queued waits are forgotten.
ActivatedForgetting(r) ==
  LET bound == IF r.session THEN r.announced ELSE version
  IN [r EXCEPT !.state = "active", !.session = TRUE, !.packages = {},
               !.announced = IF r.deferredCommit > bound THEN r.deferredCommit ELSE bound,
               !.deferredCommit = 0]

\* WaitingForAccessToken::refresh_access_token, up to advance_state.  Binding a
\* new sync::Session announces every commit there is.
Activated(r) ==
  LET bound == IF r.session THEN r.announced ELSE version
  IN [r EXCEPT !.state = "active", !.session = TRUE,
               !.waits = @ \cup r.packages, !.packages = {},
               !.announced = IF r.deferredCommit > bound THEN r.deferredCommit ELSE bound,
               !.deferredCommit = 0]

-----------------------------------------------------------------------------
\* What a thread does under m_state_mutex.

At(t, label) == thread[t].pc = label

\* A thread goes on; an idle one keeps no locals.
Moved(r, label) ==
  [r EXCEPT !.pc = label, !.error = "none", !.then = IF label = "idle" THEN label ELSE @]
Goes(t, label) == thread' = [thread EXCEPT ![t] = Moved(@, label)]
GoesThen(t, label, next) ==
  thread' = [thread EXCEPT ![t] =
    [@ EXCEPT !.pc = label, !.error = "none", !.then = next]]

\* advance_state to inactive.  It asserts that the state changes.  What follows
\* the release of the mutex is unregister, and then the thread's "next".
BecomesInactive(t, next) ==
  /\ s' = Inactive(s)
  /\ failed' = IF s.state = "inactive" THEN "advance_state" ELSE "none"
  /\ thread' = [thread EXCEPT ![t] =
       [pc |-> "unregistering", then |-> next, error |-> "none",
        aborting |-> @.aborting \cup s.packages]]

\* The states' log_out.
LogOutSession(t, next) ==
  \/ s.state # "inactive" /\ BecomesInactive(t, next)
  \/ s.state = "inactive" /\ Goes(t, next) /\ UNCHANGED <<s, failed>>

\* The states' close.
CloseSession(t, next) ==
  \/ /\ s.state = "waiting" /\ s.policy # "Immediately"
     /\ s' = [s EXCEPT !.deferredClose = TRUE]
     /\ Goes(t, next) /\ UNCHANGED failed
  \/ /\ s.state \in {"waiting", "active"} /\ s.policy = "Immediately"
     /\ BecomesInactive(t, next)
  \/ /\ s.state = "active" /\ s.policy = "AfterChangesUploaded"
     /\ s' = Dying(s)
     /\ Goes(t, next) /\ UNCHANGED failed
  \/ /\ s.state = "dying" \/ (s.state = "active" /\ s.policy = "LiveIndefinitely")
     /\ Goes(t, next) /\ UNCHANGED <<s, failed>>
  \/ /\ s.state = "inactive"
     /\ GoesThen(t, "unregistering", next)
     /\ UNCHANGED <<s, failed>>

\* The binding keeps the session alive during its first try for a token, a thread
\* while it is in one of its functions; otherwise SyncManager and the references
\* do.  Nothing but the sync client's cancelled waits happens to a dead session.
Alive == entry \/ holders # {} \/ asked = "first" \/ \E t \in Anyone : ~At(t, "idle")

locks == <<managerLock, userLock>>
data == <<version, uploaded, given, called>>

-----------------------------------------------------------------------------
\* SyncManager and the external reference.

\* get_session for a path that is registered.
GetSession(t) ==
  /\ At(t, "idle") /\ entry /\ managerLock = NoThread
  /\ managerLock' = t
  /\ Goes(t, "registering")
  /\ UNCHANGED <<s, entry, holders, user, asked, userLock, data, failed>>

\* SyncUser::register_session.
RegisterSession(t) ==
  /\ At(t, "registering") /\ userLock = NoThread
  /\ IF user.state = "active"
     THEN /\ user' = [user EXCEPT !.listed = "sessions"]
          /\ GoesThen(t, "reviving", "referring")
     ELSE /\ user' = IF user.state = "error" THEN user
                     ELSE [user EXCEPT !.listed = "waiting"]
          /\ Goes(t, "referring")
  /\ UNCHANGED <<s, entry, holders, asked, locks, data, failed>>

\* revive_if_needed.
Revive(t) ==
  /\ At(t, "reviving")
  /\ \/ s.state = "inactive" /\ s' = WaitingForToken(s) /\ Goes(t, "asking")
     \/ /\ s.state = "waiting" /\ s' = [s EXCEPT !.deferredClose = FALSE]
        /\ Goes(t, thread[t].then)
     \/ s.state = "dying" /\ s' = [s EXCEPT !.state = "active"] /\ Goes(t, thread[t].then)
     \/ s.state = "active" /\ UNCHANGED s /\ Goes(t, thread[t].then)
  /\ UNCHANGED <<entry, holders, user, asked, locks, data, failed>>

\* Mutant of Ask: the binding has no handler.
AskNobody(t) ==
  /\ At(t, "asking")
  /\ Goes(t, thread[t].then)
  /\ UNCHANGED <<s, entry, holders, user, asked, locks, data, failed>>

\* The call of bind_session_handler, after the mutex is released.
Ask(t) ==
  /\ At(t, "asking")
  /\ asked' = "first"
  /\ Goes(t, thread[t].then)
  /\ UNCHANGED <<s, entry, holders, user, locks, data, failed>>

\* The end of get_session: external_reference.
Refer(t) ==
  /\ At(t, "referring")
  /\ holders' = holders \cup {App}
  /\ managerLock' = NoThread
  /\ Goes(t, "idle")
  /\ UNCHANGED <<s, entry, user, asked, userLock, data, failed>>

\* The application lets go of the session.
Drop(t) ==
  /\ At(t, "idle") /\ App \in holders /\ s.deaths + Cardinality(given) < Budget
  /\ holders' = holders \ {App}
  /\ Goes(t, IF holders = {App} THEN "dropped" ELSE "idle")
  /\ UNCHANGED <<s, entry, user, asked, locks, data, failed>>

\* did_drop_external_reference, from the ExternalReference's destructor.
DidDrop(t) ==
  /\ At(t, "dropped")
  /\ IF holders # {} THEN Goes(t, "idle") /\ UNCHANGED <<s, failed>>
                     ELSE CloseSession(t, "idle")
  /\ UNCHANGED <<entry, holders, user, asked, locks, data>>

\* A thread lets go of the reference it locked for the length of its call.
Release(t) ==
  /\ At(t, "releasing")
  /\ holders' = holders \ {t}
  /\ Goes(t, IF holders = {t} THEN "dropped" ELSE "idle")
  /\ UNCHANGED <<s, entry, user, asked, locks, data, failed>>

\* Mutant of Unregister: the references are not looked at.
UnregisterHeld(t) ==
  /\ At(t, "unregistering") /\ managerLock = NoThread
  /\ Goes(t, "informing")
  /\ entry' = FALSE
  /\ failed' = IF entry THEN "none" ELSE "unregister_session"
  /\ UNCHANGED <<s, holders, managerLock, user, asked, userLock, data>>

\* unregister_session.  It asserts that the session is registered.  The look at
\* the external reference takes a share in it.
Unregister(t) ==
  /\ At(t, "unregistering") /\ managerLock = NoThread
  /\ IF entry /\ holders # {}
     THEN /\ holders' = holders \cup {t}
          /\ managerLock' = t
          /\ Goes(t, "peeking")
     ELSE UNCHANGED <<holders, managerLock>> /\ Goes(t, "informing")
  /\ entry' = (entry /\ holders # {})
  /\ failed' = IF entry THEN "none" ELSE "unregister_session"
  /\ UNCHANGED <<s, user, asked, userLock, data>>

\* The end of that look.  When everybody else has let go meanwhile, this thread
\* drops the reference while it holds m_session_mutex, and closing an inactive
\* session needs that mutex again.
Peek(t) ==
  /\ At(t, "peeking")
  /\ holders' = holders \ {t}
  /\ IF holders = {t} THEN CloseSession(t, "leaving")
                      ELSE Goes(t, "leaving") /\ UNCHANGED <<s, failed>>
  /\ UNCHANGED <<entry, user, asked, locks, data>>

\* unregister_session releases the mutex.
Leave(t) ==
  /\ At(t, "leaving")
  /\ managerLock' = NoThread
  /\ Goes(t, "informing")
  /\ UNCHANGED <<s, entry, holders, user, asked, userLock, data, failed>>

\* The handlers are told of the abort, by Inactive::enter_state or
\* cancel_pending_waits.
Inform(t) ==
  /\ At(t, "informing")
  /\ called' = [h \in Handler |-> called[h] + IF h \in thread[t].aborting THEN 1 ELSE 0]
  /\ thread' = [thread EXCEPT ![t] =
       [@ EXCEPT !.pc = thread[t].then, !.then = "idle", !.aborting = {}]]
  /\ UNCHANGED <<s, entry, holders, user, asked, locks, version, uploaded, given, failed>>

-----------------------------------------------------------------------------
\* SyncUser.

\* The user's log_out up to the session's.
LogOut(t) ==
  /\ At(t, "idle") /\ userLock = NoThread /\ user.state # "loggedOut"
  /\ IF user.listed = "sessions" /\ Alive
     THEN /\ user' = [user EXCEPT !.state = "loggedOut"]
          /\ userLock' = t
          /\ Goes(t, "loggingOut")
     ELSE /\ user' = [state |-> "loggedOut",
                      listed |-> IF user.listed = "waiting" THEN "waiting" ELSE "none"]
          /\ UNCHANGED <<userLock, thread>>
  /\ UNCHANGED <<s, entry, holders, asked, managerLock, data, failed>>

LogOutOfSession(t) ==
  /\ At(t, "loggingOut")
  /\ LogOutSession(t, "loggedOut")
  /\ UNCHANGED <<entry, holders, user, asked, locks, data>>

\* Mutant of LoggedOut: m_sessions is not cleared.
LoggedOutUncleared(t) ==
  /\ At(t, "loggedOut")
  /\ user' = [user EXCEPT !.listed = "both"]
  /\ userLock' = NoThread
  /\ Goes(t, "idle")
  /\ UNCHANGED <<s, entry, holders, asked, managerLock, data, failed>>

\* The end of the user's log_out.
LoggedOut(t) ==
  /\ At(t, "loggedOut")
  /\ user' = [user EXCEPT !.listed = "waiting"]
  /\ userLock' = NoThread
  /\ Goes(t, "idle")
  /\ UNCHANGED <<s, entry, holders, asked, managerLock, data, failed>>

\* update_refresh_token of a user that was logged out.
LogIn(t) ==
  /\ At(t, "idle") /\ userLock = NoThread /\ user.state = "loggedOut"
  /\ IF user.listed = "waiting" /\ Alive
     THEN /\ user' = [state |-> "active", listed |-> "sessions"]
          /\ GoesThen(t, "reviving", "idle")
     ELSE /\ user' = [state |-> "active", listed |-> "none"]
          /\ UNCHANGED thread
  /\ UNCHANGED <<s, entry, holders, asked, locks, data, failed>>

\* SyncUser::invalidate, after an authentication error.
Invalidate(t) ==
  /\ At(t, "invalidating") /\ userLock = NoThread
  /\ user' = [user EXCEPT !.state = "error"]
  /\ Goes(t, "idle")
  /\ UNCHANGED <<s, entry, holders, asked, locks, data, failed>>

-----------------------------------------------------------------------------
\* What the application and the binding ask of a session they hold.

\* A thread that is about to call locks its weak reference, if it can.
Locks(t) ==
  /\ At(t, "idle") /\ holders # {}
  /\ holders' = holders \cup {t}

\* RLMSyncSession's suspend and resume.
Suspend(t) ==
  /\ Locks(t)
  /\ LogOutSession(t, "releasing")
  /\ UNCHANGED <<entry, user, asked, locks, data>>

Resume(t) ==
  /\ Locks(t)
  /\ GoesThen(t, "reviving", "releasing")
  /\ UNCHANGED <<s, entry, user, asked, locks, data, failed>>

\* nonsync_transact_notify, after a commit.
Commit(t) ==
  /\ At(t, "idle") /\ holders # {} /\ version < MaxVersion
  /\ version' = version + 1
  /\ s' = CASE s.state = "waiting" -> [s EXCEPT !.deferredCommit = version + 1]
            [] s.state = "active" -> [s EXCEPT !.announced = version + 1]
            [] OTHER -> s
  /\ UNCHANGED <<entry, holders, user, asked, locks, thread, uploaded, given,
                 called, failed>>

\* wait_for_upload_completion and wait_for_download_completion.
WaitFor(t, h) ==
  /\ At(t, "idle") /\ holders # {} /\ h \notin given
  /\ s.deaths + Cardinality(given) < Budget - 1
  /\ given' = given \cup {h}
  /\ s' = IF s.state \in {"inactive", "waiting"}
          THEN [s EXCEPT !.packages = @ \cup {h}]
          ELSE [s EXCEPT !.waits = @ \cup {h}]
  /\ UNCHANGED <<entry, holders, user, asked, locks, thread, version, uploaded,
                 called, failed>>

\* update_configuration, of every session the user lists.  It repeats until the
\* session is found inactive, and revives it.
UpdateConfiguration(t) ==
  /\ At(t, "idle") /\ user.listed = "sessions" /\ user.state # "error" /\ Alive
  /\ userLock = NoThread
  /\ Goes(t, "updating")
  /\ UNCHANGED <<s, entry, holders, user, asked, locks, data, failed>>

Update(t) ==
  /\ At(t, "updating")
  /\ \/ s.state # "inactive" /\ BecomesInactive(t, "updating")
     \/ /\ s.state = "inactive"
        /\ GoesThen(t, "reviving", "idle")
        /\ UNCHANGED <<s, failed>>
  /\ UNCHANGED <<entry, holders, user, asked, locks, data>>

\* refresh_access_token, when the binding has a token.  A close that was put
\* off is made up for under the same lock.  The binding comes back before the
\* token expires, if that is not at once.
RefreshAccessToken(t) ==
  /\ At(t, "idle") /\ asked \in {"first", "again"} /\ Alive
  /\ asked' \in {"again", "no"}
  /\ s' = IF s.state # "waiting" THEN s
          ELSE IF s.deferredClose /\ s.policy = "AfterChangesUploaded"
               THEN Dying(Activated(s)) ELSE Activated(s)
  /\ UNCHANGED <<entry, holders, user, locks, thread, data, failed>>

\* The binding is refused a token at the first try: it logs the session out.
TokenRefused(t) ==
  /\ At(t, "idle") /\ asked = "first"
  /\ asked' = "no"
  /\ LogOutSession(t, "idle")
  /\ UNCHANGED <<entry, holders, user, locks, data>>

\* The server is out of reach: the binding will try again.
TokenDelayed ==
  /\ asked = "first"
  /\ asked' = "again"
  /\ UNCHANGED <<s, entry, holders, user, locks, thread, data, failed>>

\* The binding gives its request up and tells the session nothing: the answer is
\* no token, it is refused one later on, or the end of an older request, which is
\* registered for the same path, takes this one with it.
TokenLost ==
  /\ asked \in {"first", "again"}
  /\ asked' = "lost"
  /\ UNCHANGED <<s, entry, holders, user, locks, thread, data, failed>>

\* SyncManager::reconnect, for a session that waits for a token.
Reconnect(t) ==
  /\ At(t, "idle") /\ entry /\ managerLock = NoThread /\ s.state = "waiting"
  /\ asked' = "first"
  /\ UNCHANGED <<s, entry, holders, user, locks, thread, data, failed>>

-----------------------------------------------------------------------------
\* The sync client's thread.

\* A wait completes, or is found to be cancelled.
Complete(h) ==
  /\ At(Client, "idle") /\ h \in s.waits
  /\ s' = [s EXCEPT !.waits = @ \ {h}]
  /\ called' = [called EXCEPT ![h] = @ + 1]
  /\ UNCHANGED <<entry, holders, user, asked, locks, thread, version, uploaded,
                 given, failed>>

\* The server acknowledges a commit it was told of.
Upload ==
  /\ s.session /\ Alive /\ uploaded < s.announced
  /\ uploaded' = uploaded + 1
  /\ UNCHANGED <<s, entry, holders, user, asked, locks, thread, version, given,
                 called, failed>>

\* Mutant of DeathCompletes: any of the waits ends the session.
DeathCompletesUncounted(d) ==
  /\ At(Client, "idle") /\ Alive /\ d \in s.deathWaits /\ uploaded >= d.upTo
  /\ LET rest == [s EXCEPT !.deathWaits = @ \ {d}]
     IN IF s.state = "dying"
        THEN /\ s' = Inactive(rest)
             /\ thread' = [thread EXCEPT ![Client] =
                  [pc |-> "unregistering", then |-> "idle", aborting |-> s.packages,
                   error |-> "none"]]
        ELSE s' = rest /\ UNCHANGED thread
  /\ UNCHANGED <<entry, holders, user, asked, locks, data, failed>>

\* The wait of Dying::enter_state completes.
DeathCompletes(d) ==
  /\ At(Client, "idle") /\ Alive /\ d \in s.deathWaits /\ uploaded >= d.upTo
  /\ LET rest == [s EXCEPT !.deathWaits = @ \ {d}]
     IN IF s.state = "dying" /\ s.deaths = d.number
        THEN /\ s' = Inactive(rest)
             /\ thread' = [thread EXCEPT ![Client] =
                  [pc |-> "unregistering", then |-> "idle", aborting |-> s.packages,
                   error |-> "none"]]
        ELSE s' = rest /\ UNCHANGED thread
  /\ UNCHANGED <<entry, holders, user, asked, locks, data, failed>>

\* handle_error: first the state may deal with the error, Dying does ...
Error(e) ==
  /\ At(Client, "idle") /\ s.session /\ Alive
  /\ \/ s.state = "dying" /\ e # "token_expired" /\ BecomesInactive(Client, "idle")
     \/ /\ s.state # "dying"
        /\ thread' = [thread EXCEPT ![Client] = [@ EXCEPT !.pc = "failing", !.error = e]]
        /\ UNCHANGED <<s, failed>>
  /\ UNCHANGED <<entry, holders, user, asked, locks, data>>

\* ... then, under the mutex again, it is handled for what it is.
HandleError ==
  LET e == thread[Client].error
  IN /\ At(Client, "failing")
     /\ \/ /\ e = "token_expired" /\ s.state = "active"
           /\ s' = WaitingForToken(s)
           /\ GoesThen(Client, "asking", "idle")
           /\ UNCHANGED failed
        \/ /\ e = "token_expired" /\ s.state # "active"
           /\ Goes(Client, "idle") /\ UNCHANGED <<s, failed>>
        \/ e = "permission_denied" /\ BecomesInactive(Client, "idle")
        \/ /\ e \in {"bad_authentication", "fatal"}
           /\ s' = [s EXCEPT !.packages = {}]
           /\ thread' = [thread EXCEPT ![Client] =
                [pc |-> "informing", aborting |-> s.packages, error |-> "none",
                 then |-> IF e = "fatal" THEN "idle" ELSE "invalidating"]]
           /\ UNCHANGED failed
     /\ UNCHANGED <<entry, holders, user, asked, locks, data>>

-----------------------------------------------------------------------------
\* The first get_session has returned, with the user logged in or out.
Init ==
  /\ \E in \in BOOLEAN, policy \in Policies :
       /\ s = [state |-> IF in THEN "waiting" ELSE "inactive", policy |-> policy,
               session |-> FALSE,
               deferredClose |-> FALSE, deferredCommit |-> 0, deaths |-> 0,
               packages |-> {}, waits |-> {}, deathWaits |-> {}, announced |-> 0]
       /\ user = [state |-> IF in THEN "active" ELSE "loggedOut",
                  listed |-> IF in THEN "sessions" ELSE "waiting"]
       /\ asked = IF in THEN "first" ELSE "no"
  /\ entry = TRUE /\ holders = {App}
  /\ managerLock = NoThread /\ userLock = NoThread
  /\ thread = [t \in Anyone |-> [pc |-> "idle", then |-> "idle", aborting |-> {},
                                 error |-> "none"]]
  /\ version = 0 /\ uploaded = 0
  /\ given = {} /\ called = [h \in Handler |-> 0]
  /\ failed = "none"

\* What a thread that is in one of the functions does next.
Continue(t) ==
  \/ RegisterSession(t) \/ Revive(t) \/ Ask(t) \/ Refer(t) \/ DidDrop(t)
  \/ Release(t) \/ Unregister(t) \/ Peek(t) \/ Leave(t) \/ Inform(t)
  \/ LogOutOfSession(t) \/ LoggedOut(t) \/ Update(t) \/ Invalidate(t)

\* What the application and the binding start.
Call(t) ==
  \/ GetSession(t) \/ Drop(t) \/ LogOut(t) \/ LogIn(t) \/ Suspend(t) \/ Resume(t)
  \/ Commit(t) \/ UpdateConfiguration(t) \/ Reconnect(t)
  \/ RefreshAccessToken(t) \/ TokenRefused(t) \/ TokenDelayed \/ TokenLost
  \/ \E h \in Handler : WaitFor(t, h)

ClientCall ==
  \/ Upload \/ HandleError
  \/ \E h \in Handler : Complete(h)
  \/ \E d \in s.deathWaits : DeathCompletes(d)
  \/ \E e \in ErrorKind \ {"none"} : Error(e)

\* A failed assertion ends the process.
Next ==
  /\ failed = "none"
  /\ \/ \E t \in Thread : Call(t)
     \/ \E t \in Anyone : Continue(t)
     \/ ClientCall

Spec == Init /\ [][Next]_vars

-----------------------------------------------------------------------------
\* A thread uses the sync::Session of an active or a dying session without
\* looking: it is there.  An inactive session has none.
SessionFitsState ==
  /\ s.state \in {"active", "dying"} => s.session
  /\ s.state = "inactive" => ~s.session

\* A completion handler that was registered is called once, or it is in one
\* place: queued, waited for, or with the one thread that will tell it of the
\* abort.  What is queued in a session that dies while it is logged out stays
\* there, as sync_session.hpp's comment excepts.
HandlersKept ==
  \A h \in given :
    LET telling == {t \in Anyone : h \in thread[t].aborting}
    IN /\ called[h] \in {0, 1}
       /\ called[h] = 0 <=> h \in s.packages \cup s.waits \/ telling # {}
       /\ h \notin s.packages \cap s.waits
       /\ h \in s.packages \cup s.waits => telling = {}
       /\ \A t, u \in telling : t = u

\* A session somebody holds can be found: a second get_session does not make
\* another session for the same file.
HeldIsRegistered == holders # {} => entry

\* A session that waits for a token has asked for one, or a thread is about to.
\* The request is still open unless the binding has lost it.
WaitingHasAsked ==
  s.state = "waiting" => asked # "no" \/ \E t \in Anyone : At(t, "asking")

\* sync_manager.cpp's assertion: a session is only unregistered while it is
\* registered.
UnregisteredOnce == failed # "unregister_session"

\* When every call has returned, a session somebody holds is not about to end.
HeldIsNotDying ==
  App \in holders /\ (\A t \in Anyone : At(t, "idle")) => s.state # "dying"

\* Thread t waits for a mutex that u holds.
WaitsFor(t, u) ==
  \/ At(t, "unregistering") /\ managerLock = u
  \/ (At(t, "registering") \/ At(t, "invalidating")) /\ userLock = u

\* No two threads wait for each other's mutex, and none for its own.
NoCircularWait == \A t, u \in Anyone : ~(WaitsFor(t, u) /\ WaitsFor(u, t))

\* The deaths that the server has not answered for.
Awaited(r) == {d.number : d \in r.deathWaits}

\* A completed wait ends a dying session only when the server has every commit
\* that the session announced, also those after an earlier death.
DiesUploaded ==
  [][Awaited(s') # Awaited(s) /\ s.state = "dying" /\ s'.state = "inactive"
     => uploaded >= s.announced]_vars
=============================================================================
